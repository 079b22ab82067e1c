---------------------------- MODULE ConsoleProofs ----------------------------
(***************************************************************************)
(* The cursor stays on the screen and the line being typed before it, for  *)
(* a screen of any size on which a line leaves a row free, any number of   *)
(* terminals and any characters.                                           *)
(***************************************************************************)
EXTENDS Console, SequenceTheorems, TLAPS

\* The first cell of row y.
Row(y) == NUM_COLS * y

\* Rows follow one another and fill the screen.
LEMMA Rows ==
  /\ \A y \in Nat : Row(y) \in Nat /\ Row(y + 1) = Row(y) + NUM_COLS
  /\ \A y \in 0..(NUM_ROWS - 1) : Row(y) + NUM_COLS <= NUM_ROWS * NUM_COLS
  /\ Row(0) = 0
  /\ Row(NUM_ROWS) = NUM_ROWS * NUM_COLS
<1>1. NUM_COLS \in Nat /\ NUM_ROWS \in Nat /\ NUM_COLS > 0 /\ NUM_ROWS > 0
  BY ScreenAssumption
<1>2. \A y \in Nat : NUM_COLS * (y + 1) = NUM_COLS * y + NUM_COLS
  BY <1>1
<1>3. \A y \in Nat : NUM_COLS * y \in Nat
  BY <1>1
<1>4. ASSUME NEW y \in 0..(NUM_ROWS - 1)
      PROVE  NUM_COLS * (y + 1) <= NUM_ROWS * NUM_COLS
  <2>1. PICK d \in Nat : NUM_ROWS = (y + 1) + d
    <3>1. NUM_ROWS - (y + 1) \in Nat /\ NUM_ROWS = (y + 1) + (NUM_ROWS - (y + 1))
      BY <1>1
    <3> QED
      BY <3>1
  <2>2. NUM_ROWS * NUM_COLS = NUM_COLS * (y + 1) + NUM_COLS * d
    BY <2>1, <1>1
  <2>3. NUM_COLS * d \in Nat /\ NUM_COLS * (y + 1) \in Nat
    BY <1>1, <2>1
  <2> QED
    BY <2>2, <2>3
<1> QED
  BY <1>1, <1>2, <1>3, <1>4 DEF Row

\* Cells are numbered from 0.
LEMMA CellsBelow ==
  \A m \in Cells : m \in Nat /\ \A k \in Nat : k <= m => k \in Cells
<1>1. NUM_ROWS * NUM_COLS \in Nat
  BY ScreenAssumption
<1> QED
  BY <1>1 DEF Cells

\* The cursor of a screen stands in one of its cells.
LEMMA AtCell ==
  ASSUME NEW s \in Screens
  PROVE  /\ At(s) \in Cells
         /\ At(s) = Row(s.y) + s.x
         /\ Row(s.y) \in Nat /\ Row(s.y) + NUM_COLS <= NUM_ROWS * NUM_COLS
         /\ s.x \in Nat /\ s.y \in Nat /\ NUM_ROWS * NUM_COLS \in Nat
<1>1. NUM_COLS \in Nat /\ NUM_ROWS \in Nat /\ NUM_COLS > 0 /\ NUM_ROWS > 0
  BY ScreenAssumption
<1>2. s.x \in 0..(NUM_COLS - 1) /\ s.y \in 0..(NUM_ROWS - 1)
  BY DEF Screens
<1>3. At(s) = Row(s.y) + s.x
  BY DEF At, Row
<1>4. Row(s.y) \in Nat /\ Row(s.y) + NUM_COLS <= NUM_ROWS * NUM_COLS
  BY <1>1, <1>2, Rows
<1>5. NUM_ROWS * NUM_COLS \in Nat
  BY <1>1
<1> QED
  BY <1>1, <1>2, <1>3, <1>4, <1>5 DEF Cells

\* What a character does to the screen: the cursor goes to the next cell; or the
\* rows move up under it, and it stands at the start of the last one.
Puts(s, c, t) ==
  /\ t \in Screens
  /\ \E d \in {0, NUM_COLS} :
       /\ At(t) = At(s) + 1 - d
       /\ d = NUM_COLS => At(t) = Row(NUM_ROWS - 1)
       /\ \A p \in Cells : p + d \in Cells =>
            t.cells[p] = IF p + d = At(s) THEN c ELSE s.cells[p + d]

\* vertical_scrolling() on a screen whose cursor may stand below the last row.
LEMMA ScrollTyped ==
  ASSUME NEW x \in 0..(NUM_COLS - 1), NEW y \in 0..NUM_ROWS,
         NEW cells \in [Cells -> Bytes],
         NEW s, s = [x |-> x, y |-> y, cells |-> cells]
  PROVE  /\ Scroll(s) \in Screens
         /\ y < NUM_ROWS => Scroll(s) = s
         /\ y = NUM_ROWS =>
              /\ Scroll(s).x = x /\ Scroll(s).y = NUM_ROWS - 1
              /\ \A p \in Cells : p + NUM_COLS \in Cells =>
                   Scroll(s).cells[p] = cells[p + NUM_COLS]
<1>1. NUM_COLS \in Nat /\ NUM_ROWS \in Nat /\ NUM_COLS > 0 /\ NUM_ROWS > 0
  BY ScreenAssumption
<1>2. CASE y < NUM_ROWS
  BY <1>1, <1>2 DEF Scroll, Screens
<1>3. CASE y = NUM_ROWS
  <2> DEFINE up == [p \in Cells |-> IF p + NUM_COLS \in Cells
                                    THEN cells[p + NUM_COLS] ELSE Space]
  <2>1. Scroll(s) = [x |-> x, y |-> NUM_ROWS - 1, cells |-> up]
    <3>1. s.y = y /\ s.x = x /\ s.cells = cells /\ ~(s.y < NUM_ROWS)
      BY <1>1, <1>3
    <3>2. Scroll(s) = [s EXCEPT !.y = NUM_ROWS - 1, !.cells = up]
      BY <3>1, Zenon DEF Scroll
    <3> HIDE DEF up
    <3> QED
      BY <3>2
  <2>2. up \in [Cells -> Bytes]
    BY DEF Bytes
  <2> HIDE DEF up
  <2>3. Scroll(s) \in Screens
    BY <1>1, <2>1, <2>2 DEF Screens
  <2>4. \A p \in Cells : p + NUM_COLS \in Cells => up[p] = cells[p + NUM_COLS]
    BY DEF up
  <2> QED
    BY <1>1, <1>3, <2>1, <2>3, <2>4
<1> QED
  BY <1>1, <1>2, <1>3

\* The start of the next row.
LEMMA NextLineIs ==
  ASSUME NEW x, NEW y, NEW cells, NEW s, s = [x |-> x, y |-> y, cells |-> cells]
  PROVE  NextLine(s) = [x |-> 0, y |-> y + 1, cells |-> cells]
<1>1. s.y = y
  OBVIOUS
<1>2. NextLine(s) = [s EXCEPT !.x = 0, !.y = y + 1]
  BY <1>1, Zenon DEF NextLine
<1> QED
  BY <1>2

\* putc() and putc_term(): a newline keeps the screen's type ...
LEMMA PutNewline ==
  ASSUME NEW s \in Screens
  PROVE  Put(s, NL) \in Screens
<1>1. NUM_COLS \in Nat /\ NUM_ROWS \in Nat /\ NUM_COLS > 0 /\ NUM_ROWS > 0
  BY ScreenAssumption
<1>2. NextLine(s) = [x |-> 0, y |-> s.y + 1, cells |-> s.cells]
  <2>1. s = [x |-> s.x, y |-> s.y, cells |-> s.cells]
    BY DEF Screens
  <2> QED
    BY <2>1, NextLineIs
<1>3. 0 \in 0..(NUM_COLS - 1) /\ s.y + 1 \in 0..NUM_ROWS /\ s.cells \in [Cells -> Bytes]
  BY <1>1 DEF Screens
<1>4. Scroll(NextLine(s)) \in Screens
  BY <1>2, <1>3, ScrollTyped
<1> QED
  BY <1>4 DEF Put

\* ... and another character appears where the cursor was.
LEMMA PutChar ==
  ASSUME NEW s \in Screens, NEW c \in Bytes, c # NL
  PROVE  Puts(s, c, Put(s, c))
<1>1. NUM_COLS \in Nat /\ NUM_ROWS \in Nat /\ NUM_COLS > 0 /\ NUM_ROWS > 0
  BY ScreenAssumption
<1>2. s.x \in 0..(NUM_COLS - 1) /\ s.y \in 0..(NUM_ROWS - 1) /\ s.cells \in [Cells -> Bytes]
  BY DEF Screens
<1> DEFINE cells == [s.cells EXCEPT ![At(s)] = c]
           b == [s EXCEPT !.cells[At(s)] = c]
           a == Advance(b)
<1>3. b = [x |-> s.x, y |-> s.y, cells |-> cells]
  BY DEF Screens
<1>4. /\ cells \in [Cells -> Bytes]
      /\ \A p \in Cells : cells[p] = IF p = At(s) THEN c ELSE s.cells[p]
  BY <1>2
<1>5. Put(s, c) = Scroll(a)
  BY DEF Put
<1> HIDE DEF cells, b
<1>6. CASE s.x + 1 < NUM_COLS
  <2>1. a = [x |-> s.x + 1, y |-> s.y, cells |-> cells]
    BY <1>3, <1>6 DEF Advance
  <2>2. s.x + 1 \in 0..(NUM_COLS - 1) /\ s.y \in 0..NUM_ROWS /\ s.y < NUM_ROWS
    BY <1>1, <1>2, <1>6
  <2>3. Scroll(a) = a /\ Scroll(a) \in Screens
    BY <2>1, <2>2, <1>4, ScrollTyped
  <2>4. At(a) = At(s) + 1
    BY <2>1, <1>2, Rows DEF At, Row
  <2>5. \A p \in Cells : p + 0 = p
    BY DEF Cells
  <2>6. At(a) = At(s) + 1 - 0 /\ 0 # NUM_COLS
    BY <2>4, <1>1, AtCell DEF Cells
  <2> QED
    BY <1>4, <1>5, <2>1, <2>3, <2>5, <2>6 DEF Puts
<1>7. CASE s.x + 1 = NUM_COLS
  <2>1. a = [x |-> 0, y |-> s.y + 1, cells |-> cells]
    <3>1. a = NextLine(b)
      BY <1>3, <1>7, <1>1 DEF Advance
    <3> QED
      BY <3>1, <1>3, NextLineIs
  <2>2. 0 \in 0..(NUM_COLS - 1) /\ s.y + 1 \in 0..NUM_ROWS
    BY <1>1, <1>2
  <2>3. Row(s.y + 1) = At(s) + 1
    <3>1. s.x \in Nat /\ s.y \in Nat /\ Row(s.y) \in Nat /\ At(s) = Row(s.y) + s.x
      BY AtCell
    <3>2. Row(s.y + 1) = Row(s.y) + NUM_COLS
      BY <3>1, Rows
    <3> QED
      BY <3>1, <3>2, <1>1, <1>7
  <2>4. CASE s.y + 1 < NUM_ROWS
    <3>1. Scroll(a) = a /\ Scroll(a) \in Screens
      BY <2>1, <2>2, <2>4, <1>4, ScrollTyped
    <3>2. At(a) = At(s) + 1
      BY <2>1, <2>3, <1>1, <1>2 DEF At, Row
    <3>3. \A p \in Cells : p + 0 = p
      BY DEF Cells
    <3>4. At(a) = At(s) + 1 - 0 /\ 0 # NUM_COLS
      BY <3>2, <1>1, AtCell DEF Cells
    <3> QED
      BY <1>4, <1>5, <2>1, <3>1, <3>3, <3>4 DEF Puts
  <2>5. CASE s.y + 1 = NUM_ROWS
    <3>1. /\ Scroll(a) \in Screens
          /\ Scroll(a).x = 0 /\ Scroll(a).y = NUM_ROWS - 1
          /\ \A p \in Cells : p + NUM_COLS \in Cells =>
               Scroll(a).cells[p] = cells[p + NUM_COLS]
      BY <2>1, <2>2, <2>5, <1>4, ScrollTyped
    <3>2. At(Scroll(a)) = Row(NUM_ROWS - 1)
      BY <3>1, <1>1, Rows DEF At, Row
    <3>3. Row(NUM_ROWS - 1) + NUM_COLS = Row(s.y + 1)
      BY <2>5, <1>1, <1>2, Rows
    <3>4. At(Scroll(a)) = At(s) + 1 - NUM_COLS
      <4>1. NUM_ROWS - 1 \in Nat
        BY <1>1
      <4>2. Row(NUM_ROWS - 1) \in Nat
        BY <4>1, Rows
      <4>3. At(s) \in Nat
        BY AtCell DEF Cells
      <4>4. Row(NUM_ROWS - 1) + NUM_COLS = At(s) + 1
        BY <3>3, <2>3
      <4>5. \A m, n \in Nat : m + NUM_COLS = n + 1 => m = n + 1 - NUM_COLS
        BY <1>1
      <4>6. Row(NUM_ROWS - 1) = At(s) + 1 - NUM_COLS
        BY <4>2, <4>3, <4>4, <4>5
      <4> QED
        BY <4>6, <3>2
    <3> QED
      BY <1>4, <1>5, <3>1, <3>2, <3>4 DEF Puts
  <2> QED
    BY <2>4, <2>5, <1>1, <1>2
<1> QED
  BY <1>1, <1>2, <1>6, <1>7

\* backspace_handler() steps back and empties the cell.
LEMMA RuboutLast ==
  ASSUME NEW s \in Screens
  PROVE  /\ Rubout(s) \in Screens
         /\ At(s) > 0 =>
              /\ At(Rubout(s)) = At(s) - 1
              /\ \A p \in Cells : p < At(s) - 1 => Rubout(s).cells[p] = s.cells[p]
<1>1. NUM_COLS \in Nat /\ NUM_ROWS \in Nat /\ NUM_COLS > 0 /\ NUM_ROWS > 0
  BY ScreenAssumption
<1>2. s.x \in 0..(NUM_COLS - 1) /\ s.y \in 0..(NUM_ROWS - 1) /\ s.cells \in [Cells -> Bytes]
  BY DEF Screens
<1>3. At(s) \in Cells /\ At(s) = Row(s.y) + s.x /\ Row(s.y) \in Nat
  BY AtCell
<1>4. CASE At(s) = 0
  BY <1>4 DEF Rubout
<1>5. CASE At(s) > 0
  <2> DEFINE back == IF s.x > 0 THEN [s EXCEPT !.x = @ - 1]
                     ELSE [s EXCEPT !.x = NUM_COLS - 1, !.y = @ - 1]
  <2>1. /\ back.x \in 0..(NUM_COLS - 1) /\ back.y \in 0..(NUM_ROWS - 1)
        /\ back.cells = s.cells /\ At(back) = At(s) - 1 /\ back \in Screens
    <3>1. CASE s.x > 0
      <4>1. back = [x |-> s.x - 1, y |-> s.y, cells |-> s.cells]
        BY <3>1 DEF Screens
      <4>2. At(back) = Row(s.y) + (s.x - 1)
        BY <4>1 DEF At, Row
      <4> QED
        BY <4>1, <4>2, <3>1, <1>1, <1>2, <1>3 DEF Screens
    <3>2. CASE s.x = 0
      <4>1. s.y > 0
        BY <3>2, <1>5, <1>2, <1>3, Rows
      <4>2. back = [x |-> NUM_COLS - 1, y |-> s.y - 1, cells |-> s.cells]
        <5>1. s.y = s.y /\ s = [x |-> s.x, y |-> s.y, cells |-> s.cells]
          BY DEF Screens
        <5>2. back = [s EXCEPT !.x = NUM_COLS - 1, !.y = s.y - 1]
          BY <3>2
        <5> HIDE DEF back
        <5> QED
          BY <5>1, <5>2
      <4>3. At(back) = Row(s.y - 1) + (NUM_COLS - 1)
        BY <4>2 DEF At, Row
      <4>4. Row(s.y - 1) \in Nat /\ Row(s.y) = Row(s.y - 1) + NUM_COLS
        <5>1. s.y - 1 \in Nat /\ (s.y - 1) + 1 = s.y
          BY <4>1, <1>2
        <5> QED
          BY <5>1, Rows
      <4> QED
        BY <4>1, <4>2, <4>3, <4>4, <3>2, <1>1, <1>2, <1>3 DEF Screens
    <3> QED
      BY <3>1, <3>2, <1>2
  <2>2. Rubout(s) = [back EXCEPT !.cells[At(back)] = Space]
    BY <1>5, <1>3 DEF Rubout, Cells
  <2> HIDE DEF back
  <2>3. Rubout(s) = [x |-> back.x, y |-> back.y, cells |-> [s.cells EXCEPT ![At(s) - 1] = Space]]
    BY <2>1, <2>2 DEF Screens
  <2>4. [s.cells EXCEPT ![At(s) - 1] = Space] \in [Cells -> Bytes]
    BY <1>2 DEF Bytes
  <2>5. Rubout(s) \in Screens
    BY <2>1, <2>3, <2>4 DEF Screens
  <2>6. At(Rubout(s)) = At(back)
    BY <2>3 DEF At
  <2>7. \A p \in Cells : p < At(s) - 1 => Rubout(s).cells[p] = s.cells[p]
    BY <2>3, <1>2, <1>3 DEF Cells
  <2> QED
    BY <2>1, <2>5, <2>6, <2>7
<1> QED
  BY <1>3, <1>4, <1>5 DEF Cells

------------------------------------------------------------------------------
Line == Seq(Chars \cup {Space})

\* The characters a line is made of are not the newline.
LEMMA Printable ==
  ASSUME NEW c \in Chars \cup {Space}
  PROVE  c \in Bytes /\ c # NL
<1>1. c \in Bytes
  BY DEF Bytes
<1>2. Space # NL
  BY DEF Space, NL
<1> QED
  BY <1>1, <1>2, ConsoleAssumption

\* An empty line ends anywhere.
LEMMA EchoesEmpty ==
  ASSUME NEW s \in Screens
  PROVE  Echoes(s, <<>>)
BY AtCell DEF Echoes, Cells

\* A character that is echoed follows the line on the screen, whether the line
\* wraps or the screen scrolls under it: scrolling leaves a line's room above
\* the last row.
LEMMA PutEchoes ==
  ASSUME NEW s \in Screens, NEW line \in Line, NEW c \in Chars \cup {Space},
         Len(line) < MaxLine, Echoes(s, line)
  PROVE  Echoes(Put(s, c), Append(line, c))
<1> DEFINE t == Put(s, c)
           n == Len(line)
<1>1. Puts(s, c, t)
  BY PutChar, Printable
<1> HIDE DEF t
<1>2. PICK d \in {0, NUM_COLS} :
        /\ At(t) = At(s) + 1 - d
        /\ d = NUM_COLS => At(t) = Row(NUM_ROWS - 1)
        /\ \A p \in Cells : p + d \in Cells =>
             t.cells[p] = IF p + d = At(s) THEN c ELSE s.cells[p + d]
  BY <1>1, Zenon DEF Puts
<1>3. At(s) \in Cells /\ At(t) \in Cells
  BY <1>1, AtCell DEF Puts
<1>4. n \in Nat /\ d \in Nat /\ n + 1 <= MaxLine /\ MaxLine \in Nat
  BY ScreenAssumption, ConsoleAssumption DEF Line
<1>5. n + 1 <= At(t)
  <2>1. CASE d = 0
    BY <1>2, <1>3, <1>4, <2>1 DEF Echoes, Cells
  <2>2. CASE d = NUM_COLS
    BY <1>2, <1>4, <2>2, ScreenAssumption, ConsoleAssumption DEF Row
  <2> QED
    BY <2>1, <2>2
<1>6. Append(line, c) \in Line /\ Len(Append(line, c)) = n + 1
  BY DEF Line
<1>7. ASSUME NEW j \in 1..(n + 1)
      PROVE  t.cells[At(t) - (n + 1) + j - 1] = Append(line, c)[j]
  <2> DEFINE p == At(t) - (n + 1) + j - 1
             q == At(s) - n + j - 1
  <2>1. p + d = q /\ p \in Cells /\ q \in Cells
    <3>1. n <= At(s)
      BY DEF Echoes
    <3>2. At(s) \in Nat /\ At(t) \in Nat /\ At(t) = At(s) + 1 - d
      BY <1>2, <1>3 DEF Cells
    <3>3. p + d = q
      BY <3>2, <1>4
    <3>4. p \in Nat /\ q \in Nat /\ q <= At(s) /\ p < At(t)
      BY <3>1, <3>2, <1>4, <1>5
    <3>5. p <= At(t)
      BY <3>4, <3>2
    <3> HIDE DEF p, q
    <3> QED
      BY <3>3, <3>4, <3>5, <1>3, CellsBelow
  <2>2. t.cells[p] = IF q = At(s) THEN c ELSE s.cells[q]
    BY <1>2, <2>1
  <2>3. CASE j = n + 1
    <3>1. q = At(s)
      BY <1>3, <1>4, <2>3 DEF Cells
    <3>2. Append(line, c)[j] = c
      BY <2>3 DEF Line
    <3> QED
      BY <2>2, <3>1, <3>2
  <2>4. CASE j \in 1..n
    <3>1. q # At(s)
      BY <1>3, <1>4, <2>4 DEF Cells
    <3>2. s.cells[q] = line[j]
      BY <2>4 DEF Echoes
    <3>3. Append(line, c)[j] = line[j]
      BY <2>4 DEF Line
    <3> QED
      BY <2>2, <3>1, <3>2, <3>3
  <2> QED
    BY <1>4, <2>3, <2>4
<1>8. Echoes(t, Append(line, c))
  BY <1>5, <1>6, <1>7 DEF Echoes
<1> QED
  BY <1>8 DEF t

\* A backspace takes the line's last character off the screen, from the row
\* above if need be.
LEMMA RuboutEchoes ==
  ASSUME NEW s \in Screens, NEW line \in Line, line # <<>>, Echoes(s, line)
  PROVE  Echoes(Rubout(s), SubSeq(line, 1, Len(line) - 1))
<1> DEFINE n == Len(line)
           rest == SubSeq(line, 1, n - 1)
<1>1. n \in Nat /\ n > 0 /\ At(s) \in Cells /\ n <= At(s)
  BY AtCell DEF Line, Echoes
<1>2. Len(rest) = n - 1 /\ \A j \in 1..(n - 1) : rest[j] = line[j]
  <2>1. \A j \in 1..(n - 1) : line[j] \in Chars \cup {Space}
    BY <1>1 DEF Line
  <2>2. /\ Len(rest) = IF 1 <= n - 1 THEN (n - 1) - 1 + 1 ELSE 0
        /\ \A j \in 1..((n - 1) - 1 + 1) : rest[j] = line[1 + j - 1]
    BY <1>1, <2>1, SubSeqProperties
  <2> HIDE DEF rest
  <2>3. \A j \in 1..(n - 1) : 1 + j - 1 = j /\ j \in 1..((n - 1) - 1 + 1)
    BY <1>1
  <2>4. Len(rest) = n - 1
    <3>1. CASE 1 <= n - 1
      <4>1. (n - 1) - 1 + 1 = n - 1
        BY <1>1
      <4> QED
        BY <2>2, <3>1, <4>1
    <3>2. CASE ~(1 <= n - 1)
      <4>1. n - 1 = 0
        <5>1. \A k \in Nat : k > 0 /\ ~(1 <= k - 1) => k - 1 = 0
          OBVIOUS
        <5> QED
          BY <5>1, <1>1, <3>2
      <4> QED
        BY <2>2, <3>2, <4>1
    <3> QED
      BY <3>1, <3>2
  <2>5. \A j \in 1..(n - 1) : rest[j] = line[j]
    BY <2>2, <2>3
  <2> QED
    BY <2>4, <2>5
<1>3. /\ At(Rubout(s)) = At(s) - 1
      /\ \A p \in Cells : p < At(s) - 1 => Rubout(s).cells[p] = s.cells[p]
  BY <1>1, RuboutLast DEF Cells
<1> HIDE DEF rest
<1>4. ASSUME NEW j \in 1..(n - 1)
      PROVE  Rubout(s).cells[At(s) - 1 - (n - 1) + j - 1] = rest[j]
  <2>1. At(s) - 1 - (n - 1) + j - 1 = At(s) - n + j - 1 /\ j \in 1..n
    BY <1>1 DEF Cells
  <2>2. At(s) - n + j - 1 \in Cells /\ At(s) - n + j - 1 < At(s) - 1
    <3>1. /\ At(s) - n + j - 1 \in Nat /\ At(s) - n + j - 1 <= At(s)
          /\ At(s) - n + j - 1 < At(s) - 1
      BY <1>1, CellsBelow
    <3> QED
      BY <3>1, <1>1, CellsBelow
  <2>3. s.cells[At(s) - n + j - 1] = line[j]
    BY <2>1 DEF Echoes
  <2> QED
    BY <2>1, <2>2, <2>3, <1>2, <1>3
<1>5. Echoes(Rubout(s), rest)
  BY <1>1, <1>2, <1>3, <1>4 DEF Echoes, Cells
<1> QED
  BY <1>5 DEF rest

\* n blanks.
Blanks(n) == [j \in 1..n |-> Space]

LEMMA BlanksAppended ==
  ASSUME NEW line \in Line, NEW n \in Nat
  PROVE  /\ line \o Blanks(n) \in Line
         /\ Len(line \o Blanks(n)) = Len(line) + n
         /\ line \o Blanks(0) = line
         /\ line \o Blanks(n + 1) = Append(line \o Blanks(n), Space)
<1>1. \A k \in Nat : Blanks(k) \in Line /\ Len(Blanks(k)) = k
  BY DEF Blanks, Line
<1>2. \A k \in Nat : /\ line \o Blanks(k) \in Line
                     /\ Len(line \o Blanks(k)) = Len(line) + k
  BY <1>1, ConcatProperties DEF Line
<1>3. line \o Blanks(0) = line
  <2>1. Blanks(0) = <<>>
    BY <1>1 DEF Line
  <2> QED
    BY <2>1, ConcatEmptySeq DEF Line
<1>4. line \o Blanks(n + 1) = Append(line \o Blanks(n), Space)
  <2>1. Blanks(n + 1) = Append(Blanks(n), Space)
    BY <1>1 DEF Blanks
  <2>2. line \o Append(Blanks(n), Space) = Append(line \o Blanks(n), Space)
    BY <1>1 DEF Line
  <2> QED
    BY <2>1, <2>2
<1> QED
  BY <1>2, <1>3, <1>4

\* The nth blank of a tab.
LEMMA PadEchoes ==
  ASSUME TypeOK, NEW s \in Screens, NEW n \in Nat,
         Len(text[current]) <= MaxLine,
         Echoes(s, text[current] \o Blanks(Editor!Least(n, Editor!Room)))
  PROVE  /\ Pad(s, n + 1) \in Screens
         /\ Echoes(Pad(s, n + 1),
                   text[current] \o Blanks(Editor!Least(n + 1, Editor!Room)))
<1> DEFINE line == text[current]
           room == Editor!Room
<1>1. line \in Line /\ Len(line) \in Nat /\ room \in Nat /\ room = MaxLine - Len(line)
  BY ConsoleAssumption DEF TypeOK, Line, Editor!Room
<1>2. CASE n + 1 <= room
  <2>1. Editor!Least(n, room) = n /\ Editor!Least(n + 1, room) = n + 1
    BY <1>1, <1>2 DEF Editor!Least
  <2>2. Len(line \o Blanks(n)) < MaxLine
    <3>1. Len(line \o Blanks(n)) = Len(line) + n
      BY <1>1, BlanksAppended
    <3> HIDE DEF line, room
    <3> QED
      BY <3>1, <1>1, <1>2, ConsoleAssumption
  <2>3. Echoes(Put(s, Space), Append(line \o Blanks(n), Space))
    BY <1>1, <2>1, <2>2, BlanksAppended, PutEchoes
  <2>4. Put(s, Space) \in Screens
    BY Printable, PutChar DEF Puts
  <2>5. Pad(s, n + 1) = Put(s, Space)
    BY <1>2 DEF Pad
  <2>6. line \o Blanks(n + 1) = Append(line \o Blanks(n), Space)
    BY <1>1, BlanksAppended
  <2>7. Echoes(Pad(s, n + 1), line \o Blanks(Editor!Least(n + 1, room)))
    BY <2>1, <2>3, <2>5, <2>6
  <2> QED
    BY <2>4, <2>5, <2>7
<1>3. CASE ~(n + 1 <= room)
  <2>1. Editor!Least(n, room) = room /\ Editor!Least(n + 1, room) = room
    BY <1>1, <1>3 DEF Editor!Least
  <2> QED
    BY <1>3, <2>1 DEF Pad
<1> QED
  BY <1>2, <1>3

------------------------------------------------------------------------------
\* The invariant: a line is never longer than the buffer.
Inv == TypeOK /\ LineIsSeen /\ \A t \in Terminals : Len(text[t]) <= MaxLine

LEMMA Lengths ==
  ASSUME TypeOK
  PROVE  \A t \in Terminals : text[t] \in Line /\ Len(text[t]) \in Nat
BY DEF TypeOK, Line

\* An edit of the line shown that the screen follows.
LEMMA EditKeeps ==
  ASSUME Inv, mode = "waiting", NEW line \in Line, Len(line) <= MaxLine,
         NEW s \in Screens,
         current \notin mixed => Echoes(s, line),
         Press(Editor!Edit(line), s)
  PROVE  Inv'
<1>1. /\ text' = [text EXCEPT ![current] = line] /\ screen' = s
      /\ mixed' = {t \in mixed : text'[t] # <<>>}
      /\ current' = current /\ got' = got
      /\ saved' = saved /\ started' = started /\ mode' = mode
  BY DEF Press, Editor!Edit
<1>2. TypeOK'
  BY <1>1 DEF Inv, TypeOK, Line
<1>3. \A t \in Terminals : Len(text'[t]) <= MaxLine
  BY <1>1 DEF Inv, TypeOK
<1>4. ASSUME NEW t \in Terminals, t \notin mixed'
      PROVE  Echoes(IF t = current THEN s ELSE saved[t], text'[t])
  <2>1. CASE t = current
    <3>1. text'[t] = line
      BY <1>1, <2>1 DEF Inv, TypeOK
    <3>2. CASE t \in mixed
      BY <1>1, <1>4, <2>1, <3>1, <3>2, EchoesEmpty
    <3>3. CASE t \notin mixed
      BY <2>1, <3>1, <3>3
    <3> QED
      BY <3>2, <3>3
  <2>2. CASE t # current
    <3>1. text'[t] = text[t]
      BY <1>1, <2>2 DEF Inv, TypeOK
    <3>2. CASE t \in mixed
      BY <1>1, <1>4, <2>2, <3>1, <3>2, EchoesEmpty DEF Inv, TypeOK
    <3>3. CASE t \notin mixed
      BY <2>2, <3>1, <3>3 DEF Inv, LineIsSeen
    <3> QED
      BY <3>2, <3>3
  <2> QED
    BY <2>1, <2>2
<1>5. LineIsSeen'
  <2> SUFFICES ASSUME NEW t \in Terminals \ mixed'
               PROVE  Echoes(IF t = current' THEN screen' ELSE saved'[t], text'[t])
    BY DEF LineIsSeen, Echoes, At
  <2> QED
    BY <1>1, <1>4
<1> QED
  BY <1>2, <1>3, <1>5 DEF Inv

LEMMA TypeCharKeeps ==
  ASSUME Inv, NEW c \in Chars, TypeChar(c)
  PROVE  Inv'
<1> DEFINE line == Append(text[current], c)
<1>1. /\ mode = "waiting" /\ Editor!Room > 0
      /\ Press(Editor!Edit(line), Put(screen, c))
  BY DEF TypeChar, Press, Editor!Insert
<1>2. /\ text[current] \in Line /\ Len(text[current]) \in Nat
      /\ current \in Terminals /\ screen \in Screens
  BY Lengths DEF Inv, TypeOK
<1>3. Len(text[current]) < MaxLine
  BY <1>1, <1>2, ConsoleAssumption DEF Editor!Room
<1>4. line \in Line /\ Len(line) <= MaxLine
  <2>1. line \in Line /\ Len(line) = Len(text[current]) + 1
    BY <1>2 DEF Line
  <2> HIDE DEF line
  <2> QED
    BY <2>1, <1>2, <1>3, ConsoleAssumption
<1>5. Put(screen, c) \in Screens
  BY <1>2, Printable, PutChar DEF Puts
<1>6. current \notin mixed => Echoes(Put(screen, c), line)
  <2>1. current \notin mixed => Echoes(screen, text[current])
    BY <1>1, <1>2 DEF Inv, LineIsSeen
  <2> QED
    BY <2>1, <1>2, <1>3, PutEchoes
<1> QED
  BY <1>1, <1>4, <1>5, <1>6, EditKeeps

LEMMA TypeTabKeeps ==
  ASSUME Inv, TypeTab
  PROVE  Inv'
<1> DEFINE old == text[current]
           room == Editor!Room
           line == old \o Blanks(Editor!Least(4, room))
           s1 == Pad(screen, 1)
           s2 == Pad(s1, 2)
           s3 == Pad(s2, 3)
           s4 == Pad(s3, 4)
<1>1. mode = "waiting" /\ Press(Editor!Edit(line), s4)
  BY DEF TypeTab, Press, Editor!Indent, Blanks
<1>2. /\ old \in Line /\ Len(old) \in Nat /\ Len(old) <= MaxLine
      /\ current \in Terminals /\ screen \in Screens /\ TypeOK
  BY Lengths DEF Inv, TypeOK
<1>3. room \in Nat /\ room = MaxLine - Len(old)
  BY <1>2, ConsoleAssumption DEF Editor!Room
<1>4. line \in Line /\ Len(line) <= MaxLine
  <2>1. Editor!Least(4, room) \in Nat /\ Editor!Least(4, room) <= room
    BY <1>3 DEF Editor!Least
  <2>2. line \in Line /\ Len(line) = Len(old) + Editor!Least(4, room)
    BY <1>2, <2>1, BlanksAppended
  <2> HIDE DEF line, old, room
  <2> QED
    BY <2>1, <2>2, <1>2, <1>3, ConsoleAssumption
<1>5. ASSUME NEW s \in Screens, NEW n \in Nat
      PROVE  Pad(s, n) \in Screens
  BY Printable, PutChar DEF Pad, Puts
<1>6. ASSUME current \notin mixed
      PROVE  Echoes(s4, line)
  <2>1. Echoes(screen, old \o Blanks(Editor!Least(0, room)))
    <3>1. Echoes(screen, old)
      BY <1>1, <1>2, <1>6 DEF Inv, LineIsSeen
    <3>2. Editor!Least(0, room) = 0
      BY <1>3 DEF Editor!Least
    <3> QED
      BY <1>2, <3>1, <3>2, BlanksAppended
  <2>2. s1 \in Screens /\ Echoes(s1, old \o Blanks(Editor!Least(1, room)))
    BY <1>2, <2>1, PadEchoes, 0 \in Nat /\ 0 + 1 = 1
  <2>3. s2 \in Screens /\ Echoes(s2, old \o Blanks(Editor!Least(2, room)))
    BY <1>2, <2>2, PadEchoes, 1 \in Nat /\ 1 + 1 = 2
  <2>4. s3 \in Screens /\ Echoes(s3, old \o Blanks(Editor!Least(3, room)))
    BY <1>2, <2>3, PadEchoes, 2 \in Nat /\ 2 + 1 = 3
  <2> QED
    BY <1>2, <2>4, PadEchoes, 3 \in Nat /\ 3 + 1 = 4
<1>7. s4 \in Screens
  BY <1>2, <1>5
<1> QED
  BY <1>1, <1>4, <1>6, <1>7, EditKeeps

LEMMA BackspaceKeeps ==
  ASSUME Inv, Backspace
  PROVE  Inv'
<1> DEFINE line == SubSeq(text[current], 1, Len(text[current]) - 1)
<1>1. /\ mode = "waiting" /\ text[current] # <<>>
      /\ Press(Editor!Edit(line), Rubout(screen))
  BY DEF Backspace, Press, Editor!Erase
<1>2. /\ text[current] \in Line /\ Len(text[current]) \in Nat /\ Len(text[current]) <= MaxLine
      /\ current \in Terminals /\ screen \in Screens
  BY Lengths DEF Inv, TypeOK
<1>3. line \in Line /\ Len(line) <= MaxLine
  <2>1. Len(text[current]) > 0
    BY <1>1, <1>2 DEF Line
  <2>2. line \in Line /\ Len(line) = Len(text[current]) - 1
    BY <1>2, <2>1 DEF Line
  <2> HIDE DEF line
  <2> QED
    BY <2>1, <2>2, <1>2, ConsoleAssumption
<1>4. Rubout(screen) \in Screens
  BY <1>2, RuboutLast
<1>5. current \notin mixed => Echoes(Rubout(screen), line)
  <2>1. current \notin mixed => Echoes(screen, text[current])
    BY <1>1, <1>2 DEF Inv, LineIsSeen
  <2> QED
    BY <2>1, <1>1, <1>2, RuboutEchoes
<1> QED
  BY <1>1, <1>3, <1>4, <1>5, EditKeeps

LEMMA CtrlLKeeps ==
  ASSUME Inv, CtrlL
  PROVE  Inv'
<1>1. mode = "waiting" /\ Press(Editor!Edit(<<>>), Clean)
  BY DEF CtrlL, Press, Editor!Clear
<1>2. <<>> \in Line /\ Len(<<>>) <= MaxLine
  BY ConsoleAssumption DEF Line
<1>3. Clean \in Screens
  BY ScreenAssumption DEF Clean, Screens, Bytes
<1> QED
  BY <1>1, <1>2, <1>3, EchoesEmpty, EditKeeps

\* What a program writes is not promised to leave a line whole.
LEMMA WritesKeep ==
  ASSUME Inv, NEW c \in Outputs \cup {NL}, Write(c) \/ Printf(c)
  PROVE  Inv'
<1>1. \A s \in Screens : Put(s, c) \in Screens
  BY PutNewline, PutChar DEF Puts, Bytes
<1>2. PICK t \in Terminals :
        /\ mixed' = IF text[t] = <<>> THEN mixed ELSE mixed \cup {t}
        /\ \/ t = current /\ screen' = Put(screen, c) /\ saved' = saved
           \/ t # current /\ saved' = [saved EXCEPT ![t] = Put(@, c)] /\ screen' = screen
  <2>1. CASE Printf(c)
    BY <2>1 DEF Printf, Inv, TypeOK
  <2>2. CASE Write(c)
    <3>1. n_terminal \in Terminals
      BY ConsoleAssumption DEF n_terminal, Terminals
    <3>2. CASE current = n_terminal
      BY <2>2, <3>1, <3>2 DEF Write
    <3>3. CASE current # n_terminal
      BY <2>2, <3>1, <3>3 DEF Write
    <3> QED
      BY <3>2, <3>3
  <2> QED
    BY <2>1, <2>2
<1>3. /\ text' = text /\ current' = current /\ got' = got
      /\ started' = started /\ mode' = mode /\ mode = "program"
  BY DEF Write, Printf
<1>4. saved \in [Terminals -> Screens] /\ screen \in Screens /\ mixed \subseteq Terminals
  BY DEF Inv, TypeOK
<1>5. TypeOK'
  <2>1. saved' \in [Terminals -> Screens] /\ screen' \in Screens
    BY <1>1, <1>2, <1>4
  <2>2. mixed' \subseteq Terminals
    BY <1>2, <1>4
  <2> QED
    BY <2>1, <2>2, <1>3 DEF Inv, TypeOK
<1>6. ASSUME NEW r \in Terminals, r \notin mixed'
      PROVE  Echoes(IF r = current THEN screen' ELSE saved'[r], text[r])
  <2>1. CASE r = t
    <3>1. text[r] = <<>>
      BY <1>2, <1>6, <2>1
    <3>2. (IF r = current THEN screen' ELSE saved'[r]) \in Screens
      BY <1>5 DEF TypeOK
    <3> QED
      BY <3>1, <3>2, EchoesEmpty
  <2>2. CASE r # t
    <3>1. r \notin mixed
      BY <1>2, <1>6
    <3>2. Echoes(IF r = current THEN screen ELSE saved[r], text[r])
      BY <3>1, <1>3 DEF Inv, LineIsSeen
    <3>3. (IF r = current THEN screen' ELSE saved'[r]) = IF r = current THEN screen ELSE saved[r]
      BY <1>2, <1>4, <2>2
    <3> QED
      BY <3>2, <3>3
  <2> QED
    BY <2>1, <2>2
<1>7. LineIsSeen'
  <2> SUFFICES ASSUME NEW r \in Terminals \ mixed'
               PROVE  Echoes(IF r = current' THEN screen' ELSE saved'[r], text'[r])
    BY DEF LineIsSeen, Echoes, At
  <2> QED
    BY <1>3, <1>6
<1> QED
  BY <1>3, <1>5, <1>7 DEF Inv

\* A switch puts the line shown away with its screen.
LEMMA SwitchKeeps ==
  ASSUME Inv, NEW t \in Terminals, Switch(t)
  PROVE  Inv'
<1>1. /\ mode = "waiting" /\ t # current /\ current' = t /\ text' = text /\ mixed' = mixed
      /\ saved' = [saved EXCEPT ![current] = screen] /\ screen' = saved[t]
      /\ mode' \in {"waiting", "program"}
  BY DEF Switch, Editor!Show
<1>2. got' \in Line /\ started' \subseteq Terminals
  <2>1. got' \in {got, <<>>} /\ got \in Line /\ <<>> \in Line
    BY DEF Switch, Editor!Show, Inv, TypeOK, Line
  <2>2. started' = started \/ started' = started \cup {t}
    BY DEF Switch
  <2>3. started \subseteq Terminals
    BY DEF Inv, TypeOK
  <2> QED
    BY <2>1, <2>2, <2>3
<1>3. TypeOK'
  BY <1>1, <1>2 DEF Inv, TypeOK, Line
<1>4. LineIsSeen'
  <2> SUFFICES ASSUME NEW r \in Terminals \ mixed'
               PROVE  Echoes(IF r = current' THEN screen' ELSE saved'[r], text'[r])
    BY DEF LineIsSeen, Echoes, At
  <2>1. Echoes(IF r = current THEN screen ELSE saved[r], text[r])
    BY <1>1 DEF Inv, LineIsSeen
  <2>2. (IF r = current' THEN screen' ELSE saved'[r]) = IF r = current THEN screen ELSE saved[r]
    BY <1>1 DEF Inv, TypeOK
  <2> QED
    BY <1>1, <2>1, <2>2
<1> QED
  BY <1>1, <1>3, <1>4 DEF Inv

LEMMA EnterKeeps ==
  ASSUME Inv, TypeEnter
  PROVE  Inv'
<1>1. /\ mode = "waiting" /\ mode' = "entered" /\ screen' = Put(screen, NL)
      /\ UNCHANGED <<saved, text, current, got, started, mixed>>
  BY DEF TypeEnter
<1>2. TypeOK'
  BY <1>1, PutNewline DEF Inv, TypeOK
<1>3. LineIsSeen'
  <2> SUFFICES ASSUME NEW r \in Terminals \ mixed', r # current'
               PROVE  Echoes(saved'[r], text'[r])
    BY <1>1 DEF LineIsSeen, Echoes, At
  <2> QED
    BY <1>1 DEF Inv, LineIsSeen
<1> QED
  BY <1>1, <1>2, <1>3 DEF Inv

LEMMA ReadKeeps ==
  ASSUME Inv, Read
  PROVE  Inv'
<1>1. /\ mode = "program" /\ mode' = "waiting" /\ got' = <<>>
      /\ UNCHANGED <<screen, saved, text, current, started, mixed>>
  BY DEF Read, Editor!Ask
<1>2. TypeOK'
  BY <1>1 DEF Inv, TypeOK
<1>3. LineIsSeen'
  BY <1>1 DEF Inv, LineIsSeen, Echoes, At
<1> QED
  BY <1>1, <1>2, <1>3 DEF Inv

LEMMA DeliverKeeps ==
  ASSUME Inv, Deliver
  PROVE  Inv'
<1>1. /\ mode = "entered" /\ mode' = "program" /\ got' = text[current]
      /\ text' = [text EXCEPT ![current] = <<>>] /\ current' = current
      /\ mixed' = mixed \ {current}
      /\ UNCHANGED <<screen, saved, started>>
  BY DEF Deliver, Editor!Deliver
<1>2. TypeOK'
  BY <1>1 DEF Inv, TypeOK
<1>3. \A t \in Terminals : Len(text'[t]) <= MaxLine
  BY <1>1, ConsoleAssumption DEF Inv, TypeOK
<1>4. LineIsSeen'
  <2> SUFFICES ASSUME NEW r \in Terminals \ mixed'
               PROVE  Echoes(IF r = current THEN screen ELSE saved[r], text'[r])
    BY <1>1 DEF LineIsSeen, Echoes, At
  <2>1. CASE r = current
    BY <1>1, <2>1, EchoesEmpty DEF Inv, TypeOK
  <2>2. CASE r # current
    <3>1. text'[r] = text[r] /\ r \notin mixed
      BY <1>1, <2>2 DEF Inv, TypeOK
    <3> QED
      BY <2>2, <3>1 DEF Inv, LineIsSeen
  <2> QED
    BY <2>1, <2>2
<1> QED
  BY <1>2, <1>3, <1>4 DEF Inv

\* Whatever the keyboard, the programs and the kernel put on the screens, the
\* cursors stay on them and the lines being typed stay before the cursors, over
\* wraps, scrolls, tabs, backspaces and switches.
THEOREM LinesAreSeen == Spec => [](TypeOK /\ LineIsSeen)
<1>1. Init => Inv
  <2> SUFFICES ASSUME Init PROVE Inv
    OBVIOUS
  <2>1. /\ text = [t \in Terminals |-> <<>>] /\ current = 0 /\ got = <<>>
        /\ screen = Clean /\ saved \in [Terminals -> Screens]
        /\ started = {0} /\ mode = "program" /\ mixed = {}
    <3>1. {[x |-> 0, y |-> 0, cells |-> left] : left \in [Cells -> Leftovers]} \subseteq Screens
      BY ScreenAssumption, ConsoleAssumption DEF Screens, Bytes
    <3> QED
      BY <3>1 DEF Init, Editor!Init
  <2>2. Clean \in Screens /\ 0 \in Terminals
    BY ScreenAssumption, ConsoleAssumption DEF Clean, Screens, Bytes, Terminals
  <2>3. TypeOK
    BY <2>1, <2>2 DEF TypeOK
  <2>4. LineIsSeen
    BY <2>1, <2>2, EchoesEmpty DEF LineIsSeen
  <2> QED
    BY <2>1, <2>3, <2>4, ConsoleAssumption DEF Inv
<1>2. Inv /\ [Next]_vars => Inv'
  <2> SUFFICES ASSUME Inv, [Next]_vars PROVE Inv'
    OBVIOUS
  <2>1. CASE \E c \in Chars : TypeChar(c)
    BY <2>1, TypeCharKeeps
  <2>2. CASE TypeTab
    BY <2>2, TypeTabKeeps
  <2>3. CASE Backspace
    BY <2>3, BackspaceKeeps
  <2>4. CASE CtrlL
    BY <2>4, CtrlLKeeps
  <2>5. CASE TypeEnter
    BY <2>5, EnterKeeps
  <2>6. CASE \E t \in Terminals : Switch(t)
    BY <2>6, SwitchKeeps
  <2>7. CASE Read
    BY <2>7, ReadKeeps
  <2>8. CASE Deliver
    BY <2>8, DeliverKeeps
  <2>9. CASE \E c \in Outputs \cup {NL} : Write(c) \/ Printf(c)
    BY <2>9, WritesKeep
  <2>10. CASE UNCHANGED vars
    BY <2>10 DEF vars, Inv, TypeOK, LineIsSeen, Echoes, At
  <2> QED
    BY <2>1, <2>2, <2>3, <2>4, <2>5, <2>6, <2>7, <2>8, <2>9, <2>10 DEF Next, Key
<1> QED
  BY <1>1, <1>2, PTL DEF Spec, Inv

\* The screens' cursors stay on the screen and what is saved of each is a whole
\* screen (lib.c, terminal.c).
THEOREM ScreensTyped == Spec => []TypeOK
BY LinesAreSeen, PTL
=============================================================================
