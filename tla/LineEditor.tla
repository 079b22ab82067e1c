----------------------------- MODULE LineEditor -----------------------------
(***************************************************************************)
(* What the keyboard and the terminals promise a user who waits for the    *)
(* prompt: each terminal keeps the line being typed on it, keys edit the   *)
(* line of the terminal shown, and a read gives a program that whole line, *)
(* no more and no less, and starts an empty one.                           *)
(***************************************************************************)
EXTENDS Naturals, Sequences

CONSTANTS Chars, Blank, Terminals, MaxLine

VARIABLES
  text,      \* the unfinished line of each terminal
  current,   \* the terminal shown
  got        \* what the last read gave, until the next one

vars == <<text, current, got>>

Least(a, b) == IF a < b THEN a ELSE b

Init ==
  /\ text = [t \in Terminals |-> <<>>]
  /\ current \in Terminals
  /\ got = <<>>

Edit(line) == text' = [text EXCEPT ![current] = line] /\ UNCHANGED <<current, got>>

Room == MaxLine - Len(text[current])

Insert(c) == Room > 0 /\ Edit(Append(text[current], c))
Indent == Edit(text[current] \o [j \in 1..Least(4, Room) |-> Blank])
Erase == \E line \in {SubSeq(text[current], 1, Len(text[current]) - 1)} :
           text[current] # <<>> /\ Edit(line)
Clear == Edit(<<>>)

\* A terminal shown for the first time runs a program that has read nothing.
Show(t) == current' = t /\ got' \in {got, <<>>} /\ UNCHANGED text

Ask == got' = <<>> /\ UNCHANGED <<text, current>>

Deliver ==
  /\ got' = text[current]
  /\ text' = [text EXCEPT ![current] = <<>>]
  /\ UNCHANGED current

Next ==
  \/ \E c \in Chars : Insert(c)
  \/ Indent \/ Erase \/ Clear \/ Ask \/ Deliver
  \/ \E t \in Terminals : Show(t)

Spec == Init /\ [][Next]_vars
=============================================================================
