------------------------------ MODULE OpenFiles ------------------------------
(***************************************************************************)
(* What descriptors promise a program: what it opens it reads from the     *)
(* beginning to the end, a directory entry by entry, in pieces of any      *)
(* length, independently of its other descriptors and of the programs it   *)
(* runs meanwhile; and a call is refused only for a reason.                *)
(***************************************************************************)
EXTENDS Integers, Sequences

CONSTANTS
  Fds,         \* the descriptors there are
  Served,      \* those the calls serve
  Asked,       \* those a program may ask for
  Names,       \* the names a program may ask for
  Files,       \* the names of files
  Content,     \* their bytes, or their entries
  Listings,    \* the files that are read entry by entry
  Devices,     \* those that can be written
  MaxRequest

VARIABLES
  frames,    \* per program, the last one's running: what is still to be read of a file
  result

vars == <<frames, result>>

Closed == [file |-> <<>>, rest |-> <<>>]
Top == Len(frames)
Held(fd) == frames[Top][fd]
IsOpen(fd) == fd \in Served /\ Held(fd) # Closed

Set(fd, d) == frames' = [frames EXCEPT ![Top][fd] = d]
Answer(call, ret, data) == result' = [call |-> call, ret |-> ret, data |-> data]
Refuse(call) == Answer(call, -1, <<>>) /\ UNCHANGED frames

Nothing == [fd \in Fds |-> Closed]

Init == frames = <<Nothing>> /\ result = [call |-> <<"boot">>, ret |-> 0, data |-> <<>>]

Open(name) ==
  \E fd \in Fds :
    /\ Answer(<<"open", name>>, fd, <<>>)
    /\ name \in Files
    /\ Held(fd) = Closed
    /\ Set(fd, [file |-> name, rest |-> Content[name]])

OpenFails(name) ==
  /\ Refuse(<<"open", name>>)
  /\ name \in Files => \A fd \in Fds : Held(fd) # Closed

Close(fd) == Answer(<<"close", fd>>, 0, <<>>) /\ IsOpen(fd) /\ Set(fd, Closed)

Least(a, b) == IF a < b THEN a ELSE b
From(s, first) == SubSeq(s, first, Len(s))

\* A piece of a name is followed by the next name, not by its rest.
Item(d) == IF d.file \notin Listings THEN d.rest
           ELSE IF d.rest = <<>> THEN <<>> ELSE Head(d.rest)
Piece(d, n) == SubSeq(Item(d), 1, Least(n, Len(Item(d))))
After(d, n) == From(d.rest, IF d.file \in Listings THEN 2 ELSE Len(Piece(d, n)) + 1)

Read(fd, n) ==
  \E d \in {Held(fd)} :
    /\ Answer(<<"read", fd, n>>, Len(Piece(d, n)), Piece(d, n))
    /\ IsOpen(fd)
    /\ Set(fd, [d EXCEPT !.rest = After(d, n)])

Write(fd) ==
  /\ Answer(<<"write", fd>>, 0, <<>>)
  /\ IsOpen(fd) /\ Held(fd).file \in Devices
  /\ UNCHANGED frames

Denied(fd) ==
  \/ Refuse(<<"close", fd>>) /\ ~IsOpen(fd)
  \/ \E n \in 0..MaxRequest : Refuse(<<"read", fd, n>>) /\ ~IsOpen(fd)
  \/ Refuse(<<"write", fd>>) /\ ~(IsOpen(fd) /\ Held(fd).file \in Devices)

Execute(name) ==
  \/ Refuse(<<"execute", name>>)
  \/ /\ name \in Files
     /\ frames' = Append(frames, Nothing)
     /\ Answer(<<"execute", name>>, 0, <<>>)

Halt ==
  /\ Answer(<<"halt">>, 0, <<>>)
  /\ Top > 1
  /\ frames' = SubSeq(frames, 1, Top - 1)

Next ==
  \/ \E name \in Names : Open(name) \/ OpenFails(name) \/ Execute(name)
  \/ \E fd \in Fds : Close(fd) \/ Write(fd) \/ \E n \in 0..MaxRequest : Read(fd, n)
  \/ \E fd \in Asked : Denied(fd)
  \/ Halt

Spec == Init /\ [][Next]_vars
=============================================================================
