------------------------------ MODULE Commands ------------------------------
(***************************************************************************)
(* Commands and arguments (scall.c): execute() splits a command into a     *)
(* file name and an argument and keeps the argument in the program's PCB,  *)
(* from where getargs() copies it to the program.  Both rest on strlen()   *)
(* and strncpy() of lib.c.                                                 *)
(*                                                                         *)
(* A string is the sequence of its bytes before the zero that ends it.     *)
(* execute() runs with interrupts off, getargs() reads what no other       *)
(* program writes: each is one step.                                       *)
(***************************************************************************)
EXTENDS Integers, Sequences

CONSTANTS
  Chars,              \* what commands are made of, besides blanks
  Texts,              \* the commands programs give
  Programs,           \* the names of executable files
  Shell,              \* what the shell's name is spelled with
  Behind,             \* what may lie in memory behind a PCB, as strings
  FILE_NAME_LENGTH,
  MaxRequest,         \* bound on the byte count of getargs()
  MaxDepth            \* bound on the programs that wait for the running one

NUL == "NUL"
NL == "NL"
Space == "Space"

ASSUME CommandsAssumption ==
  /\ Space \notin Chars /\ NUL \notin Chars
  /\ <<Shell>> \in Programs /\ Shell \in Chars
  /\ Texts \subseteq Seq(Chars \cup {Space})
  /\ FILE_NAME_LENGTH \in Nat \ {0}
  /\ \A program \in Programs : program \in Seq(Chars) /\ Len(program) <= FILE_NAME_LENGTH
  /\ Behind \subseteq Seq(Chars \cup {Space, NUL})
  /\ {MaxRequest, MaxDepth} \subseteq Nat

VARIABLES
  programs,   \* the PCBs from the terminal's first shell to the running program
  result      \* the last call and what it gave

vars == <<programs, result>>

------------------------------------------------------------------------------
(* lib.c                                                                   *)

Least(a, b) == IF a < b THEN a ELSE b

Ends(memory) == {j \in 1..Len(memory) : memory[j] = NUL}

\* The string at the beginning of some memory; memory not given is zero.
StringAt(memory) ==
  SubSeq(memory, 1,
         IF Ends(memory) = {} THEN Len(memory)
         ELSE (CHOOSE j \in Ends(memory) : \A k \in Ends(memory) : j <= k) - 1)

\* Mutant: nothing is stored behind the string's end.
strncpy_Unpadded(memory, n) ==
  SubSeq(StringAt(memory), 1, Least(n, Len(StringAt(memory))))

\* The n bytes a copy leaves: the source up to its zero, then zeros.
strncpy(memory, n) ==
  LET string == StringAt(memory)
  IN  [j \in 1..n |-> IF j <= Len(string) THEN string[j] ELSE NUL]

------------------------------------------------------------------------------
(* execute()                                                               *)

\* The first place from i on where the command has (a blank = is), or its end.
Step(command, i, blank) ==
  CHOOSE j \in i..(Len(command) + 1) :
    /\ \A k \in i..(j - 1) : (command[k] = Space) # blank
    /\ j <= Len(command) => (command[j] = Space) = blank

\* Mutant: the blanks before the first word end it.
File_Leading(command) == SubSeq(command, 1, Step(command, 1, TRUE) - 1)

\* file_command: the first word.
File(command) ==
  LET start == Step(command, 1, FALSE)
  IN  SubSeq(command, start, Step(command, start, TRUE) - 1)

\* Mutant: the blanks before the argument are taken for its beginning.
Arg_Blanks(command) ==
  LET start == Step(command, 1, FALSE)
  IN  SubSeq(command, Step(command, start, TRUE), Len(command))

\* arg_command: what follows it and some blanks, to the end.
Arg(command) ==
  LET start == Step(command, 1, FALSE)
      gap == Step(command, start, TRUE)
  IN  SubSeq(command, Step(command, gap, FALSE), Len(command))

\* The arrays have FILE_NAME_LENGTH + 1 bytes, the tests let one character more
\* in than fits with the zero.
TooLong(word) == Len(word) > FILE_NAME_LENGTH + 1
\* The zero is then stored behind the array.
PastEnd(word) == Len(word) = FILE_NAME_LENGTH + 1

Return(call, about, ret, data) ==
  result' = [call |-> call, about |-> about, ret |-> ret, data |-> data]

\* read_dentry_by_name() cuts a name where an entry's name ends.
Found(word) == SubSeq(word, 1, Least(Len(word), FILE_NAME_LENGTH)) \in Programs

Fails(command) ==
  TooLong(File(command)) \/ TooLong(Arg(command)) \/ ~Found(File(command))

\* initialize_PCB().  arg is the last field of a PCB, which lies at the low end
\* of a kernel stack: what is behind it is what an earlier stack left there.
Loaded(command, behind) ==
  [typed |-> command, file |-> File(command),
   arg |-> strncpy(Arg(command), FILE_NAME_LENGTH), behind |-> behind]

\* The zero behind an argument one too long may land on the file's name.
Execute(command) ==
  /\ Len(programs) <= MaxDepth
  /\ \/ /\ Fails(command) \/ PastEnd(Arg(command))
        /\ Return("execute", command, -1, <<>>)
        /\ UNCHANGED programs
     \/ /\ ~Fails(command)
        /\ \E behind \in Behind :
             programs' = Append(programs, Loaded(command, behind))
        /\ Return("execute", command, 0, <<>>)

------------------------------------------------------------------------------
(* getargs() and halt()                                                    *)

Running == programs[Len(programs)]

\* For a buffer in the program's page.
GetArgs(n) ==
  /\ IF Running.arg[1] = NL
     THEN Return("getargs", n, -1, <<>>)
     ELSE Return("getargs", n, 0, strncpy(Running.arg \o Running.behind, n))
  /\ UNCHANGED programs

\* A first shell is replaced by another.
Halt ==
  /\ IF Len(programs) = 1
     THEN \E behind \in Behind : programs' = <<Loaded(<<Shell>>, behind)>>
     ELSE programs' = SubSeq(programs, 1, Len(programs) - 1)
  /\ Return("halt", 0, 0, <<>>)

Init ==
  /\ \E behind \in Behind : programs = <<Loaded(<<Shell>>, behind)>>
  /\ result = [call |-> "boot", about |-> 0, ret |-> 0, data |-> <<>>]

Next ==
  \/ \E command \in Texts : Execute(command)
  \/ \E n \in 0..MaxRequest : GetArgs(n)
  \/ Halt

Spec == Init /\ [][Next]_vars
------------------------------------------------------------------------------
(* Properties                                                              *)

Byte == Chars \cup {Space, NUL}

TypeOK ==
  /\ \A k \in DOMAIN programs :
       /\ programs[k].arg \in [1..FILE_NAME_LENGTH -> Byte]
       /\ programs[k].file \in Seq(Chars)
  /\ result.call = "getargs" /\ result.ret = 0 =>
       result.data \in [1..result.about -> Byte]

\* A command is blanks, a word, blanks, and the rest to its end: the places where
\* each of the first three ends.
Blank(s) == \A k \in DOMAIN s : s[k] = Space

Cuts(command) ==
  {cut \in {<<i, j, k>> : i, j, k \in 0..Len(command)} :
     /\ cut[1] <= cut[2] /\ cut[2] <= cut[3]
     /\ Blank(SubSeq(command, 1, cut[1]))
     /\ \A l \in (cut[1] + 1)..cut[2] : command[l] # Space
     /\ Blank(SubSeq(command, cut[2] + 1, cut[3]))
     /\ cut[3] < Len(command) =>
          cut[1] < cut[2] /\ cut[2] < cut[3] /\ command[cut[3] + 1] # Space}

Reading(command) ==
  {[word |-> SubSeq(command, cut[1] + 1, cut[2]),
    rest |-> SubSeq(command, cut[3] + 1, Len(command))] : cut \in Cuts(command)}

\* execute() starts what the first word names, and refuses a program only for an
\* argument longer than a PCB has room for.
StartsFirstWord ==
  result.call = "execute" =>
    \E read \in Reading(result.about) :
      IF result.ret = 0
      THEN Running.file = read.word /\ Found(read.word)
      ELSE read.word \in Programs => Len(read.rest) > FILE_NAME_LENGTH

\* getargs() gives a program the rest of the command it was started with, also
\* after other programs have run and halted, as long as no more is asked for than
\* a PCB keeps, or the argument ends before.
ArgsAsTyped ==
  result.call = "getargs" /\ result.ret = 0 =>
    \E read \in Reading(Running.typed) :
      \/ result.about > FILE_NAME_LENGTH /\ Len(read.rest) >= FILE_NAME_LENGTH
      \/ result.data = [k \in 1..result.about |->
                          IF k <= Len(read.rest) THEN read.rest[k] ELSE NUL]
=============================================================================
