------------------------------ MODULE Utilities ------------------------------
(***************************************************************************)
(* The shell and the programs it starts that live by the file system: cat, *)
(* ls, grep and syserr (syscalls/), each system call a step of FileSystem. *)
(* They share the boot block, which the files they open are copied into.   *)
(*                                                                         *)
(* What is typed ends in a name and an argument (module Commands); an      *)
(* empty line and "exit" are not typed here.  The terminal takes whatever  *)
(* is written to it.                                                       *)
(***************************************************************************)
EXTENDS FileSystem, SequencesExt

CONSTANTS
  Texts,             \* what the image may hold: characters by where they are
  Typed,             \* the commands: [name, arg]
  BUFSIZE,           \* 1024
  SBUFSIZE,          \* 33
  EXCEPTION_STATUS   \* 15

NL == 10
Dot == <<46>>
Junk == -1           \* a byte of the stack nobody has written

\* The programs by the names they have in the image.
cat == <<99, 97, 116>>
ls == <<108, 115>>
grep == <<103, 114, 101, 112>>
syserr == <<115, 121, 115, 101, 114, 114>>
Known == {cat, ls, grep, syserr}

\* Names nothing has.
helloo == <<104, 101, 108, 108, 111, 111>>
shel == <<115, 104, 101, 108>>

\* A name of the directory is read whole; programs that exist are the four; "." is
\* the directory; names of files begin with a letter, and no image has that many
\* entries; and every byte of a file is a character.
ASSUME UtilitiesAssumption ==
  /\ BUFSIZE \in Nat \ {0} /\ SBUFSIZE \in Nat \ {0, 1}
  /\ SBUFSIZE - 1 >= FILE_NAME_LENGTH
  /\ \A c \in Typed :
       /\ c.arg \in Seq(Byte) /\ c.arg # <<>>
       /\ First(c.name) # {} => c.name \in Known
  /\ \A k \in First(Dot) : Dentries[k].file_type = "dir"
  /\ \A k \in DOMAIN Dentries :
       Dentries[k].file_type = "file" => Dentries[k].file_name[1] >= Len(Dentries)
  /\ \A chars \in Texts, inode \in DOMAIN Inodes :
       \A p \in 0..(Inodes[inode].file_length - 1) :
         chars[Inodes[inode].data_blocks[p \div DATA_BLOCK_SIZE] * DATA_BLOCK_SIZE
                 + (p % DATA_BLOCK_SIZE)] \in Byte

\* What syserr takes for granted: eight descriptors, a directory, and no file
\* of the names it makes up.
ASSUME ErrorTestsAssumption ==
  /\ FDARRAY_MAX = 8
  /\ First(Dot) # {}
  /\ First(helloo) = {} /\ First(shel) = {} /\ First(<<>>) = {}

\* The files of the directory grep opens.
GrepOpens(k) == Dentries[k].file_type = "file" /\ Dentries[k].file_name[1] # Dot[1]

\* Opening a file copies its name over the boot block: a short name leaves the
\* count of inodes as it was, the fifth byte of a long one is above every index.
KeepsInodes(name) == Len(name) < 4 \/ (Len(name) > 4 /\ name[5] >= InodesNum)

\* Byte b of the name of entry j is still there when the first n are opened.
Stays(j, b, n) ==
  /\ GrepOpens(j) /\ b <= Len(Dentries[j].file_name)
  /\ \A i \in (j + 1)..n : Dentries[i].file_type = "file" => Len(Dentries[i].file_name) # b - 1

\* Programs can be run, and an exception's status is not that of success.  What
\* cat opens leaves every file within reach; so does grep, as a longer name
\* before one of four letters leaves its mark.
ASSUME CommandsAssumption ==
  /\ EXCEPTION_STATUS \in 1..255
  /\ \A c \in Typed :
       /\ \A k \in First(c.name) :
            Dentries[k].file_type = "file" /\ Dentries[k].inode_index \in Programs
       /\ c.name = cat => \A k \in First(c.arg) :
            Dentries[k].file_type = "file" => KeepsInodes(Dentries[k].file_name)
  /\ \A k \in DOMAIN Dentries : GrepOpens(k) =>
       \/ KeepsInodes(Dentries[k].file_name)
       \/ /\ Len(Dentries[k].file_name) = 4
          /\ \E j \in 1..(k - 1), b \in 6..8 : Stays(j, b, k - 1)

VARIABLES
  text,          \* the image's characters, which nobody changes
  command,       \* the command under way, or the last
  pc,
  local,         \* the variables of the program that runs
  output,        \* what it has written: characters, names or reports
  rval,          \* what its main() returns
  verdict,       \* what the shell has said of it
  taken          \* history: the byte behind a full buffer passed for a newline

files == <<header, filed_array, waiting, result>>
shellVars == <<files, text, command, pc, local, output, rval, verdict, taken>>

Locals == [fd : Int, fname : Seq(Byte), file : Int,
           data : [0..BUFSIZE -> Byte \cup {Junk}], last : 0..BUFSIZE,
           line_start : 0..BUFSIZE, cnt : Nat, step : Nat \ {0}, failed : SUBSET (1..8)]
NoLocals == [fd |-> 0, fname |-> <<>>, file |-> 0, data |-> [b \in 0..BUFSIZE |-> Junk],
             last |-> 0, line_start |-> 0, cnt |-> 0, step |-> 1, failed |-> {}]

Main(name) ==
  CASE name = cat -> "cat"
    [] name = ls -> "ls"
    [] name = grep -> "grep"
    [] name = syserr -> "syserr"

ShellInit ==
  /\ Init
  /\ text \in Texts
  /\ command \in Typed
  /\ pc = "shell"
  /\ local = NoLocals
  /\ output = <<>> /\ rval = 0 /\ verdict = "none" /\ taken = FALSE

\* Where main() goes on, or that it returns.
Goto(label) == pc' = label /\ UNCHANGED rval
Exit(status) == pc' = "exit" /\ rval' = status

Same == UNCHANGED <<text, command, verdict>>

\* A system call's data as the program finds it in its buffer.
Delivered(fd) ==
  IF filed_array[fd].type = "file"
  THEN [j \in DOMAIN result'.data |-> text[result'.data[j]]]
  ELSE result'.data

------------------------------------------------------------------------------
(* ece391shell.c                                                           *)

Says(ret) == CASE ret = -1 -> "no such command"
               [] ret = 0 -> "none"
               [] ret = 256 -> "terminated by exception"
               [] OTHER -> "terminated abnormally"

\* The status is a byte, and one of its values stands for an exception.
Returned(status) ==
  IF status % 256 = EXCEPTION_STATUS THEN 256 ELSE status % 256

Type ==
  /\ pc = "shell"
  /\ command' \in Typed
  /\ Execute(command'.name)
  /\ \/ result'.ret = -1 /\ pc' = "shell" /\ verdict' = Says(-1)
     \/ result'.ret # -1 /\ pc' = Main(command'.name) /\ verdict' = "none"
  /\ UNCHANGED <<text, local, output, rval, taken>>

Finish ==
  /\ pc = "exit"
  /\ Halt
  /\ pc' = "shell"
  /\ verdict' = Says(Returned(rval))
  /\ local' = NoLocals
  /\ output' = <<>> /\ rval' = 0 /\ taken' = FALSE
  /\ UNCHANGED <<text, command>>

------------------------------------------------------------------------------
(* ece391cat.c and ece391ls.c                                              *)

\* Opens what is to be read; without it main() returns 2.
Begin(label, name, next) ==
  /\ pc = label
  /\ Open(name)
  /\ \/ result'.ret = -1 /\ Exit(2) /\ UNCHANGED local
     \/ result'.ret # -1 /\ Goto(next) /\ local' = [local EXCEPT !.fd = result'.ret]
  /\ UNCHANGED <<output, taken>> /\ Same

CatOpen == Begin("cat", command.arg, "cat_read")
LsOpen == Begin("ls", Dot, "ls_read")

\* Mutant: the last piece is not written.
CatRead_Whole ==
  /\ pc = "cat_read"
  /\ Read(local.fd, BUFSIZE)
  /\ CASE result'.ret = -1 -> Exit(3) /\ UNCHANGED output
       [] result'.ret = BUFSIZE -> Goto("cat_read") /\ output' = output \o Delivered(local.fd)
       [] OTHER -> Exit(0) /\ UNCHANGED output
  /\ UNCHANGED <<local, taken>> /\ Same

CatRead ==
  /\ pc = "cat_read"
  /\ Read(local.fd, BUFSIZE)
  /\ CASE result'.ret = 0 -> Exit(0) /\ UNCHANGED output
       [] result'.ret = -1 -> Exit(3) /\ UNCHANGED output
       [] OTHER -> Goto("cat_read") /\ output' = output \o Delivered(local.fd)
  /\ UNCHANGED <<local, taken>> /\ Same

LsRead ==
  /\ pc = "ls_read"
  /\ Read(local.fd, SBUFSIZE - 1)
  /\ CASE result'.ret = 0 -> Exit(0) /\ UNCHANGED output
       [] result'.ret = -1 -> Exit(3) /\ UNCHANGED output
       [] OTHER -> Goto("ls_read") /\ output' = Append(output, Delivered(local.fd))
  /\ UNCHANGED <<local, taken>> /\ Same

------------------------------------------------------------------------------
(* ece391grep.c                                                            *)

GrepStart == Begin("grep", Dot, "grep_entry")

\* main(): the next name, but for those that start with a dot.
GrepEntry ==
  /\ pc = "grep_entry"
  /\ Read(local.fd, SBUFSIZE - 1)
  /\ CASE result'.ret = 0 -> Exit(0) /\ UNCHANGED local
       [] result'.ret = -1 -> Exit(3) /\ UNCHANGED local
       [] OTHER -> LET name == Delivered(local.fd)
                   IN  /\ Goto(IF name[1] = Dot[1] THEN "grep_entry" ELSE "grep_open")
                       /\ local' = [local EXCEPT !.fname = name]
  /\ UNCHANGED <<output, taken>> /\ Same

\* do_one_file() begins, with a buffer nobody has written.
GrepOpen ==
  /\ pc = "grep_open"
  /\ Open(local.fname)
  /\ \/ result'.ret = -1 /\ Exit(3) /\ UNCHANGED local
     \/ /\ result'.ret # -1
        /\ Goto("grep_read")
        /\ local' = [local EXCEPT !.file = result'.ret, !.last = 0,
                                  !.data = NoLocals.data]
  /\ UNCHANGED <<output, taken>> /\ Same

\* Mutant: as much is read as into an empty buffer.
GrepRead_Full ==
  /\ pc = "grep_read"
  /\ Read(local.file, BUFSIZE)
  /\ Goto("grep_line")
  /\ LET new == Delivered(local.file)
         last == local.last
     IN  local' = [local EXCEPT
           !.cnt = Len(new), !.last = last + Len(new), !.line_start = 0,
           !.data = [b \in 0..BUFSIZE |-> IF b - last + 1 \in DOMAIN new
                                          THEN new[b - last + 1] ELSE @[b]]]
  /\ UNCHANGED <<output, taken>> /\ Same

\* Fills the buffer up.
GrepRead ==
  /\ pc = "grep_read"
  /\ Read(local.file, BUFSIZE - local.last)
  /\ \/ result'.ret = -1 /\ Exit(3) /\ UNCHANGED local
     \/ /\ result'.ret # -1
        /\ Goto("grep_line")
        /\ LET new == Delivered(local.file)
               last == local.last
           IN  local' = [local EXCEPT
                 !.cnt = Len(new), !.last = last + Len(new), !.line_start = 0,
                 !.data = [b \in 0..BUFSIZE |-> IF b - last + 1 \in DOMAIN new
                                                THEN new[b - last + 1] ELSE @[b]]]
  /\ UNCHANGED <<output, taken>> /\ Same

\* The buffer's string at a place: up to a zero.
String(data, from) ==
  LET ends == {b \in from..BUFSIZE : data[b] = 0}
      end == CHOOSE b \in ends : \A c \in ends : b <= c
  IN  [k \in 1..(end - from) |-> data[from + k - 1]]

Occurs(pattern, line) ==
  \E k \in 1..(Len(line) - Len(pattern) + 1) :
    SubSeq(line, k, k + Len(pattern) - 1) = pattern

\* The end of a line in the buffer, or of the buffer.
LineEnd ==
  LET ends == {b \in local.line_start..local.last : b = local.last \/ local.data[b] = NL}
  IN  CHOOSE b \in ends : \A c \in ends : b <= c

\* The comparison at the end of what was read is with whatever is there.
EndsLine == IF local.data[LineEnd] = Junk THEN BOOLEAN ELSE {local.data[LineEnd] = NL}

Ended == [local.data EXCEPT ![LineEnd] = 0]

\* Mutant: what is before the rest of the line is not counted off.
KeepRest_Last ==
  LET rest == String(Ended, local.line_start)
  IN  /\ Goto("grep_read")
      /\ local' = [local EXCEPT !.data = [b \in 0..BUFSIZE |->
                     IF b < Len(rest) THEN rest[b + 1]
                     ELSE IF b = Len(rest) THEN 0 ELSE Ended[b]]]
      /\ UNCHANGED <<output, taken>>

\* The line goes on in the file: strcpy() moves what there is of it to the
\* beginning of the buffer.
KeepRest ==
  LET rest == String(Ended, local.line_start)
  IN  /\ Goto("grep_read")
      /\ local' = [local EXCEPT !.last = @ - local.line_start,
                                !.data = [b \in 0..BUFSIZE |->
                                   IF b < Len(rest) THEN rest[b + 1]
                                   ELSE IF b = Len(rest) THEN 0 ELSE Ended[b]]]
      /\ UNCHANGED <<output, taken>>

\* The comparisons stop at the zero the line now ends with, and so does what
\* is written of it.
Search ==
  output' = IF Occurs(command.arg, SubSeq([k \in 1..BUFSIZE |-> Ended[k - 1]],
                                          local.line_start + 1, LineEnd))
            THEN Append(output, <<local.fname, String(Ended, local.line_start)>>)
            ELSE output

\* Mutant: the end of the file is not looked at.
NextLine_Endless ==
  IF LineEnd + 1 < local.last
  THEN /\ Goto("grep_line")
       /\ local' = [local EXCEPT !.data = Ended, !.line_start = LineEnd + 1]
  ELSE /\ Goto("grep_read")
       /\ local' = [local EXCEPT !.data = Ended, !.last = 0]

NextLine ==
  IF LineEnd + 1 < local.last
  THEN /\ Goto("grep_line")
       /\ local' = [local EXCEPT !.data = Ended, !.line_start = LineEnd + 1]
  ELSE /\ Goto(IF local.cnt = 0 THEN "grep_close" ELSE "grep_read")
       /\ local' = [local EXCEPT !.data = Ended, !.last = 0]

\* One round of the inner loop.
GrepLine ==
  /\ pc = "grep_line"
  /\ \E newline \in EndsLine :
       IF ~newline /\ local.cnt # 0 /\ local.line_start # 0
       THEN KeepRest
       ELSE /\ Search
            /\ NextLine
            /\ taken' = (taken \/ (newline /\ LineEnd = BUFSIZE /\ local.cnt # 0
                                     /\ local.line_start # 0))
  /\ UNCHANGED files /\ Same

\* Mutant: the file stays open.
GrepClose_Open ==
  /\ pc = "grep_close"
  /\ Goto("grep_entry")
  /\ UNCHANGED <<files, local, output, taken>> /\ Same

GrepClose ==
  /\ pc = "grep_close"
  /\ Close(local.file)
  /\ \/ result'.ret = -1 /\ Exit(3)
     \/ result'.ret # -1 /\ Goto("grep_entry")
  /\ UNCHANGED <<local, output, taken>> /\ Same

------------------------------------------------------------------------------
(* ece391syserr.c                                                          *)

NEG_FD == -1073741823
BIG_FD == 1073741823

Calls(test, call, args) == [k \in DOMAIN args |-> <<test, call, args[k]>>]
UpTo(a, b) == [k \in 1..(b - a + 1) |-> a + k - 1]

Refused(test, fd) ==
  Calls(test, "read", <<fd>>) \o Calls(test, "write", <<fd>>) \o Calls(test, "close", <<fd>>)

err_neg_fd == Refused(1, NEG_FD)
err_big_fd == Refused(2, BIG_FD)

\* What its six calls of close() return is not looked at.
err_open_lots == Calls(3, "open", [k \in 1..7 |-> Dot]) \o Calls(0, "close", UpTo(2, 7))

err_open == Calls(4, "open", <<helloo, shel, <<>>>>)

err_unopened == Calls(5, "close", UpTo(0, 7)) \o Calls(5, "read", UpTo(2, 7))
                  \o Calls(5, "write", UpTo(2, 7))

err_stdin_out == Calls(7, "write", <<0>>) \o Calls(7, "read", <<1>>)

\* The digit it is asked for is the argument here.  Of all tests, err_vidmap()
\* and err_syscall_num() make no call of this module.
Script ==
  CASE command.arg = <<49>> -> err_neg_fd
    [] command.arg = <<50>> -> err_big_fd
    [] command.arg = <<51>> -> err_open_lots
    [] command.arg = <<52>> -> err_open
    [] command.arg = <<53>> -> err_unopened
    [] command.arg = <<55>> -> err_stdin_out
    [] OTHER -> err_neg_fd \o err_big_fd \o err_open_lots \o err_open \o err_unopened
                  \o err_stdin_out

SysCall(call, arg) ==
  CASE call = "open" -> Open(arg)
    [] call = "close" -> Close(arg)
    [] call = "read" -> Read(arg, 31)
    [] call = "write" -> Write(arg)

\* Every call of a test has to fail but for the third's, of which one has to.
SyserrCall ==
  /\ pc = "syserr"
  /\ local.step <= Len(Script)
  /\ Goto("syserr")
  /\ LET test == Script[local.step][1]
     IN  /\ SysCall(Script[local.step][2], Script[local.step][3])
         /\ local' = [local EXCEPT
              !.step = @ + 1,
              !.cnt = IF test = 3 /\ result'.ret = -1 THEN @ + 1 ELSE @,
              !.failed = IF test \notin {0, 3} /\ result'.ret # -1
                         THEN @ \cup {test} ELSE @]
  /\ UNCHANGED <<output, taken>> /\ Same

Ran(test) == \E k \in DOMAIN Script : Script[k][1] = test

\* main() returns 2 for each test that failed.
SyserrEnd ==
  /\ pc = "syserr"
  /\ local.step > Len(Script)
  /\ Exit(2 * Cardinality(local.failed \cup {t \in {3} : Ran(3) /\ local.cnt # 1}))
  /\ UNCHANGED <<files, local, output, taken>> /\ Same

------------------------------------------------------------------------------

Program ==
  \/ Finish
  \/ CatOpen \/ CatRead
  \/ LsOpen \/ LsRead
  \/ GrepStart \/ GrepEntry \/ GrepOpen \/ GrepRead \/ GrepLine \/ GrepClose
  \/ SyserrCall \/ SyserrEnd

ShellNext == Type \/ Program

\* The CPU goes on with the program that runs; nobody has to type.
ShellSpec == ShellInit /\ [][ShellNext]_shellVars /\ WF_shellVars(Program)
------------------------------------------------------------------------------
(* Properties                                                              *)

Labels == {"shell", "cat", "cat_read", "ls", "ls_read", "grep", "grep_entry",
           "grep_open", "grep_read", "grep_line", "grep_close", "syserr", "exit"}

\* What the programs keep; a line of grep's ends inside its buffer.
ProgramsTyped ==
  /\ TypeOK
  /\ pc \in Labels
  /\ local \in Locals
  /\ pc = "grep_line" => local.line_start <= local.last
  /\ rval \in Nat
  /\ waiting = <<>> <=> pc = "shell"

Content(inode) ==
  [j \in 1..Inodes[inode].file_length |->
     text[Block(Inodes[inode].data_blocks[(j - 1) \div DATA_BLOCK_SIZE])
            [((j - 1) % DATA_BLOCK_SIZE) + 1]]]

\* Where the lines of a text begin, the last of which may do without a newline.
LineStarts(chars) == {j \in DOMAIN chars : j = 1 \/ chars[j - 1] = NL}

\* The line that begins at j, without its newline.
LineAt(chars, j) ==
  LET ends == {k \in j..(Len(chars) + 1) : k = Len(chars) + 1 \/ chars[k] = NL}
      end == CHOOSE k \in ends : \A l \in ends : k <= l
  IN  SubSeq(chars, j, end - 1)

\* What do_one_file() can search: no zero in it, and no line longer than its buffer.
IsText(chars) ==
  /\ \A j \in DOMAIN chars : chars[j] # 0
  /\ \A j \in LineStarts(chars) : Len(LineAt(chars, j)) <= BUFSIZE

\* The lines the pattern occurs in.
Found(chars, pattern) == {j \in LineStarts(chars) : Occurs(pattern, LineAt(chars, j))}

\* What is written under a name is the lines that begin at these places: each of
\* them once, and in order.
Listed(reports, name, chars, places) ==
  LET named == {i \in DOMAIN reports : reports[i][1] = name}
  IN  \E place \in [named -> places] :
        /\ \A i, j \in named : i < j => place[i] < place[j]
        /\ places = {place[i] : i \in named}
        /\ \A i \in named : reports[i][2] = LineAt(chars, place[i])

\* A grep that succeeds has written, of every text in the directory whose name
\* does not begin with a dot, each line the pattern occurs in once and in order,
\* wherever its pieces fell in the buffer; unless the byte behind the full
\* buffer, which nobody has written, happened to be a newline (do_one_file() of
\* ece391grep.c).
GrepReports ==
  pc = "exit" /\ rval = 0 /\ Main(command.name) = "grep" /\ ~taken =>
    \A k \in DOMAIN Dentries :
      LET name == Dentries[k].file_name
          chars == Content(Dentries[k].inode_index)
      IN  Dentries[k].file_type = "file" /\ name[1] # Dot[1] /\ IsText(chars) =>
            Listed(output, name, chars, Found(chars, command.arg))

\* A read of the directory gives a name, as much of it as there is room for.
AllNames(room) ==
  [k \in DOMAIN Dentries |->
     memcpy(Dentries[k].file_name, 0, Least(room, Len(Cut(Dentries[k].file_name))))]

\* A cat that succeeds has written its file, byte after byte, or the directory's
\* names, and ls each name of the directory once (ece391cat.c, ece391ls.c).
FilesShown ==
  pc = "exit" /\ rval = 0 =>
    CASE Main(command.name) = "ls" -> output = AllNames(SBUFSIZE - 1)
      [] Main(command.name) = "cat" ->
           \E k \in First(command.arg) :
             output = CASE Dentries[k].file_type = "file" -> Content(Dentries[k].inode_index)
                        [] Dentries[k].file_type = "dir" -> FlattenSeq(AllNames(BUFSIZE))
                        [] OTHER -> <<>>
      [] OTHER -> TRUE

\* Whatever ran before, the kernel refuses all that syserr says it must refuse,
\* and opens six files and no seventh (ece391syserr.c).
ErrorTestsPass ==
  pc = "exit" /\ Main(command.name) = "syserr" => rval = 0

\* A command that names a program, and for cat a file, does what it is for,
\* whatever names earlier ones have left in the boot block: the shell has
\* nothing to say of it, and least that an exception ended it.
CommandsSucceed ==
  First(command.name) # {} /\ (Main(command.name) = "cat" => First(command.arg) # {}) =>
    verdict = "none" /\ (pc = "exit" => rval = 0)

\* Every command ends: each file and directory is read to its end.
CommandsEnd == pc # "shell" ~> pc = "shell"
=============================================================================
