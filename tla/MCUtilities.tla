---------------------------- MODULE MCUtilities ----------------------------
(* A directory of the image's programs, in its order, and a text of three  *)
(* blocks; the programs' bytes are all alike.                              *)
EXTENDS Utilities, FileSystemOpenFiles

File(name, inode) == [file_name |-> name, file_type |-> "file", inode_index |-> inode]

Sigtest == <<115, 105, 103, 116, 101, 115, 116>>
Rtc == <<114, 116, 99>>
Frame0 == <<102, 114, 97, 109, 101, 48, 46, 116, 120, 116>>

DentriesDef ==
  <<[file_name |-> Dot, file_type |-> "dir", inode_index |-> 0],
    File(Sigtest, 40), File(grep, 50), File(syserr, 27),
    [file_name |-> Rtc, file_type |-> "rtc", inode_index |-> 0],
    File(cat, 25), File(Frame0, 38), File(ls, 5)>>

ProgramsDef == {5, 25, 27, 40, 50}

TextLength == 5
InodesDef ==
  [n \in {0, 38} \cup ProgramsDef |->
     CASE n = 0 -> [file_length |-> 0, data_blocks |-> [b \in 0..3 |-> 0]]
       [] n = 38 -> [file_length |-> TextLength,
                     data_blocks |-> [b \in 0..3 |-> CASE b = 0 -> 3 [] b = 1 -> 1
                                                       [] b = 2 -> 4 [] OTHER -> 0]]
       [] OTHER -> [file_length |-> 4, data_blocks |-> [b \in 0..3 |-> n + b]]]

Addresses == 0..127
TextBytes == {6, 7, 2, 3, 8}
TextsDef == {[a \in Addresses |-> IF a \in TextBytes THEN t[a] ELSE 0] :
               t \in [TextBytes -> {NL, 97, 98}]}

Command(name, arg) == [name |-> name, arg |-> arg]
TypedDef ==
  {Command(grep, <<97>>), Command(grep, <<97, 98>>), Command(cat, Frame0),
   Command(cat, Dot), Command(cat, <<104>>), Command(ls, Dot), Command(syserr, <<48>>),
   Command(syserr, <<55>>), Command(<<104>>, Dot)}
=============================================================================
