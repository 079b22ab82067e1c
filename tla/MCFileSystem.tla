---------------------------- MODULE MCFileSystem ----------------------------
(* The first entries of the image, files of a few bytes in blocks of two.  *)
EXTENDS FileSystemOpenFiles, FiniteSets

Dot == [file_name |-> <<46>>, file_type |-> "dir", inode_index |-> 0]
Rtc == [file_name |-> <<114, 116, 99>>, file_type |-> "rtc", inode_index |-> 0]
Shell == [file_name |-> <<115, 104, 101, 108, 108>>, file_type |-> "file",
          inode_index |-> 23]
Grep == [file_name |-> <<103, 114, 101, 112>>, file_type |-> "file",
         inode_index |-> 50]
Ls == [file_name |-> <<108, 115>>, file_type |-> "file", inode_index |-> 5]
Frame0 == [file_name |-> <<102, 114, 97, 109, 101, 48, 46, 116, 120, 116>>,
           file_type |-> "file", inode_index |-> 38]

\* A program of one and a half blocks, out of order; a text of exactly one.
InodesDef ==
  [n \in {0, 5, 23, 38, 50} |->
     CASE n = 0 -> [file_length |-> 0, data_blocks |-> [b \in 0..3 |-> 0]]
       [] n = 38 -> [file_length |-> 2, data_blocks |-> [b \in 0..3 |-> 1]]
       [] OTHER -> [file_length |-> 3, data_blocks |-> [b \in 0..3 |-> n - b]]]

Small == <<Dot, Ls, Rtc>>
WithGrep == <<Dot, Shell, Grep, Frame0>>
ProgramsDef == {5, 23, 50}
\* The names of the first directory do the boot block no harm.
ASSUME SmallIsSafe == Dentries = Small => SafeNames

UnknownDef == {<<115, 104, 101, 108>>, <<>>}

\* Bound: with a program waiting, two entries of the two arrays have been opened.
Touched(array) == Cardinality({fd \in Fds : array[fd] \notin {Terminal, Unused}})
FewWhileWaiting == waiting # <<>> => Touched(waiting[1]) + Touched(filed_array) <= 2
=============================================================================
