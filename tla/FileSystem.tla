------------------------------ MODULE FileSystem ------------------------------
(***************************************************************************)
(* The read-only file system (filesystem.c) and the descriptors of the     *)
(* running program (open, close, read and write of scall.c, dispatched by  *)
(* fileoptable.c).  execute() gives a program an array of descriptors of   *)
(* its own, halt() goes back to the caller's.                              *)
(*                                                                         *)
(* The image is constant but for its first eight bytes: file_open() copies *)
(* the entry it looks up to the beginning of the boot block, over the two  *)
(* counters the lookups and reads check their arguments against.           *)
(***************************************************************************)
EXTENDS Integers, Sequences

CONSTANTS
  Dentries,          \* the directory: [file_name, file_type, inode_index]
  Inodes,            \* [file_length, data_blocks] by inode index
  InodesNum,         \* the image's count of inodes
  Programs,          \* the inodes whose data starts like an executable
  Unknown,           \* names asked for that no file has
  FILE_NAME_LENGTH,
  DATA_BLOCK_SIZE,
  DENTRY_LENGTH,     \* the directory has room for so many entries
  FDARRAY_MAX,
  MaxRequest,        \* bound on the byte count of a read
  MaxDepth           \* bound on the programs that wait for the running one

FileTypes == {"rtc", "dir", "file"}
Byte == 0..255
Dentry == [file_name : Seq(Byte \ {0}), file_type : FileTypes,
           inode_index : DOMAIN Inodes]

ASSUME FileSystemAssumption ==
  /\ Len(Dentries) \in Byte /\ InodesNum \in Byte
  /\ Dentries \in Seq(Dentry)
  /\ DOMAIN Inodes \subseteq 0..InodesNum
  /\ \A inode \in DOMAIN Inodes :
       /\ Inodes[inode].file_length \in Nat
       /\ \A n \in DOMAIN Inodes[inode].data_blocks :
            Inodes[inode].data_blocks[n] \in Nat
       /\ \A p \in 0..(Inodes[inode].file_length - 1) :
            p \div DATA_BLOCK_SIZE \in DOMAIN Inodes[inode].data_blocks
  /\ FDARRAY_MAX \in Nat /\ FDARRAY_MAX >= 3
  /\ DATA_BLOCK_SIZE \in Nat \ {0}
  /\ FILE_NAME_LENGTH \in Nat /\ DENTRY_LENGTH \in Nat
  /\ MaxRequest \in Nat /\ MaxDepth \in Nat

Fds == 0..(FDARRAY_MAX - 1)
\* close(), read() and write() take descriptors below 7, of eight.
Served == 2..(FDARRAY_MAX - 2)
Names == {Dentries[k].file_name : k \in DOMAIN Dentries} \cup Unknown

VARIABLES
  header,        \* dentry_num and inodes_num of the boot block, byte by byte
  filed_array,   \* the running program's descriptors
  waiting,       \* the arrays of the programs that wait for it, the last its caller's
  result         \* the last call and what it gave

vars == <<header, filed_array, waiting, result>>

Word(first) == header[first] + 256 * header[first + 1]
                 + 65536 * header[first + 2] + 16777216 * header[first + 3]
dentry_num == Word(0)
inodes_num == Word(4)

Descriptor == [type : FileTypes \cup {"terminal"}, inode : Int,
               position : Int, flags : {0, 1}]
Terminal == [type |-> "terminal", inode |-> 0, position |-> 0, flags |-> 1]
Unused == [type |-> "rtc", inode |-> 0, position |-> 0, flags |-> 0]

\* initialize_PCB() opens the terminal twice and clears the other flags; what
\* else is in a free entry is not looked at before open() has set it.
FreshArray == [fd \in Fds |-> IF fd < 2 THEN Terminal ELSE Unused]

Init ==
  /\ header = [b \in 0..7 |-> CASE b = 0 -> Len(Dentries)
                                [] b = 4 -> InodesNum
                                [] OTHER -> 0]
  /\ filed_array = FreshArray
  /\ waiting = <<>>
  /\ result = [call |-> <<"boot">>, ret |-> 0, data |-> <<>>]

Least(a, b) == IF a < b THEN a ELSE b

------------------------------------------------------------------------------
(* Lookups and reads                                                       *)

\* A longer name is cut where an entry's name ends.
Cut(name) == SubSeq(name, 1, Least(Len(name), FILE_NAME_LENGTH))

\* strncmp() returns 0: the first n bytes are the same.
strncmp(s1, s2, n) == SubSeq(s1, 1, n) = SubSeq(s2, 1, n)

\* read_dentry_by_name() compares lengths, then bytes.
Matches(name) ==
  {k \in DOMAIN Dentries :
     LET entry == Dentries[k].file_name
     IN  Len(entry) = Len(Cut(name)) /\ strncmp(Cut(name), entry, Len(entry))}

First(name) == {k \in Matches(name) : \A l \in Matches(name) : k <= l}

\* read_dentry_by_index() numbers entries from 0.
Copies(k) == k - 1 <= dentry_num

\* The entries a lookup may leave its caller with: read_dentry_by_name()
\* succeeds also when read_dentry_by_index() has copied nothing.
Lookup(name) ==
  {Dentries[k] : k \in {l \in DOMAIN Dentries :
                          \E f \in First(name) : l = f \/ ~Copies(f)}}

\* Mutant: the copy pads with zeros, like the C library's strncpy().
StrCpy_Padded(name) ==
  [b \in 0..7 |-> IF b < Len(name) THEN name[b + 1] ELSE 0]

\* strcpy() of a file name to the beginning of the boot block: the name, a
\* zero, and what was there.
StrCpy(name) ==
  [b \in 0..7 |-> IF b < Len(name) THEN name[b + 1]
                  ELSE IF b = Len(name) THEN 0 ELSE header[b]]

\* Positions are unsigned: below 0 is above every length.
Refuses(inode, offset) ==
  /\ offset # Inodes[inode].file_length
  /\ \/ inode > inodes_num
     \/ offset < 0
     \/ offset > Inodes[inode].file_length

\* A byte of the image is known by where it is.
Block(id) == [j \in 1..DATA_BLOCK_SIZE |-> id * DATA_BLOCK_SIZE + j - 1]

\* The entry past the inode's last one is read too, and nothing copied from
\* the block it is taken for.
BlockId(inode, n) == IF n \in DOMAIN Inodes[inode].data_blocks
                     THEN Inodes[inode].data_blocks[n] ELSE 0

\* The n bytes memcpy() takes from the offset on.
memcpy(bytes, offset, n) == SubSeq(bytes, offset + 1, offset + n)

\* Mutant: the offset into the first block is used for the others too.
CopyBlocks_Offset(inode, offset, length) ==
  LET starting == offset \div DATA_BLOCK_SIZE
      ending == (offset + length) \div DATA_BLOCK_SIZE
      off == offset - DATA_BLOCK_SIZE * starting
      copied[n \in starting..ending] ==
        LET done == IF n = starting THEN <<>> ELSE copied[n - 1]
            len == Least(DATA_BLOCK_SIZE - off, length - Len(done))
        IN  done \o memcpy(Block(BlockId(inode, n)), off, len)
  IN  copied[ending]

\* The two copies of read_data(): the first block from the offset on, then
\* block after block up to the one the last byte's successor is in.
CopyBlocks(inode, offset, length) ==
  LET starting == offset \div DATA_BLOCK_SIZE
      ending == (offset + length) \div DATA_BLOCK_SIZE
      off == offset - DATA_BLOCK_SIZE * starting
      first == IF DATA_BLOCK_SIZE > length + off THEN length
               ELSE DATA_BLOCK_SIZE - off
      copied[n \in starting..ending] ==
        IF n = starting THEN memcpy(Block(BlockId(inode, n)), off, first)
        ELSE LET len == Least(DATA_BLOCK_SIZE, length - Len(copied[n - 1]))
             IN  copied[n - 1] \o memcpy(Block(BlockId(inode, n)), 0, len)
  IN  copied[ending]

\* What read_data() stores in the buffer when it does not refuse.
ReadData(inode, offset, length) ==
  LET rest == Inodes[inode].file_length - offset
  IN  IF rest = 0 THEN <<>> ELSE CopyBlocks(inode, offset, Least(length, rest))

------------------------------------------------------------------------------
(* The system calls                                                        *)

Return(call, ret, data) ==
  result' = [call |-> call, ret |-> ret, data |-> data]

Fail(call) == Return(call, -1, <<>>) /\ UNCHANGED <<header, filed_array, waiting>>

Free == {fd \in Fds : filed_array[fd].flags = 0}

OpenEntry(fd, d) ==
  [type |-> d.file_type,
   inode |-> IF d.file_type = "rtc" THEN -1 ELSE d.inode_index,
   position |-> 0, flags |-> 1]

\* The driver's open is called before the entry is marked; file_open() looks
\* the name up again, into the boot block.
Open(name) ==
  \/ /\ Lookup(name) = {} \/ Free = {}
     /\ Fail(<<"open", name>>)
  \/ \E d \in Lookup(name), fd \in Free :
       /\ \A other \in Free : fd <= other
       /\ filed_array' = [filed_array EXCEPT ![fd] = OpenEntry(fd, d)]
       /\ header' = IF d.file_type = "file" /\ \A k \in First(name) : Copies(k)
                    THEN StrCpy(d.file_name) ELSE header
       /\ Return(<<"open", name>>, fd, <<>>)
       /\ UNCHANGED waiting

IsOpen(fd) == fd \in Served /\ filed_array[fd].flags = 1

\* Mutant: flags counts, and a free entry is not refused.
Close_Counted(fd) ==
  \/ fd \notin Served /\ Fail(<<"close", fd>>)
  \/ /\ fd \in Served
     /\ filed_array' = [filed_array EXCEPT ![fd].flags = @ - 1]
     /\ Return(<<"close", fd>>, 0, <<>>)
     /\ UNCHANGED <<header, waiting>>

\* The name close() searches for is given to drivers that do not use it.
Close(fd) ==
  \/ ~IsOpen(fd) /\ Fail(<<"close", fd>>)
  \/ /\ IsOpen(fd)
     /\ filed_array' = [filed_array EXCEPT ![fd].flags = 0]
     /\ Return(<<"close", fd>>, 0, <<>>)
     /\ UNCHANGED <<header, waiting>>

\* The driver has stored data and moved the position by step.
Deliver(fd, n, ret, data, step) ==
  /\ filed_array' = [filed_array EXCEPT ![fd].position = @ + step]
  /\ Return(<<"read", fd, n>>, ret, data)
  /\ UNCHANGED <<header, waiting>>

FileRead(fd, n) ==
  /\ filed_array[fd].type = "file"
  /\ LET inode == filed_array[fd].inode
         position == filed_array[fd].position
     IN  \/ /\ Refuses(inode, position)
            /\ Deliver(fd, n, -1, <<>>, -1)
         \/ /\ ~Refuses(inode, position)
            /\ \E data \in {ReadData(inode, position, n)} :
                 Deliver(fd, n, Len(data), data, Len(data))

\* An entry that is not used has an empty name.
NameAt(position) == IF position < Len(Dentries)
                    THEN Dentries[position + 1].file_name ELSE <<>>

\* One entry a call, and 0 after the last; past the directory's last entry
\* (DENTRY_LENGTH, a bound here) it would go on in the inodes.
DirectoryRead(fd, n) ==
  /\ filed_array[fd].type = "dir"
  /\ filed_array[fd].position < DENTRY_LENGTH
  /\ \E data \in {memcpy(NameAt(filed_array[fd].position), 0,
                         Least(n, Len(Cut(NameAt(filed_array[fd].position)))))} :
       Deliver(fd, n, Len(data), data, 1)

RtcRead(fd, n) == filed_array[fd].type = "rtc" /\ Deliver(fd, n, 0, <<>>, 0)

\* Descriptor 0 is the terminal's, the keyboard's side of this call.
Read(fd, n) ==
  \/ ~IsOpen(fd) /\ Fail(<<"read", fd, n>>)
  \/ IsOpen(fd) /\ (FileRead(fd, n) \/ DirectoryRead(fd, n) \/ RtcRead(fd, n))

\* Files and directories refuse, the clock takes whatever it is given.
Write(fd) ==
  \/ /\ IsOpen(fd) => filed_array[fd].type # "rtc"
     /\ Fail(<<"write", fd>>)
  \/ /\ IsOpen(fd) /\ filed_array[fd].type = "rtc"
     /\ Return(<<"write", fd>>, 0, <<>>)
     /\ UNCHANGED <<header, filed_array, waiting>>

\* execute() reads the file's first four bytes; a file that has fewer leaves
\* it to look at what its buffer held.
Starts(d) == /\ ~Refuses(d.inode_index, 0)
             /\ d.inode_index \in Programs \/ Inodes[d.inode_index].file_length < 4

Execute(name) ==
  \/ \E d \in Lookup(name) :
       /\ Starts(d)
       /\ Len(waiting) < MaxDepth
       /\ waiting' = Append(waiting, filed_array)
       /\ filed_array' = FreshArray
       /\ Return(<<"execute", name>>, 0, <<>>)
       /\ UNCHANGED header
  \/ /\ \A d \in Lookup(name) : d.inode_index \notin Programs \/ Refuses(d.inode_index, 0)
     /\ Fail(<<"execute", name>>)

Halt ==
  /\ waiting # <<>>
  /\ waiting' = SubSeq(waiting, 1, Len(waiting) - 1)
  /\ filed_array' = waiting[Len(waiting)]
  /\ Return(<<"halt">>, 0, <<>>)
  /\ UNCHANGED header

Next ==
  \/ \E name \in Names : Open(name) \/ Execute(name)
  \/ \E fd \in 2..FDARRAY_MAX : Close(fd) \/ Write(fd)
  \/ \E fd \in 2..FDARRAY_MAX, n \in 0..MaxRequest : Read(fd, n)
  \/ Halt

Spec == Init /\ [][Next]_vars
------------------------------------------------------------------------------
(* Properties                                                              *)

TypeOK ==
  /\ header \in [0..7 -> Byte]
  /\ filed_array \in [Fds -> Descriptor]
  /\ waiting \in Seq([Fds -> Descriptor])
  /\ Len(waiting) <= MaxDepth
  /\ result.ret \in Int

\* The boot block goes on to serve every file, whatever has been opened: no
\* entry is past dentry_num, no file's inode past inodes_num.
HeaderServesFiles ==
  \A k \in DOMAIN Dentries :
    Copies(k) /\ (Dentries[k].file_type = "file" => Dentries[k].inode_index <= inodes_num)
=============================================================================
