------------------------- MODULE FileSystemOpenFiles -------------------------
(***************************************************************************)
(* FileSystem implements OpenFiles: what a descriptor has still to give is *)
(* what follows its position in the file or in the directory.              *)
(***************************************************************************)
EXTENDS FileSystem

\* The entries of an image have names of their own, that fit, and inodes of
\* their own; there is one directory and one clock.
ASSUME DirectoryAssumption ==
  /\ \A k \in DOMAIN Dentries : Len(Dentries[k].file_name) \in 1..FILE_NAME_LENGTH
  /\ \A k, l \in DOMAIN Dentries :
       \/ Dentries[k].file_name = Dentries[l].file_name
       \/ /\ Dentries[k].file_type = Dentries[l].file_type
          /\ Dentries[k].file_type = "file" =>
               Dentries[k].inode_index = Dentries[l].inode_index
       => k = l
  /\ \A name \in Unknown : Matches(name) = {}

FilesIn == {k \in DOMAIN Dentries : Dentries[k].file_type = "file"}

\* The first byte of a name is read as the count of entries; the name does
\* not end where the count of inodes begins; and the byte that falls there is
\* above every inode's index.
Harmless(name) ==
  /\ Len(name) > 0 /\ Len(name) # 4
  /\ name[1] >= Len(Dentries)
  /\ Len(name) > 4 => \A k \in FilesIn : Dentries[k].inode_index <= name[5]

SafeNames == \A k \in FilesIn : Harmless(Dentries[k].file_name)

\* Programs open no file whose name does harm; they may run it.
OpensHarmless ==
  \A k \in FilesIn : result'.call = <<"open", Dentries[k].file_name>> =>
    Harmless(Dentries[k].file_name)

\* Byte p of a file, from 0, is in block p \div DATA_BLOCK_SIZE of its inode.
Whole(inode) ==
  [p \in 1..Inodes[inode].file_length |->
     Inodes[inode].data_blocks[(p - 1) \div DATA_BLOCK_SIZE] * DATA_BLOCK_SIZE
       + ((p - 1) % DATA_BLOCK_SIZE)]

FileNames == [k \in DOMAIN Dentries |-> Dentries[k].file_name]

Contents ==
  [k \in DOMAIN Dentries |->
     CASE Dentries[k].file_type = "file" -> Whole(Dentries[k].inode_index)
       [] Dentries[k].file_type = "dir" -> FileNames
       [] Dentries[k].file_type = "rtc" -> <<>>]

ContentByName == [name \in {FileNames[k] : k \in DOMAIN Dentries} |-> Contents[CHOOSE k \in First(name) : TRUE]]

NamesOf(type) ==
  {FileNames[k] : k \in {l \in DOMAIN Dentries : Dentries[l].file_type = type}}
Directories == NamesOf("dir")
Clocks == NamesOf("rtc")

\* The entry an open descriptor was opened for.
Entry(e) == CHOOSE k \in DOMAIN Dentries :
              /\ Dentries[k].file_type = e.type
              /\ e.type = "file" => Dentries[k].inode_index = e.inode

From(s, first) == SubSeq(s, first, Len(s))

View(array) ==
  [fd \in 2..(FDARRAY_MAX - 1) |->
     IF array[fd].flags = 0 THEN [file |-> <<>>, rest |-> <<>>]
     ELSE [file |-> FileNames[Entry(array[fd])],
           rest |-> From(Contents[Entry(array[fd])], array[fd].position + 1)]]

Open_Files == INSTANCE OpenFiles WITH
  Fds <- 2..(FDARRAY_MAX - 1),
  Asked <- 2..FDARRAY_MAX,
  Files <- DOMAIN ContentByName,
  Content <- ContentByName,
  Listings <- Directories,
  Devices <- Clocks,
  frames <- [k \in 1..(Len(waiting) + 1) |->
               View(IF k <= Len(waiting) THEN waiting[k] ELSE filed_array)]

\* Every descriptor gives the file it was opened for, byte after byte, and no
\* call fails without a reason.
ImplementsOpenFiles == Open_Files!Spec
=============================================================================
