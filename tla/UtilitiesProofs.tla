--------------------------- MODULE UtilitiesProofs ---------------------------
(***************************************************************************)
(* Theorems about the programs, for images, texts and buffers of any size. *)
(***************************************************************************)
EXTENDS Utilities, FileSystemProofs

------------------------------------------------------------------------------
(* The directory stays within reach                                        *)

\* Every entry can still be looked up.
Copied == \A k \in DOMAIN Dentries : Copies(k)

\* Whatever file is opened: its name begins with a letter.
LEMMA CopyKeepsCount ==
  ASSUME TypeInv, Copied, NEW k \in DOMAIN Dentries, Dentries[k].file_type = "file",
         header' = StrCpy(Dentries[k].file_name)
  PROVE  Copied'
<1> DEFINE name == Dentries[k].file_name
<1>1. name \in Seq(Byte) /\ Len(name) \in Nat /\ Len(name) > 0
  <2>1. name \in Seq(Byte)
    BY NameType
  <2>2. Len(name) \in 1..FILE_NAME_LENGTH
    BY DirectoryAssumption
  <2> QED
    BY <2>1, <2>2
<1>2. name[1] >= Len(Dentries) /\ name[1] \in Nat
  <2>1. name[1] \in Byte
    BY <1>1
  <2>2. Dentries[k].file_name[1] >= Len(Dentries)
    BY UtilitiesAssumption
  <2>3. name[1] \in Nat
    BY <2>1 DEF Byte
  <2>4. name[1] >= Len(Dentries)
    BY <2>2
  <2> QED
    BY <2>3, <2>4
<1> HIDE DEF name
<1>3. header' = StrCpy(name)
  BY DEF name
<1>4. header' \in [0..7 -> Byte]
  BY <1>1, <1>3, StrCpyType DEF TypeInv
<1>5. header'[0] = name[1]
  BY <1>1, <1>3 DEF StrCpy
<1>6. dentry_num' \in Int /\ dentry_num' >= header'[0]
  BY <1>4, WordType, WordAtLeast DEF dentry_num, Word
<1>7. Len(Dentries) \in Nat /\ \A l \in DOMAIN Dentries : l \in 1..Len(Dentries)
  BY FileSystemAssumption
<1> QED
  BY <1>2, <1>5, <1>6, <1>7 DEF Copied, Copies

\* A lookup gives the first entry of that name, and nothing else.
LEMMA LookupFinds ==
  ASSUME Copied, NEW name
  PROVE  Lookup(name) = {Dentries[k] : k \in First(name)}
BY DEF Copied, Lookup, First, Matches

LEMMA OpenGives ==
  ASSUME TypeInv, Copied, NEW name, Open(name)
  PROVE  /\ TypeInv' /\ Copied' /\ UNCHANGED waiting
         /\ result'.ret = -1 => UNCHANGED filed_array
         /\ result'.ret # -1 =>
              /\ result'.ret \in Free
              /\ \A other \in Free : result'.ret <= other
              /\ \E k \in First(name) :
                   filed_array' = [filed_array EXCEPT
                     ![result'.ret] = OpenEntry(result'.ret, Dentries[k])]
<1>1. TypeInv'
  BY OpenTypeInv
<1>2. CASE Fail(<<"open", name>>)
  BY <1>1, <1>2 DEF Fail, Return, Copied, Copies, dentry_num, Word
<1>3. CASE ~Fail(<<"open", name>>)
  <2>1. PICK d \in Lookup(name), fd \in Free :
          /\ \A other \in Free : fd <= other
          /\ filed_array' = [filed_array EXCEPT ![fd] = OpenEntry(fd, d)]
          /\ header' = IF d.file_type = "file" /\ \A k \in First(name) : Copies(k)
                       THEN StrCpy(d.file_name) ELSE header
          /\ Return(<<"open", name>>, fd, <<>>)
          /\ UNCHANGED waiting
    BY <1>3 DEF Open
  <2>2. PICK k \in First(name) : d = Dentries[k]
    BY LookupFinds
  <2>3. k \in DOMAIN Dentries
    BY DEF First, Matches
  <2>4. Copied'
    <3>1. CASE header' = header
      BY <3>1 DEF Copied, Copies, dentry_num, Word
    <3>2. CASE header' # header
      BY <2>1, <2>2, <2>3, <3>2, CopyKeepsCount
    <3> QED
      BY <3>1, <3>2
  <2>5. result'.ret = fd /\ fd # -1
    BY <2>1, FileSystemAssumption DEF Return, Free, Fds
  <2> QED
    BY <1>1, <2>1, <2>2, <2>4, <2>5
<1> QED
  BY <1>2, <1>3

LEMMA PieceAt ==
  ASSUME NEW S, NEW s \in Seq(S), NEW p \in Nat, NEW m \in Nat, p + m <= Len(s), NEW j \in 1..m
  PROVE  SubSeq(s, p + 1, p + m)[j] = s[p + j]
<1>1. \A i \in (p + 1)..(p + m) : s[i] \in S
  BY LenProperties
<1>2. \A i \in 1..((p + m) - (p + 1) + 1) : SubSeq(s, p + 1, p + m)[i] = s[(p + 1) + i - 1]
  BY <1>1, SubSeqProperties
<1>3. j \in 1..((p + m) - (p + 1) + 1) /\ (p + 1) + j - 1 = p + j
  OBVIOUS
<1> QED
  BY <1>2, <1>3

\* Every byte of a file is a character.
LEMMA TextOf ==
  ASSUME text \in Texts, NEW inode \in DOMAIN Inodes, NEW j \in 1..Inodes[inode].file_length
  PROVE  text[Whole(inode)[j]] \in Byte
<1>1. Inodes[inode].file_length \in Nat
  BY WholeType
<1>2. j - 1 \in 0..(Inodes[inode].file_length - 1)
  BY <1>1
<1> QED
  BY <1>2, UtilitiesAssumption DEF Whole

\* What a read stores is as many characters as it returns, and fits.
LEMMA ReadGives ==
  ASSUME TypeInv, text \in Texts, NEW fd \in Int, NEW n \in Nat, Read(fd, n)
  PROVE  /\ TypeInv' /\ UNCHANGED <<header, waiting>>
         /\ result'.ret # -1 =>
              /\ IsOpen(fd) /\ fd \in Fds
              /\ result'.ret \in Nat /\ result'.ret <= n
              /\ Delivered(fd) \in Seq(Byte) /\ Len(Delivered(fd)) = result'.ret
<1>1. TypeInv'
  BY ReadTypeInv
<1>2. UNCHANGED <<header, waiting>>
  BY DEF Read, FileRead, DirectoryRead, RtcRead, Deliver, Fail
<1> SUFFICES ASSUME result'.ret # -1
             PROVE  /\ IsOpen(fd) /\ fd \in Fds
                    /\ result'.ret \in Nat /\ result'.ret <= n
                    /\ Delivered(fd) \in Seq(Byte) /\ Len(Delivered(fd)) = result'.ret
  BY <1>1, <1>2
<1>3. IsOpen(fd) /\ (FileRead(fd, n) \/ DirectoryRead(fd, n) \/ RtcRead(fd, n))
  BY DEF Read, Fail, Return
<1>4. fd \in Fds
  BY <1>3, FileSystemAssumption DEF IsOpen, Served, Fds
<1>5. CASE FileRead(fd, n)
  <2> DEFINE inode == filed_array[fd].inode
             position == filed_array[fd].position
             data == ReadData(inode, position, n)
             m == Least(n, Inodes[inode].file_length - position)
  <2>1. filed_array[fd].type = "file" /\ ~Refuses(inode, position)
        /\ Deliver(fd, n, Len(data), data, Len(data))
    BY <1>5 DEF FileRead, Deliver, Return
  <2>2. inode \in DOMAIN Inodes /\ position \in Int
    BY <1>4, <2>1 DEF TypeInv, Arrays, Entries, Descriptor
  <2>3. position \in 0..Inodes[inode].file_length /\ Inodes[inode].file_length \in Nat
    BY <2>1, <2>2, WholeType DEF Refuses
  <2>4. /\ m \in Nat /\ data \in Seq(Nat) /\ Len(data) = m
        /\ data = SubSeq(Whole(inode), position + 1, position + m)
    BY <2>2, <2>3, ReadDataIs
  <2>5. m <= n /\ m <= Inodes[inode].file_length - position
    BY <2>3, LeastIs
  <2>6. result'.ret = m /\ result'.data = data
    BY <2>1, <2>4 DEF Deliver, Return
  <2> HIDE DEF m, data, position
  <2>7. ASSUME NEW j \in 1..m
        PROVE  text[data[j]] \in Byte
    <3>1. /\ Whole(inode) \in Seq(Nat)
          /\ Len(Whole(inode)) = Inodes[inode].file_length
      BY <2>2, WholeType
    <3>2. position + 1 \in Int /\ position + m \in Int /\ position + j \in 1..Inodes[inode].file_length
          /\ (position + 1) + j - 1 = position + j
          /\ position + 1 <= position + m
          /\ j \in 1..((position + m) - (position + 1) + 1)
      BY <2>3, <2>4, <2>5
    <3> HIDE DEF inode
    <3>3. position \in Nat /\ m \in Nat /\ position + m <= Len(Whole(inode))
      BY <2>3, <2>4, <2>5, <3>1
    <3>4. SubSeq(Whole(inode), position + 1, position + m)[j] = Whole(inode)[position + j]
      BY <3>1, <3>3, PieceAt
    <3>5. data[j] = Whole(inode)[position + j]
      BY <2>4, <3>4
    <3> QED
      BY <2>2, <3>2, <3>5, TextOf
  <2>8. Delivered(fd) = [j \in 1..m |-> text[data[j]]]
    BY <2>1, <2>4, <2>6 DEF Delivered
  <2>9. Delivered(fd) \in Seq(Byte) /\ Len(Delivered(fd)) = m
    BY <2>4, <2>7, <2>8, SequenceOf
  <2> QED
    BY <1>3, <1>4, <2>4, <2>5, <2>6, <2>9
<1>6. CASE DirectoryRead(fd, n)
  <2> DEFINE name == NameAt(filed_array[fd].position)
             m == Least(n, Len(Cut(name)))
             data == memcpy(name, 0, m)
  <2>1. filed_array[fd].type = "dir" /\ Deliver(fd, n, Len(data), data, 1)
    BY <1>6 DEF DirectoryRead
  <2>2. filed_array[fd].position \in Nat
    BY <1>4, <2>1 DEF TypeInv, Arrays, Entries
  <2>3. /\ m \in Nat /\ Cut(name) \in Seq(Byte)
        /\ data \in Seq(Byte) /\ Len(data) = m
    BY <2>2, NameAtType
  <2>4. m <= n
    BY <2>3, LeastIs
  <2> HIDE DEF data, m
  <2>5. Delivered(fd) = data /\ result'.ret = m
    BY <2>1, <2>3 DEF Delivered, Deliver, Return
  <2> QED
    BY <1>3, <1>4, <2>3, <2>4, <2>5
<1>7. CASE RtcRead(fd, n)
  <2>1. Delivered(fd) = <<>> /\ result'.ret = 0
    BY <1>7 DEF RtcRead, Deliver, Return, Delivered
  <2> QED
    BY <1>3, <1>4, <2>1
<1> QED
  BY <1>3, <1>5, <1>6, <1>7

------------------------------------------------------------------------------
(* The buffer of grep                                                      *)

Chars == Byte \cup {Junk}
Buffers == [0..BUFSIZE -> Chars]

LEMMA LineEndIs ==
  ASSUME local \in Locals, local.line_start <= local.last
  PROVE  /\ LineEnd \in local.line_start..local.last
         /\ LineEnd \in 0..BUFSIZE
         /\ LineEnd = local.last \/ local.data[LineEnd] = NL
         /\ \A b \in local.line_start..(LineEnd - 1) : local.data[b] # NL
<1> DEFINE start == local.line_start
           last == local.last
           ends == {b \in start..last : b = last \/ local.data[b] = NL}
<1>1. start \in 0..BUFSIZE /\ last \in 0..BUFSIZE /\ start <= last
  BY DEF Locals
<1>2. BUFSIZE \in Nat
  BY UtilitiesAssumption
<1> HIDE DEF start, last
<1>3. PICK e \in ends : \A b \in ends : e <= b
  <2>1. ends \in SUBSET Nat /\ last \in ends
    BY <1>1, <1>2
  <2> HIDE DEF ends
  <2> QED
    BY <2>1, LeastNumber
<1>4. LineEnd \in ends /\ \A b \in ends : LineEnd <= b
  <2>1. LineEnd = CHOOSE b \in ends : \A c \in ends : b <= c
    BY DEF LineEnd, start, last
  <2> HIDE DEF ends
  <2> QED
    BY <1>3, <2>1
<1>5. ASSUME NEW b \in start..(LineEnd - 1)
      PROVE  local.data[b] # NL
  <2>1. b \in start..last /\ b < LineEnd
    BY <1>1, <1>2, <1>4
  <2>2. b \notin ends
    BY <1>1, <1>2, <1>4, <2>1
  <2> QED
    BY <2>1, <2>2
<1> QED
  BY <1>1, <1>2, <1>4, <1>5 DEF start, last

\* The string at a place of the buffer ends with the first zero from there on.
LEMMA StringIs ==
  ASSUME NEW data \in Buffers, NEW from \in 0..BUFSIZE,
         NEW zero \in from..BUFSIZE, data[zero] = 0
  PROVE  \E end \in from..zero :
           /\ data[end] = 0
           /\ \A b \in from..(end - 1) : data[b] # 0
           /\ String(data, from) = [k \in 1..(end - from) |-> data[from + k - 1]]
           /\ String(data, from) \in Seq(Chars)
           /\ Len(String(data, from)) = end - from
<1> DEFINE ends == {b \in from..BUFSIZE : data[b] = 0}
           end == CHOOSE b \in ends : \A c \in ends : b <= c
<1>1. BUFSIZE \in Nat
  BY UtilitiesAssumption
<1>2. end \in ends /\ \A c \in ends : end <= c
  <2>1. ends \in SUBSET Nat /\ zero \in ends
    BY <1>1
  <2> HIDE DEF ends
  <2>2. \E e \in ends : \A b \in ends : e <= b
    BY <2>1, LeastNumber
  <2> QED
    BY <2>2
<1>3. String(data, from) = [k \in 1..(end - from) |-> data[from + k - 1]]
  BY DEF String
<1> HIDE DEF end
<1>4. end \in from..zero /\ data[end] = 0
  BY <1>1, <1>2
<1>5. ASSUME NEW b \in from..(end - 1)
      PROVE  data[b] # 0
  <2>1. b \in from..BUFSIZE /\ ~(end <= b)
    BY <1>1, <1>4
  <2> QED
    BY <1>2, <2>1
<1>6. end - from \in Nat
  BY <1>1, <1>4
<1>7. [k \in 1..(end - from) |-> data[from + k - 1]] \in [1..(end - from) -> Chars]
  <2>1. \A k \in 1..(end - from) : from + k - 1 \in 0..BUFSIZE
    BY <1>1, <1>4
  <2> QED
    BY <2>1 DEF Buffers
<1>8. String(data, from) \in Seq(Chars) /\ Len(String(data, from)) = end - from
  BY <1>3, <1>6, <1>7, SequenceOf
<1> QED
  BY <1>3, <1>4, <1>5, <1>8

LEMMA EndedIs ==
  ASSUME local \in Locals, local.line_start <= local.last
  PROVE  /\ Ended \in Buffers
         /\ Ended[LineEnd] = 0
         /\ \A b \in 0..BUFSIZE : b # LineEnd => Ended[b] = local.data[b]
<1>1. local.data \in Buffers
  BY DEF Locals, Buffers, Chars
<1>2. LineEnd \in 0..BUFSIZE
  BY LineEndIs
<1>3. 0 \in Chars
  BY DEF Chars, Byte
<1> QED
  BY <1>1, <1>2, <1>3 DEF Ended, Buffers

------------------------------------------------------------------------------
(* The calls of syserr                                                     *)

Tests == {0, 1, 2, 3, 4, 5, 7}
Asked == (Tests \X {"open"} \X Seq(Byte)) \cup (Tests \X {"close", "read", "write"} \X Int)

LEMMA Joined ==
  ASSUME NEW S, NEW s \in Seq(S), NEW t \in Seq(S)
  PROVE  s \o t \in Seq(S)
OBVIOUS

\* Calls the kernel has to refuse while no served descriptor is open.
NoNames == {helloo, shel, <<>>}
Wrong == ({1, 2, 5, 7} \X {"close", "read", "write"} \X Int) \cup ({4} \X {"open"} \X NoNames)

LEMMA WrongNumbers ==
  ASSUME NEW test \in {1, 2, 5, 7}, NEW call \in {"close", "read", "write"}, NEW args \in Seq(Int)
  PROVE  Calls(test, call, args) \in Seq(Wrong)
<1>1. Len(args) \in Nat /\ DOMAIN args = 1..Len(args) /\ \A k \in 1..Len(args) : args[k] \in Int
  OBVIOUS
<1>2. Calls(test, call, args) \in [1..Len(args) -> Wrong]
  BY <1>1 DEF Calls, Wrong
<1> QED
  BY <1>1, <1>2, SequenceOf

LEMMA Upward ==
  ASSUME NEW a \in 0..7, NEW b \in 0..7, a <= b
  PROVE  UpTo(a, b) \in Seq(Int)
<1>1. b - a + 1 \in Nat /\ [k \in 1..(b - a + 1) |-> a + k - 1] \in [1..(b - a + 1) -> Int]
  OBVIOUS
<1> QED
  BY <1>1, SequenceOf DEF UpTo

\* But for the third, the tests ask for nothing else.
LEMMA WrongTests ==
  /\ err_neg_fd \in Seq(Wrong) /\ err_big_fd \in Seq(Wrong) /\ err_open \in Seq(Wrong)
  /\ err_unopened \in Seq(Wrong) /\ err_stdin_out \in Seq(Wrong)
<1>1. ASSUME NEW test \in {1, 2}, NEW fd \in Int
      PROVE  Refused(test, fd) \in Seq(Wrong)
  <2>1. <<fd>> \in Seq(Int)
    OBVIOUS
  <2>2. \A call \in {"close", "read", "write"} : Calls(test, call, <<fd>>) \in Seq(Wrong)
    BY <2>1, WrongNumbers
  <2> QED
    BY <2>2, Joined DEF Refused
<1>2. err_neg_fd \in Seq(Wrong) /\ err_big_fd \in Seq(Wrong)
  BY <1>1 DEF err_neg_fd, err_big_fd, NEG_FD, BIG_FD
<1>3. err_open \in Seq(Wrong)
  <2> DEFINE names == <<helloo, shel, <<>>>>
  <2>1. names \in Seq(NoNames)
    BY DEF NoNames
  <2> HIDE DEF names
  <2>2. Len(names) \in Nat /\ DOMAIN names = 1..Len(names)
        /\ \A k \in 1..Len(names) : names[k] \in NoNames
    BY <2>1
  <2>3. Calls(4, "open", names) \in [1..Len(names) -> Wrong]
    BY <2>2 DEF Calls, Wrong
  <2> QED
    BY <2>2, <2>3, SequenceOf DEF err_open, names
<1>4. err_unopened \in Seq(Wrong)
  <2>1. UpTo(0, 7) \in Seq(Int) /\ UpTo(2, 7) \in Seq(Int)
    BY Upward
  <2>2. \A call \in {"close", "read", "write"} :
          Calls(5, call, UpTo(0, 7)) \in Seq(Wrong) /\ Calls(5, call, UpTo(2, 7)) \in Seq(Wrong)
    BY <2>1, WrongNumbers
  <2> QED
    BY <2>2, Joined DEF err_unopened
<1>5. err_stdin_out \in Seq(Wrong)
  <2>1. <<0>> \in Seq(Int) /\ <<1>> \in Seq(Int)
    OBVIOUS
  <2>2. Calls(7, "write", <<0>>) \in Seq(Wrong) /\ Calls(7, "read", <<1>>) \in Seq(Wrong)
    BY <2>1, WrongNumbers
  <2> QED
    BY <2>2, Joined DEF err_stdin_out
<1> QED
  BY <1>2, <1>3, <1>4, <1>5

\* The third opens the directory seven times and closes six descriptors.
LEMMA LotsOfOpens ==
  /\ err_open_lots \in Seq(Asked) /\ Len(err_open_lots) = 13
  /\ \A i \in 1..7 : err_open_lots[i] = <<3, "open", Dot>>
  /\ \A i \in 8..13 : err_open_lots[i] = <<0, "close", i - 6>>
<1> DEFINE dots == [k \in 1..7 |-> Dot]
           opens == Calls(3, "open", dots)
           closes == Calls(0, "close", UpTo(2, 7))
<1>1. Dot \in Seq(Byte)
  BY DEF Dot, Byte
<1>2. opens = [i \in 1..7 |-> <<3, "open", Dot>>]
  BY DEF Calls
<1>3. closes = [i \in 1..6 |-> <<0, "close", i + 1>>]
  <2>1. UpTo(2, 7) = [k \in 1..6 |-> k + 1]
    BY DEF UpTo
  <2> QED
    BY <2>1 DEF Calls
<1>4. opens \in Seq(Asked) /\ Len(opens) = 7
  <2>1. opens \in [1..7 -> Asked]
    BY <1>1, <1>2 DEF Asked, Tests
  <2> QED
    BY <2>1, SequenceOf
<1>5. closes \in Seq(Asked) /\ Len(closes) = 6
  <2>1. closes \in [1..6 -> Asked]
    BY <1>3 DEF Asked, Tests
  <2> QED
    BY <2>1, SequenceOf
<1> HIDE DEF opens, closes
<1>6. /\ opens \o closes \in Seq(Asked) /\ Len(opens \o closes) = 13
      /\ \A i \in 1..13 : (opens \o closes)[i] = IF i <= 7 THEN opens[i] ELSE closes[i - 7]
  <2>1. /\ opens \o closes \in Seq(Asked) /\ Len(opens \o closes) = Len(opens) + Len(closes)
        /\ \A i \in 1..(Len(opens) + Len(closes)) :
             (opens \o closes)[i] = IF i <= Len(opens) THEN opens[i] ELSE closes[i - Len(opens)]
    BY <1>4, <1>5, ConcatProperties
  <2>2. Len(opens) + Len(closes) = 13
    BY <1>4, <1>5
  <2> QED
    BY <1>4, <2>1, <2>2
<1>7. \A i \in 8..13 : i - 7 \in 1..6 /\ (i - 7) + 1 = i - 6 /\ ~(i <= 7) /\ i \in 1..13
  OBVIOUS
<1>8. \A i \in 8..13 : (opens \o closes)[i] = <<0, "close", i - 6>>
  BY <1>3, <1>6, <1>7
<1>9. \A i \in 1..7 : (opens \o closes)[i] = <<3, "open", Dot>>
  BY <1>2, <1>6
<1> QED
  BY <1>6, <1>8, <1>9 DEF err_open_lots, opens, closes, dots

LEMMA WrongIsAsked == Wrong \subseteq Asked
<1>1. \A name \in NoNames : name \in Seq(Byte)
  <2>1. helloo \in Seq(Byte) /\ shel \in Seq(Byte) /\ <<>> \in Seq(Byte)
    BY DEF Byte, helloo, shel
  <2> QED
    BY <2>1 DEF NoNames
<1> QED
  BY <1>1 DEF Wrong, Asked, Tests

\* Which commands run the third test, and after how many calls.
Opens == command.arg \notin {<<49>>, <<50>>, <<52>>, <<53>>, <<55>>}
Before == IF command.arg = <<51>> THEN <<>> ELSE err_neg_fd \o err_big_fd
After == IF command.arg = <<51>> THEN <<>>
         ELSE err_open \o err_unopened \o err_stdin_out

LEMMA ScriptParts ==
  /\ ~Opens => Script \in Seq(Wrong)
  /\ Opens => Script = Before \o err_open_lots \o After
  /\ Before \in Seq(Wrong) /\ After \in Seq(Wrong)
<1>1. <<49>> # <<50>> /\ <<49>> # <<51>> /\ <<50>> # <<51>> /\ <<51>> # <<52>> /\ <<51>> # <<53>>
      /\ <<51>> # <<55>>
  OBVIOUS
<1>2. Before \in Seq(Wrong) /\ After \in Seq(Wrong)
  <2>1. <<>> \in Seq(Wrong)
    OBVIOUS
  <2>2. err_neg_fd \o err_big_fd \in Seq(Wrong)
    BY WrongTests, Joined
  <2>3. err_open \o err_unopened \in Seq(Wrong)
    BY WrongTests, Joined
  <2>4. (err_open \o err_unopened) \o err_stdin_out \in Seq(Wrong)
    BY <2>3, WrongTests, Joined
  <2> QED
    BY <2>1, <2>2, <2>4 DEF Before, After
<1>3. ASSUME ~Opens
      PROVE  Script \in Seq(Wrong)
  <2>1. Script \in {err_neg_fd, err_big_fd, err_open, err_unopened, err_stdin_out}
    BY <1>1, <1>3, Zenon DEF Script, Opens
  <2> QED
    BY <2>1, WrongTests
<1>4. ASSUME Opens
      PROVE  Script = Before \o err_open_lots \o After
  <2>1. CASE command.arg = <<51>>
    <3>1. Script = err_open_lots
      BY <1>1, <2>1 DEF Script
    <3>2. <<>> \o err_open_lots = err_open_lots /\ err_open_lots \o <<>> = err_open_lots
      BY LotsOfOpens, ConcatEmptySeq
    <3> QED
      BY <2>1, <3>1, <3>2 DEF Before, After
  <2>2. CASE command.arg # <<51>>
    <3>1. Script = err_neg_fd \o err_big_fd \o err_open_lots \o err_open \o err_unopened
                     \o err_stdin_out
      BY <1>4, <2>2, Zenon DEF Script, Opens
    <3>2. /\ err_neg_fd \in Seq(Asked) /\ err_big_fd \in Seq(Asked) /\ err_open \in Seq(Asked)
          /\ err_unopened \in Seq(Asked) /\ err_stdin_out \in Seq(Asked)
      BY WrongTests, WrongIsAsked, SeqMonotonic
    <3> DEFINE a == err_neg_fd \o err_big_fd
               b == a \o err_open_lots
    <3>3. a \in Seq(Asked)
      BY <3>2, Joined
    <3>4. b \in Seq(Asked)
      BY <3>3, LotsOfOpens, Joined
    <3> DEFINE c == err_open \o err_unopened
    <3>5. c \in Seq(Asked)
      BY <3>2, Joined
    <3> HIDE DEF a, b
    <3>6. (b \o err_open) \o err_unopened = b \o (err_open \o err_unopened)
      BY <3>2, <3>4, ConcatAssociative
    <3>7. (b \o c) \o err_stdin_out = b \o (c \o err_stdin_out)
      <4> HIDE DEF c
      <4>1. err_stdin_out \in Seq(Asked)
        BY <3>2
      <4> QED
        BY <3>4, <3>5, <4>1, ConcatAssociative
    <3>8. Script = ((b \o err_open) \o err_unopened) \o err_stdin_out
      BY <3>1 DEF a, b
    <3>9. Script = b \o (c \o err_stdin_out)
      BY <3>6, <3>7, <3>8
    <3> QED
      BY <2>2, <3>9 DEF Before, After, a, b
  <2> QED
    BY <2>1, <2>2
<1> QED
  BY <1>2, <1>3, <1>4

LEMMA ScriptCalls == Script \in Seq(Asked)
<1>1. CASE ~Opens
  BY <1>1, ScriptParts, WrongIsAsked, SeqMonotonic
<1>2. CASE Opens
  <2>1. Before \in Seq(Asked) /\ After \in Seq(Asked)
    BY ScriptParts, WrongIsAsked, SeqMonotonic
  <2>2. Before \o err_open_lots \in Seq(Asked)
    BY <2>1, LotsOfOpens, Joined
  <2>3. (Before \o err_open_lots) \o After \in Seq(Asked)
    BY <2>1, <2>2, Joined
  <2> QED
    BY <1>2, <2>3, ScriptParts
<1> QED
  BY <1>1, <1>2

------------------------------------------------------------------------------
(* Types                                                                   *)

\* The inductive invariant.
ShellInv ==
  /\ TypeInv /\ Copied
  /\ text \in Texts /\ command \in Typed
  /\ pc \in Labels /\ local \in Locals
  /\ pc = "grep_line" => local.line_start <= local.last
  /\ rval \in Nat
  /\ Len(waiting) = IF pc = "shell" THEN 0 ELSE 1

LEMMA HeaderKept ==
  ASSUME Copied, UNCHANGED header
  PROVE  Copied'
BY DEF Copied, Copies, dentry_num, Word

LEMMA NoLocalsType == NoLocals \in Locals
<1>1. BUFSIZE \in Nat /\ Junk \in Byte \cup {Junk}
  BY UtilitiesAssumption
<1>2. [b \in 0..BUFSIZE |-> Junk] \in [0..BUFSIZE -> Byte \cup {Junk}] /\ 0 \in 0..BUFSIZE
  BY <1>1
<1>3. <<>> \in Seq(Byte)
  OBVIOUS
<1> QED
  BY <1>2, <1>3 DEF NoLocals, Locals

LEMMA InitShellInv == ShellInit => ShellInv
<1> SUFFICES ASSUME ShellInit PROVE ShellInv
  OBVIOUS
<1>1. TypeInv
  BY InitTypeInv DEF ShellInit
<1>2. Copied
  BY InitHeaderInv DEF ShellInit, HeaderInv, HeaderServesFiles, Copied
<1>3. Len(waiting) = 0
  BY DEF ShellInit, Init
<1> QED
  BY <1>1, <1>2, <1>3, NoLocalsType DEF ShellInit, ShellInv, Labels

\* What a command runs is one of the four programs.
LEMMA ExecuteGives ==
  ASSUME TypeInv, Copied, NEW name, Execute(name)
  PROVE  /\ TypeInv' /\ Copied' /\ UNCHANGED header
         /\ result'.ret = -1 => UNCHANGED <<filed_array, waiting>>
         /\ result'.ret # -1 => /\ First(name) # {}
                                /\ waiting' = Append(waiting, filed_array)
                                /\ filed_array' = FreshArray
<1>1. TypeInv' /\ UNCHANGED header
  BY ExecuteTypeInv DEF Execute, Fail
<1>2. Copied'
  BY <1>1, HeaderKept
<1>3. \A d \in Lookup(name) : First(name) # {}
  BY DEF Lookup
<1> QED
  BY <1>1, <1>2, <1>3 DEF Execute, Fail, Return

LEMMA TypeTyped ==
  ASSUME ShellInv, Type
  PROVE  ShellInv'
<1>1. /\ pc = "shell" /\ command' \in Typed /\ Execute(command'.name)
      /\ UNCHANGED <<text, local, rval>>
      /\ \/ result'.ret = -1 /\ pc' = "shell"
         \/ result'.ret # -1 /\ pc' = Main(command'.name)
  BY DEF Type
<1>2. /\ TypeInv' /\ Copied'
      /\ result'.ret = -1 => UNCHANGED waiting
      /\ result'.ret # -1 => First(command'.name) # {} /\ waiting' = Append(waiting, filed_array)
  BY <1>1, ExecuteGives DEF ShellInv
<1>3. ASSUME result'.ret # -1
      PROVE  pc' \in {"cat", "ls", "grep", "syserr"} /\ Len(waiting') = 1
  <2>1. command'.name \in Known
    BY <1>1, <1>2, <1>3, UtilitiesAssumption
  <2>2. pc' = Main(command'.name)
    BY <1>1, <1>3
  <2>3. cat # ls /\ cat # grep /\ cat # syserr /\ ls # grep /\ ls # syserr /\ grep # syserr
    BY DEF cat, ls, grep, syserr
  <2>4. pc' \in {"cat", "ls", "grep", "syserr"}
    BY <2>1, <2>2, <2>3 DEF Main, Known
  <2>5. Len(waiting') = 1
    BY <1>1, <1>2, <1>3 DEF ShellInv, TypeInv
  <2> QED
    BY <2>4, <2>5
<1>4. CASE result'.ret = -1
  BY <1>1, <1>2, <1>4 DEF ShellInv, Labels
<1>5. CASE result'.ret # -1
  BY <1>1, <1>2, <1>3, <1>5 DEF ShellInv, Labels
<1> QED
  BY <1>4, <1>5

LEMMA FinishTyped ==
  ASSUME ShellInv, Finish
  PROVE  ShellInv'
<1>1. /\ pc = "exit" /\ Halt /\ pc' = "shell" /\ local' = NoLocals
      /\ rval' = 0 /\ UNCHANGED <<text, command>>
  BY DEF Finish
<1>2. TypeInv' /\ Copied'
  BY <1>1, HaltTypeInv, HeaderKept DEF ShellInv, Halt
<1>3. Len(waiting') = 0
  <2>1. waiting \in Seq(Arrays) /\ Len(waiting) = 1
    BY <1>1 DEF ShellInv, TypeInv
  <2>2. waiting' = SubSeq(waiting, 1, 0)
    BY <1>1, <2>1 DEF Halt
  <2> QED
    BY <2>1, <2>2, SubSeqEmpty
<1> QED
  BY <1>1, <1>2, <1>3, NoLocalsType DEF ShellInv, Labels

LEMMA BeginTyped ==
  ASSUME ShellInv, NEW label \in Labels \ {"shell"}, NEW name, 
         NEW next \in Labels \ {"shell", "grep_line"}, Begin(label, name, next)
  PROVE  ShellInv'
<1>1. /\ pc = label /\ Open(name) /\ Same
      /\ \/ result'.ret = -1 /\ Exit(2) /\ UNCHANGED local
         \/ /\ result'.ret # -1 /\ Goto(next)
            /\ local' = [local EXCEPT !.fd = result'.ret]
  BY DEF Begin
<1>2. TypeInv' /\ Copied' /\ UNCHANGED waiting
  BY <1>1, OpenGives DEF ShellInv
<1>3. result'.ret \in Int
  BY <1>2 DEF TypeInv
<1>4. local' \in Locals
  BY <1>1, <1>3 DEF ShellInv, Locals
<1> QED
  BY <1>1, <1>2, <1>4 DEF ShellInv, Exit, Goto, Same, Labels

LEMMA CatReadTyped ==
  ASSUME ShellInv, CatRead
  PROVE  ShellInv'
<1>1. /\ pc = "cat_read" /\ Read(local.fd, BUFSIZE) /\ Same /\ UNCHANGED local
      /\ Exit(0) \/ Exit(3) \/ Goto("cat_read")
  BY DEF CatRead
<1>2. local.fd \in Int /\ BUFSIZE \in Nat
  BY UtilitiesAssumption DEF ShellInv, Locals
<1>3. TypeInv' /\ Copied' /\ UNCHANGED waiting
  BY <1>1, <1>2, ReadGives, HeaderKept DEF ShellInv
<1> QED
  BY <1>1, <1>3 DEF ShellInv, Exit, Goto, Same, Labels

LEMMA LsReadTyped ==
  ASSUME ShellInv, LsRead
  PROVE  ShellInv'
<1>1. /\ pc = "ls_read" /\ Read(local.fd, SBUFSIZE - 1) /\ Same /\ UNCHANGED local
      /\ Exit(0) \/ Exit(3) \/ Goto("ls_read")
  BY DEF LsRead
<1>2. local.fd \in Int /\ SBUFSIZE - 1 \in Nat
  BY UtilitiesAssumption DEF ShellInv, Locals
<1>3. TypeInv' /\ Copied' /\ UNCHANGED waiting
  BY <1>1, <1>2, ReadGives, HeaderKept DEF ShellInv
<1> QED
  BY <1>1, <1>3 DEF ShellInv, Exit, Goto, Same, Labels

LEMMA GrepEntryTyped ==
  ASSUME ShellInv, GrepEntry
  PROVE  ShellInv'
<1>1. /\ pc = "grep_entry" /\ Read(local.fd, SBUFSIZE - 1) /\ Same
      /\ \/ (Exit(0) \/ Exit(3)) /\ UNCHANGED local
         \/ /\ result'.ret # -1
            /\ local' = [local EXCEPT !.fname = Delivered(local.fd)]
            /\ Goto("grep_entry") \/ Goto("grep_open")
  BY DEF GrepEntry
<1>2. local.fd \in Int /\ SBUFSIZE - 1 \in Nat
  BY UtilitiesAssumption DEF ShellInv, Locals
<1>3. /\ TypeInv' /\ Copied' /\ UNCHANGED waiting
      /\ result'.ret # -1 => Delivered(local.fd) \in Seq(Byte)
  BY <1>1, <1>2, ReadGives, HeaderKept DEF ShellInv
<1>4. local' \in Locals
  BY <1>1, <1>3 DEF ShellInv, Locals
<1> QED
  BY <1>1, <1>3, <1>4 DEF ShellInv, Exit, Goto, Same, Labels

LEMMA GrepOpenTyped ==
  ASSUME ShellInv, GrepOpen
  PROVE  ShellInv'
<1>1. /\ pc = "grep_open" /\ Open(local.fname) /\ Same
      /\ \/ Exit(3) /\ UNCHANGED local
         \/ /\ Goto("grep_read")
            /\ local' = [local EXCEPT !.file = result'.ret, !.last = 0,
                                      !.data = NoLocals.data]
  BY DEF GrepOpen
<1>2. TypeInv' /\ Copied' /\ UNCHANGED waiting
  BY <1>1, OpenGives DEF ShellInv
<1>3. result'.ret \in Int
  BY <1>2 DEF TypeInv
<1>4. NoLocals.data \in [0..BUFSIZE -> Byte \cup {Junk}] /\ 0 \in 0..BUFSIZE
  BY NoLocalsType, UtilitiesAssumption DEF Locals
<1>5. local' \in Locals
  BY <1>1, <1>3, <1>4 DEF ShellInv, Locals
<1> QED
  BY <1>1, <1>2, <1>5 DEF ShellInv, Exit, Goto, Same, Labels

LEMMA GrepReadTyped ==
  ASSUME ShellInv, GrepRead
  PROVE  ShellInv'
<1> DEFINE new == Delivered(local.file)
           last == local.last
           data == [b \in 0..BUFSIZE |-> IF b - last + 1 \in DOMAIN new
                                         THEN new[b - last + 1] ELSE local.data[b]]
<1>1. /\ pc = "grep_read" /\ Read(local.file, BUFSIZE - last) /\ Same
      /\ \/ result'.ret = -1 /\ Exit(3) /\ UNCHANGED local
         \/ /\ result'.ret # -1 /\ Goto("grep_line")
            /\ local' = [local EXCEPT !.cnt = Len(new), !.last = last + Len(new),
                                      !.line_start = 0, !.data = data]
  BY DEF GrepRead
<1>2. local.file \in Int /\ BUFSIZE - last \in Nat /\ last \in 0..BUFSIZE /\ BUFSIZE \in Nat
  BY UtilitiesAssumption DEF ShellInv, Locals
<1>3. /\ TypeInv' /\ Copied' /\ UNCHANGED waiting
      /\ result'.ret # -1 => /\ new \in Seq(Byte) /\ Len(new) \in Nat
                             /\ Len(new) <= BUFSIZE - last
  BY <1>1, <1>2, ReadGives, HeaderKept DEF ShellInv
<1>4. CASE result'.ret = -1
  BY <1>1, <1>3, <1>4 DEF ShellInv, Exit, Goto, Same, Labels
<1>5. CASE result'.ret # -1
  <2> HIDE DEF new, last
  <2>1. data \in [0..BUFSIZE -> Byte \cup {Junk}]
    <3>1. \A j \in DOMAIN new : new[j] \in Byte
      BY <1>3, <1>5
    <3>2. \A b \in 0..BUFSIZE : local.data[b] \in Byte \cup {Junk}
      BY DEF ShellInv, Locals
    <3> QED
      BY <3>1, <3>2
  <2>2. last + Len(new) \in 0..BUFSIZE /\ 0 \in 0..BUFSIZE /\ 0 <= last + Len(new)
    BY <1>2, <1>3, <1>5
  <2> HIDE DEF data
  <2>3. /\ local' = [local EXCEPT !.cnt = Len(new), !.last = last + Len(new),
                                  !.line_start = 0, !.data = data]
        /\ pc' = "grep_line" /\ UNCHANGED <<rval, text, command>>
    BY <1>1, <1>5 DEF Goto, Same
  <2>4. local' \in Locals
    BY <1>3, <1>5, <2>1, <2>2, <2>3 DEF ShellInv, Locals
  <2>5. local'.line_start <= local'.last
    BY <2>2, <2>3 DEF ShellInv, Locals
  <2> QED
    BY <1>1, <1>3, <2>3, <2>4, <2>5 DEF ShellInv, Labels
<1> QED
  BY <1>4, <1>5

LEMMA GrepLineTyped ==
  ASSUME ShellInv, GrepLine
  PROVE  ShellInv'
<1>1. /\ pc = "grep_line" /\ UNCHANGED files /\ Same
      /\ \/ local.line_start # 0 /\ KeepRest
         \/ NextLine
  BY DEF GrepLine
<1>2. local \in Locals /\ local.line_start <= local.last /\ BUFSIZE \in Nat
  BY <1>1, UtilitiesAssumption DEF ShellInv
<1>3. TypeInv' /\ Copied' /\ UNCHANGED waiting
  BY <1>1, HeaderKept DEF files, ShellInv, TypeInv
<1>4. LineEnd \in local.line_start..local.last /\ LineEnd \in 0..BUFSIZE
  BY <1>2, LineEndIs
<1>5. Ended \in Buffers /\ Ended[LineEnd] = 0
  BY <1>2, EndedIs
<1>6. CASE KeepRest
  <2> DEFINE rest == String(Ended, local.line_start)
             data == [b \in 0..BUFSIZE |->
                        IF b < Len(rest) THEN rest[b + 1]
                        ELSE IF b = Len(rest) THEN 0 ELSE Ended[b]]
  <2>1. /\ pc' = "grep_read" /\ UNCHANGED rval
        /\ local' = [local EXCEPT !.last = local.last - local.line_start, !.data = data]
    BY <1>6 DEF KeepRest, Goto
  <2>2. local.line_start \in 0..BUFSIZE /\ local.last \in 0..BUFSIZE
    BY <1>2 DEF Locals
  <2>3. rest \in Seq(Chars) /\ Len(rest) \in Nat
    <3>1. LineEnd \in local.line_start..BUFSIZE
      BY <1>2, <1>4, <2>2
    <3>2. rest \in Seq(Chars)
      BY <1>5, <2>2, <3>1, StringIs
    <3> QED
      BY <3>2
  <2>4. data \in [0..BUFSIZE -> Byte \cup {Junk}]
    <3> HIDE DEF rest
    <3>1. \A b \in 0..BUFSIZE : b < Len(rest) => rest[b + 1] \in Chars
      BY <1>2, <2>3
    <3>2. 0 \in Chars
      BY DEF Chars, Byte
    <3> QED
      BY <1>5, <3>1, <3>2 DEF Buffers, Chars
  <2> HIDE DEF data
  <2>5. local.last - local.line_start \in 0..BUFSIZE
    BY <1>2, <2>2
  <2>6. local' \in Locals
    BY <1>2, <2>1, <2>4, <2>5 DEF Locals
  <2> QED
    BY <1>1, <1>3, <2>1, <2>6 DEF ShellInv, Same, Labels
<1>7. CASE NextLine
  <2>1. /\ UNCHANGED rval
        /\ \/ /\ LineEnd + 1 < local.last /\ pc' = "grep_line"
              /\ local' = [local EXCEPT !.data = Ended, !.line_start = LineEnd + 1]
           \/ /\ pc' \in {"grep_close", "grep_read"}
              /\ local' = [local EXCEPT !.data = Ended, !.last = 0]
    BY <1>7 DEF NextLine, Goto
  <2>2. Ended \in [0..BUFSIZE -> Byte \cup {Junk}] /\ 0 \in 0..BUFSIZE
        /\ local.last \in 0..BUFSIZE
    BY <1>2, <1>5 DEF Buffers, Chars, Locals
  <2>3. LineEnd + 1 < local.last => LineEnd + 1 \in 0..BUFSIZE
    BY <1>2, <1>4, <2>2
  <2>4. local' \in Locals
    BY <1>2, <2>1, <2>2, <2>3 DEF Locals
  <2>5. ASSUME pc' = "grep_line"
        PROVE  local'.line_start <= local'.last
    <3>1. /\ LineEnd + 1 < local.last
          /\ local' = [local EXCEPT !.data = Ended, !.line_start = LineEnd + 1]
      BY <2>1, <2>5
    <3>2. local'.line_start = LineEnd + 1 /\ local'.last = local.last
      BY <1>2, <3>1 DEF Locals
    <3>3. LineEnd \in Int /\ local.last \in Int
      BY <1>4, <2>2
    <3> QED
      BY <3>1, <3>2, <3>3
  <2> QED
    BY <1>1, <1>3, <2>1, <2>4, <2>5 DEF ShellInv, Same, Labels
<1> QED
  BY <1>1, <1>6, <1>7

LEMMA GrepCloseTyped ==
  ASSUME ShellInv, GrepClose
  PROVE  ShellInv'
<1>1. /\ pc = "grep_close" /\ Close(local.file) /\ Same /\ UNCHANGED local
      /\ Exit(3) \/ Goto("grep_entry")
  BY DEF GrepClose
<1>2. TypeInv' /\ Copied' /\ UNCHANGED waiting
  BY <1>1, CloseTypeInv, HeaderKept DEF ShellInv, Close, Fail
<1> QED
  BY <1>1, <1>2 DEF ShellInv, Exit, Goto, Same, Labels

LEMMA SyserrCallTyped ==
  ASSUME ShellInv, SyserrCall
  PROVE  ShellInv'
<1> DEFINE test == Script[local.step][1]
           call == Script[local.step][2]
           arg == Script[local.step][3]
<1>1. /\ pc = "syserr" /\ local.step <= Len(Script) /\ Goto("syserr") /\ Same
      /\ SysCall(call, arg)
      /\ local' = [local EXCEPT
           !.step = local.step + 1,
           !.cnt = IF test = 3 /\ result'.ret = -1 THEN local.cnt + 1 ELSE local.cnt,
           !.failed = IF test \notin {0, 3} /\ result'.ret # -1
                      THEN local.failed \cup {test} ELSE local.failed]
  BY DEF SyserrCall
<1>2. /\ test \in Tests
      /\ \/ call = "open" /\ arg \in Seq(Byte)
         \/ call \in {"close", "read", "write"} /\ arg \in Int
  <2>1. local.step \in 1..Len(Script)
    BY <1>1, ScriptCalls DEF ShellInv, Locals
  <2>2. Script[local.step] \in Asked
    BY <2>1, ScriptCalls
  <2> QED
    BY <2>2 DEF Asked
<1> HIDE DEF test, call, arg
<1>3. TypeInv' /\ Copied' /\ UNCHANGED waiting
  <2>1. CASE call = "open"
    BY <1>1, <2>1, OpenGives DEF ShellInv, SysCall
  <2>2. CASE call = "close"
    BY <1>1, <1>2, <2>2, CloseTypeInv, HeaderKept DEF ShellInv, SysCall, Close, Fail
  <2>3. CASE call = "read"
    BY <1>1, <1>2, <2>3, ReadGives, HeaderKept DEF ShellInv, SysCall
  <2>4. CASE call = "write"
    BY <1>1, <1>2, <2>4, WriteTypeInv, HeaderKept DEF ShellInv, SysCall, Write, Fail
  <2> QED
    BY <1>2, <2>1, <2>2, <2>3, <2>4
<1>4. local' \in Locals
  <2>1. /\ local \in Locals /\ local.step + 1 \in Nat \ {0} /\ local.cnt + 1 \in Nat
        /\ local.cnt \in Nat /\ local.failed \in SUBSET (1..8)
    BY DEF ShellInv, Locals
  <2>2. test \notin {0, 3} => local.failed \cup {test} \in SUBSET (1..8)
    BY <1>2, <2>1 DEF Tests
  <2> QED
    BY <1>1, <2>1, <2>2 DEF Locals
<1> QED
  BY <1>1, <1>3, <1>4 DEF ShellInv, Goto, Same, Labels

LEMMA SyserrEndTyped ==
  ASSUME ShellInv, SyserrEnd
  PROVE  ShellInv'
<1> DEFINE wrong == local.failed \cup {t \in {3} : Ran(3) /\ local.cnt # 1}
<1>1. /\ pc = "syserr" /\ UNCHANGED files /\ Same /\ UNCHANGED local
      /\ pc' = "exit" /\ rval' = 2 * Cardinality(wrong)
  BY DEF SyserrEnd, Exit
<1>2. rval' \in Nat
  <2>1. wrong \subseteq 1..8
    BY DEF ShellInv, Locals
  <2>2. IsFiniteSet(1..8)
    <3>1. 1 \in Int /\ 8 \in Int
      OBVIOUS
    <3> QED
      BY <3>1, FS_Interval
  <2> HIDE DEF wrong
  <2>3. Cardinality(wrong) \in Nat
    BY <2>1, <2>2, FS_Subset, FS_CardinalityType
  <2> QED
    BY <1>1, <2>3
<1>3. TypeInv' /\ Copied' /\ UNCHANGED waiting
  BY <1>1, HeaderKept DEF files, ShellInv, TypeInv
<1> QED
  BY <1>1, <1>2, <1>3 DEF ShellInv, Same, Labels

LEMMA StutterTyped ==
  ASSUME ShellInv, UNCHANGED shellVars
  PROVE  ShellInv'
<1>1. UNCHANGED <<header, filed_array, waiting, result, text, command, pc, local, rval>>
  BY DEF shellVars, files
<1>2. TypeInv' /\ Copied'
  BY <1>1, HeaderKept DEF ShellInv, TypeInv
<1> QED
  BY <1>1, <1>2 DEF ShellInv

LEMMA StepShellInv == ShellInv /\ [ShellNext]_shellVars => ShellInv'
<1> SUFFICES ASSUME ShellInv, [ShellNext]_shellVars PROVE ShellInv'
  OBVIOUS
<1>1. ASSUME CatOpen \/ LsOpen \/ GrepStart PROVE ShellInv'
  BY <1>1, BeginTyped DEF CatOpen, LsOpen, GrepStart, Labels
<1> QED
  BY <1>1, TypeTyped, FinishTyped, CatReadTyped, LsReadTyped, GrepEntryTyped, GrepOpenTyped,
     GrepReadTyped, GrepLineTyped, GrepCloseTyped, SyserrCallTyped, SyserrEndTyped,
     StutterTyped DEF ShellNext, Program

\* Whatever is typed, the programs keep within their buffers: a line of grep
\* ends inside its buffer, and only a program that runs has a caller waiting
\* (do_one_file() of ece391grep.c, ece391cat.c, ece391ls.c, ece391syserr.c).
THEOREM ProgramsKeepTypes == ShellSpec => []ProgramsTyped
<1>1. ShellInv => ProgramsTyped
  <2> SUFFICES ASSUME ShellInv PROVE ProgramsTyped
    OBVIOUS
  <2>1. TypeOK
    BY TypeInvIsTyped DEF ShellInv
  <2>2. waiting \in Seq(Arrays)
    BY DEF ShellInv, TypeInv
  <2>3. waiting = <<>> <=> Len(waiting) = 0
    BY <2>2, EmptySeq
  <2> QED
    BY <2>1, <2>3 DEF ShellInv, ProgramsTyped
<1> QED
  BY <1>1, InitShellInv, StepShellInv, PTL DEF ShellSpec

------------------------------------------------------------------------------
(* Pieces of sequences                                                     *)

LEMMA JoinPieces ==
  ASSUME NEW S, NEW s \in Seq(S), NEW p \in Nat, NEW m \in Nat, p + m <= Len(s)
  PROVE  SubSeq(s, 1, p) \o SubSeq(s, p + 1, p + m) = SubSeq(s, 1, p + m)
<1> DEFINE a == SubSeq(s, 1, p)
           b == SubSeq(s, p + 1, p + m)
           c == SubSeq(s, 1, p + m)
<1>1. Len(s) \in Nat /\ p <= Len(s) /\ p + m \in Nat
  OBVIOUS
<1>2. a \in Seq(S) /\ Len(a) = p /\ \A j \in 1..p : a[j] = s[j]
  <2>1. \A j \in 1..p : SubSeq(s, 0 + 1, 0 + p)[j] = s[0 + j]
    BY <1>1, PieceAt
  <2> QED
    BY <1>1, <2>1, Prefix
<1>3. c \in Seq(S) /\ Len(c) = p + m /\ \A j \in 1..(p + m) : c[j] = s[j]
  <2>1. \A j \in 1..(p + m) : SubSeq(s, 0 + 1, 0 + (p + m))[j] = s[0 + j]
    BY <1>1, PieceAt
  <2> QED
    BY <1>1, <2>1, Prefix
<1>4. b \in Seq(S) /\ Len(b) = m /\ \A j \in 1..m : b[j] = s[p + j]
  <2>1. \A j \in 1..m : b[j] = s[p + j]
    BY PieceAt
  <2>2. \A i \in (p + 1)..(p + m) : s[i] \in S
    BY <1>1
  <2>3. b \in Seq(S) /\ Len(b) = IF p + 1 <= p + m THEN (p + m) - (p + 1) + 1 ELSE 0
    BY <2>2, SubSeqProperties
  <2>4. (IF p + 1 <= p + m THEN (p + m) - (p + 1) + 1 ELSE 0) = m
    OBVIOUS
  <2> HIDE DEF b
  <2> QED
    BY <2>1, <2>3, <2>4
<1> HIDE DEF a, b, c
<1>5. a \o b \in Seq(S) /\ Len(a \o b) = p + m
  BY <1>2, <1>4, ConcatProperties
<1>6. ASSUME NEW j \in 1..(p + m)
      PROVE  (a \o b)[j] = c[j]
  <2>1. (a \o b)[j] = IF j <= p THEN a[j] ELSE b[j - p]
    BY <1>2, <1>4, ConcatProperties
  <2>2. CASE j <= p
    BY <2>1, <2>2, <1>2, <1>3
  <2>3. CASE ~(j <= p)
    <3>1. j - p \in 1..m /\ p + (j - p) = j
      BY <2>3
    <3> QED
      BY <2>1, <2>3, <3>1, <1>3, <1>4
  <2> QED
    BY <2>2, <2>3
<1>7. a \o b = c
  BY <1>3, <1>5, <1>6, SeqEqual
<1> QED
  BY <1>7 DEF a, b, c

LEMMA WholeSeq ==
  ASSUME NEW S, NEW s \in Seq(S)
  PROVE  SubSeq(s, 1, Len(s)) = s
<1>1. Len(s) \in Nat /\ \A i \in 1..Len(s) : s[i] \in S
  BY LenProperties
<1>2. SubSeq(s, 1, Len(s)) \in Seq(S) /\ Len(SubSeq(s, 1, Len(s))) = Len(s)
  BY <1>1, Prefix
<1>3. \A i \in 1..(Len(s) - 1 + 1) : SubSeq(s, 1, Len(s))[i] = s[1 + i - 1]
  BY <1>1, SubSeqProperties
<1>4. \A i \in 1..Len(s) : SubSeq(s, 1, Len(s))[i] = s[i]
  BY <1>1, <1>3
<1> QED
  BY <1>1, <1>2, <1>4, SeqEqual

LEMMA OneMore ==
  ASSUME NEW S, NEW s \in Seq(S), NEW p \in Nat, p < Len(s)
  PROVE  SubSeq(s, 1, p + 1) = Append(SubSeq(s, 1, p), s[p + 1])
<1>1. p + 1 \in Nat /\ p + 1 <= Len(s) /\ p + 1 \in 1..Len(s) /\ p <= Len(s)
  BY LenProperties
<1>2. SubSeq(s, 1, p) \o SubSeq(s, p + 1, p + 1) = SubSeq(s, 1, p + 1)
  BY <1>1, JoinPieces
<1>3. SubSeq(s, p + 1, p + 1) = <<s[p + 1]>>
  <2>1. \A i \in (p + 1)..(p + 1) : s[i] \in S
    BY <1>1
  <2>2. /\ SubSeq(s, p + 1, p + 1) \in Seq(S)
        /\ Len(SubSeq(s, p + 1, p + 1)) = IF p + 1 <= p + 1 THEN (p + 1) - (p + 1) + 1 ELSE 0
        /\ \A i \in 1..((p + 1) - (p + 1) + 1) : SubSeq(s, p + 1, p + 1)[i] = s[(p + 1) + i - 1]
    BY <2>1, SubSeqProperties
  <2>3. (p + 1) - (p + 1) + 1 = 1 /\ (p + 1) + 1 - 1 = p + 1
    OBVIOUS
  <2> DEFINE x == SubSeq(s, p + 1, p + 1)
  <2>4. x \in Seq(S) /\ Len(x) = 1 /\ x[1] = s[p + 1]
    <3>1. 1 \in 1..((p + 1) - (p + 1) + 1) /\ p + 1 <= p + 1
      BY <2>3
    <3>2. x \in Seq(S) /\ Len(x) = (p + 1) - (p + 1) + 1 /\ x[1] = s[(p + 1) + 1 - 1]
      BY <2>2, <3>1
    <3> HIDE DEF x
    <3> QED
      BY <2>3, <3>2
  <2> HIDE DEF x
  <2>5. x = <<x[1]>>
    BY <2>4
  <2> QED
    BY <2>4, <2>5 DEF x
<1>4. SubSeq(s, 1, p) \in Seq(S)
  BY <1>1, Prefix
<1>5. s[p + 1] \in S
  BY <1>1

<1> QED
  BY <1>2, <1>3, <1>4, <1>5

------------------------------------------------------------------------------
(* FlattenSeq, which joins the sequences of a sequence                     *)

\* f joins the first n of them.
Joins(f, s, n) == f = [i \in 1..n |-> IF i = 1 THEN s[i] ELSE f[i - 1] \o s[i]]

LEMMA JoinsExists ==
  ASSUME NEW s, NEW m \in Nat \ {0}
  PROVE  \E f : Joins(f, s, m)
<1> DEFINE T == {n \in 1..m : \E f : Joins(f, s, n)}
<1>1. 1 \in T
  <2>1. Joins([i \in 1..1 |-> s[i]], s, 1)
    BY DEF Joins
  <2> QED
    BY <2>1
<1>2. ASSUME NEW n \in 1..(m - 1), n \in T
      PROVE  n + 1 \in T
  <2>1. PICK f : Joins(f, s, n)
    BY <1>2
  <2> DEFINE g == [i \in 1..(n + 1) |-> IF i = n + 1 THEN f[n] \o s[n + 1] ELSE f[i]]
  <2>2. ASSUME NEW i \in 1..(n + 1)
        PROVE  g[i] = IF i = 1 THEN s[i] ELSE g[i - 1] \o s[i]
    <3>1. CASE i = n + 1
      <4>1. i # 1 /\ i - 1 = n /\ n \in 1..(n + 1) /\ n # n + 1
        BY <3>1
      <4> QED
        BY <3>1, <4>1
    <3>2. CASE i # n + 1
      <4>1. i \in 1..n /\ (i # 1 => i - 1 \in 1..(n + 1) /\ i - 1 # n + 1)
        BY <3>2
      <4>2. f[i] = IF i = 1 THEN s[i] ELSE f[i - 1] \o s[i]
        BY <2>1, <4>1 DEF Joins
      <4> QED
        BY <3>2, <4>1, <4>2
    <3> QED
      BY <3>1, <3>2
  <2>3. g = [i \in 1..(n + 1) |-> g[i]]
    OBVIOUS
  <2> HIDE DEF g
  <2>4. Joins(g, s, n + 1)
    BY <2>2, <2>3 DEF Joins
  <2> QED
    BY <2>4
<1>3. 1..m \subseteq T
  <2> HIDE DEF T
  <2> QED
    BY <1>1, <1>2, InductionWithin
<1> QED
  BY <1>3

LEMMA JoinsAgree ==
  ASSUME NEW f, NEW g, NEW s, NEW t, NEW n \in Nat, NEW m \in Nat, n <= m,
         Joins(f, s, n), Joins(g, t, m), \A i \in 1..n : s[i] = t[i]
  PROVE  \A i \in 1..n : f[i] = g[i]
<1> DEFINE T == {i \in 1..n : f[i] = g[i]}
<1>1. 1 <= n => 1 \in T
  BY DEF Joins
<1>2. ASSUME NEW i \in 1..(n - 1), i \in T
      PROVE  i + 1 \in T
  <2>1. i + 1 \in 1..n /\ i + 1 \in 1..m /\ i + 1 # 1 /\ (i + 1) - 1 = i
    OBVIOUS
  <2>2. f[i + 1] = f[i] \o s[i + 1] /\ g[i + 1] = g[i] \o t[i + 1]
    BY <2>1 DEF Joins
  <2> QED
    BY <1>2, <2>1, <2>2
<1>3. 1..n \subseteq T
  <2> HIDE DEF T
  <2> QED
    BY <1>1, <1>2, InductionWithin
<1> QED
  BY <1>3

LEMMA FlattenIs ==
  ASSUME NEW s, Len(s) \in Nat \ {0}
  PROVE  \E f : Joins(f, s, Len(s)) /\ FlattenSeq(s) = f[Len(s)]
<1> DEFINE f == CHOOSE flatten : flatten = [i \in 1..Len(s) |->
                  IF i = 1 THEN s[i] ELSE flatten[i - 1] \o s[i]]
<1>1. \E flatten : flatten = [i \in 1..Len(s) |->
                     IF i = 1 THEN s[i] ELSE flatten[i - 1] \o s[i]]
  BY JoinsExists DEF Joins
<1>2. Joins(f, s, Len(s))
  BY <1>1 DEF Joins
<1>3. FlattenSeq(s) = f[Len(s)]
  BY DEF FlattenSeq
<1> QED
  BY <1>2, <1>3

LEMMA FlattenAppend ==
  ASSUME NEW S, NEW s \in Seq(Seq(S)), NEW e \in Seq(S)
  PROVE  FlattenSeq(Append(s, e)) = FlattenSeq(s) \o e
<1> DEFINE t == Append(s, e)
           n == Len(s)
<1>1. n \in Nat /\ Len(t) = n + 1 /\ t[n + 1] = e /\ \A i \in 1..n : t[i] = s[i]
  OBVIOUS
<1> HIDE DEF t
<1>2. PICK g : Joins(g, t, n + 1) /\ FlattenSeq(t) = g[n + 1]
  BY <1>1, FlattenIs
<1>3. CASE n = 0
  <2>1. s = <<>> /\ FlattenSeq(s) = <<>>
    BY <1>3, EmptySeq DEF FlattenSeq
  <2>2. g[1] = t[1]
    BY <1>2, <1>3 DEF Joins
  <2>3. t[1] = e /\ <<>> \o e = e
    BY <1>1, <1>3
  <2> QED
    BY <1>2, <1>3, <2>1, <2>2, <2>3 DEF t
<1>4. CASE n # 0
  <2>1. PICK f : Joins(f, s, n) /\ FlattenSeq(s) = f[n]
    BY <1>1, <1>4, FlattenIs
  <2> HIDE DEF n
  <2>2. n + 1 \in Nat /\ n <= n + 1 /\ n \in 1..n /\ n + 1 \in 1..(n + 1)
        /\ n + 1 # 1 /\ (n + 1) - 1 = n
    BY <1>1, <1>4
  <2>3. f[n] = g[n]
    BY <1>1, <1>2, <2>1, <2>2, JoinsAgree
  <2>4. g[n + 1] = g[n] \o t[n + 1]
    BY <1>2, <2>2 DEF Joins
  <2> QED
    BY <1>1, <1>2, <2>1, <2>3, <2>4 DEF t
<1> QED
  BY <1>3, <1>4

------------------------------------------------------------------------------
(* What cat and ls read                                                    *)

\* The characters of a file in an image with text t.
CharsOf(t, inode) == [j \in 1..Inodes[inode].file_length |-> t[Whole(inode)[j]]]

LEMMA CharsType ==
  ASSUME text \in Texts, NEW inode \in DOMAIN Inodes
  PROVE  /\ CharsOf(text, inode) \in Seq(Byte)
         /\ Len(CharsOf(text, inode)) = Inodes[inode].file_length
         /\ Inodes[inode].file_length \in Nat
<1>1. Inodes[inode].file_length \in Nat
  BY WholeType
<1>2. CharsOf(text, inode) \in [1..Inodes[inode].file_length -> Byte]
  BY TextOf DEF CharsOf
<1> QED
  BY <1>1, <1>2, SequenceOf

LEMMA ContentIs ==
  ASSUME NEW inode \in DOMAIN Inodes
  PROVE  Content(inode) = CharsOf(text, inode)
<1> DEFINE B == DATA_BLOCK_SIZE
           len == Inodes[inode].file_length
<1>1. B \in Nat \ {0}
  BY FileSystemAssumption
<1>2. len \in Nat
  BY WholeType
<1>3. ASSUME NEW j \in 1..len
      PROVE  Block(Inodes[inode].data_blocks[(j - 1) \div B])[((j - 1) % B) + 1] = Whole(inode)[j]
  <2> DEFINE id == Inodes[inode].data_blocks[(j - 1) \div B]
             r == (j - 1) % B
  <2>1. j - 1 \in 0..(len - 1)
    BY <1>2
  <2>2. id \in Nat
    BY <2>1, FileSystemAssumption
  <2>3. r \in Nat /\ r < B
    BY <1>1, <2>1, Division
  <2> HIDE DEF id, r, B
  <2>4. r + 1 \in 1..B
    BY <1>1, <2>3
  <2>5. Block(id)[r + 1] = id * B + (r + 1) - 1
    BY <2>4 DEF Block, B
  <2>6. id * B \in Nat
    BY <1>1, <2>2
  <2>7. Block(id)[r + 1] = id * B + r
    <3> DEFINE x == id * B
    <3>1. Block(id)[r + 1] = x + (r + 1) - 1 /\ x \in Nat
      BY <2>5, <2>6
    <3> HIDE DEF x
    <3>2. Block(id)[r + 1] = x + r
      BY <2>3, <3>1
    <3> QED
      BY <3>2 DEF x
  <2>8. Whole(inode)[j] = id * B + r
    BY DEF Whole, id, r, B
  <2> QED
    BY <2>7, <2>8 DEF id, r, B
<1> QED
  BY <1>3 DEF Content, CharsOf

\* A read of a file gives the characters at its position, and none only at its end.
LEMMA FileReadGives ==
  ASSUME TypeInv, text \in Texts, NEW fd \in Fds, NEW n \in Nat \ {0},
         FileRead(fd, n), result'.ret # -1
  PROVE  LET inode == filed_array[fd].inode
             p == filed_array[fd].position
             r == result'.ret
         IN  /\ inode \in DOMAIN Inodes /\ p \in Nat /\ r \in Nat
             /\ p + r <= Inodes[inode].file_length
             /\ r <= n /\ (r < n => p + r = Inodes[inode].file_length)
             /\ r = 0 => p = Inodes[inode].file_length
             /\ Delivered(fd) = SubSeq(CharsOf(text, inode), p + 1, p + r)
             /\ filed_array' = [filed_array EXCEPT ![fd].position = p + r]
<1> DEFINE inode == filed_array[fd].inode
           p == filed_array[fd].position
           len == Inodes[inode].file_length
           data == ReadData(inode, p, n)
           m == Least(n, len - p)
<1>1. filed_array[fd].type = "file" /\ ~Refuses(inode, p)
      /\ Deliver(fd, n, Len(data), data, Len(data))
  BY DEF FileRead, Deliver, Return
<1>2. inode \in DOMAIN Inodes /\ p \in Int
  BY <1>1 DEF TypeInv, Arrays, Entries, Descriptor
<1>3. p \in 0..len /\ len \in Nat
  BY <1>1, <1>2, WholeType DEF Refuses
<1>4. m \in Nat /\ data \in Seq(Nat) /\ Len(data) = m /\ data = SubSeq(Whole(inode), p + 1, p + m)
  BY <1>2, <1>3, ReadDataIs
<1>5. m \in {n, len - p} /\ m <= len - p /\ m <= n
  BY <1>3, LeastIs
<1>6. /\ result'.ret = m /\ result'.data = data
      /\ filed_array' = [filed_array EXCEPT ![fd].position = p + m]
  BY <1>1, <1>4 DEF Deliver, Return
<1> HIDE DEF m, data, p, len
<1>7. /\ p \in Nat /\ p + m <= len /\ (m = 0 => p = len)
      /\ m <= n /\ (m < n => p + m = len)
  BY <1>3, <1>4, <1>5
<1> HIDE DEF inode
<1>8. /\ Whole(inode) \in Seq(Nat) /\ Len(Whole(inode)) = len
      /\ CharsOf(text, inode) \in Seq(Byte) /\ Len(CharsOf(text, inode)) = len
  BY <1>2, WholeType, CharsType DEF len
<1> DEFINE piece == SubSeq(CharsOf(text, inode), p + 1, p + m)
<1>9. ASSUME NEW j \in 1..m
      PROVE  text[data[j]] = piece[j]
  <2>1. p + j \in 1..len
    BY <1>4, <1>7, <1>3
  <2>2. SubSeq(Whole(inode), p + 1, p + m)[j] = Whole(inode)[p + j]
    BY <1>4, <1>7, <1>8, PieceAt
  <2>3. piece[j] = CharsOf(text, inode)[p + j]
    BY <1>4, <1>7, <1>8, PieceAt
  <2>4. CharsOf(text, inode)[p + j] = text[Whole(inode)[p + j]]
    BY <2>1 DEF CharsOf, len
  <2> QED
    BY <1>4, <2>2, <2>3, <2>4
<1>10. piece \in Seq(Byte) /\ Len(piece) = m
  <2>1. \A i \in (p + 1)..(p + m) : CharsOf(text, inode)[i] \in Byte
    BY <1>4, <1>7, <1>8
  <2>2. piece \in Seq(Byte) /\ Len(piece) = IF p + 1 <= p + m THEN (p + m) - (p + 1) + 1 ELSE 0
    BY <1>4, <1>7, <2>1, SubSeqProperties
  <2>3. (IF p + 1 <= p + m THEN (p + m) - (p + 1) + 1 ELSE 0) = m
    BY <1>4, <1>7
  <2> QED
    BY <2>2, <2>3
<1> HIDE DEF piece
<1>11. Delivered(fd) = [j \in 1..m |-> text[data[j]]]
  BY <1>1, <1>4, <1>6 DEF Delivered
<1>12. Delivered(fd) = piece
  <2>1. piece = [j \in 1..m |-> piece[j]]
    BY <1>10
  <2> QED
    BY <1>9, <1>11, <2>1
<1> QED
  BY <1>2, <1>4, <1>6, <1>7, <1>12 DEF inode, p, len, piece

\* A read of the directory gives the name at its position, and none only at its end.
LEMMA NameReadGives ==
  ASSUME TypeInv, NEW fd \in Fds, NEW n \in Nat \ {0}, DirectoryRead(fd, n)
  PROVE  LET p == filed_array[fd].position
         IN  /\ p \in Nat
             /\ p < Len(Dentries) => result'.ret # 0 /\ Delivered(fd) = AllNames(n)[p + 1]
             /\ ~(p < Len(Dentries)) => result'.ret = 0
             /\ filed_array' = [filed_array EXCEPT ![fd].position = p + 1]
<1> DEFINE p == filed_array[fd].position
           name == NameAt(p)
           m == Least(n, Len(Cut(name)))
           data == memcpy(name, 0, m)
<1>1. filed_array[fd].type = "dir" /\ Deliver(fd, n, Len(data), data, 1)
  BY DEF DirectoryRead
<1>2. p \in Nat
  BY <1>1 DEF TypeInv, Arrays, Entries
<1>3. m \in Nat /\ m <= Len(name) /\ Len(data) = m /\ Cut(name) \in Seq(Byte)
  BY <1>2, NameAtType
<1>4. /\ filed_array' = [filed_array EXCEPT ![fd].position = p + 1]
      /\ result'.ret = m /\ Delivered(fd) = data
  BY <1>1, <1>3 DEF Deliver, Return, Delivered
<1> HIDE DEF p
<1>5. ASSUME p < Len(Dentries)
      PROVE  m # 0 /\ data = AllNames(n)[p + 1]
  <2>1. p + 1 \in DOMAIN Dentries
    BY <1>2, <1>5, FileSystemAssumption
  <2>2. name = Dentries[p + 1].file_name
    BY <1>5 DEF NameAt
  <2>3. data = AllNames(n)[p + 1]
    BY <2>1, <2>2 DEF AllNames
  <2>4. Len(Cut(name)) \in Nat \ {0}
    <3>1. Cut(name) = name /\ name # <<>>
      BY <2>1, <2>2, NameFits
    <3>2. Len(Cut(name)) \in Nat /\ Len(Cut(name)) # 0
      BY <1>3, <3>1, EmptySeq
    <3> QED
      BY <3>2
  <2>5. m # 0
    BY <2>4, LeastIs
  <2> QED
    BY <2>3, <2>5
<1>6. ASSUME ~(p < Len(Dentries))
      PROVE  m = 0
  BY <1>3, <1>6 DEF NameAt
<1> QED
  BY <1>2, <1>4, <1>5, <1>6 DEF p

LEMMA NamesRead ==
  ASSUME NEW n \in Nat
  PROVE  /\ AllNames(n) \in Seq(Seq(Byte)) /\ Len(AllNames(n)) = Len(Dentries)
         /\ Len(Dentries) \in Nat
<1>1. Len(Dentries) \in Nat /\ DOMAIN Dentries = 1..Len(Dentries)
  BY FileSystemAssumption
<1>2. ASSUME NEW k \in DOMAIN Dentries
      PROVE  AllNames(n)[k] \in Seq(Byte)
  <2>1. k - 1 \in Nat /\ k - 1 < Len(Dentries) /\ (k - 1) + 1 = k
    BY <1>1
  <2>2. NameAt(k - 1) = Dentries[k].file_name
    BY <2>1 DEF NameAt
  <2>3. memcpy(NameAt(k - 1), 0, Least(n, Len(Cut(NameAt(k - 1))))) \in Seq(Byte)
    BY <2>1, NameAtType
  <2> QED
    BY <2>2, <2>3 DEF AllNames
<1>3. AllNames(n) \in [1..Len(Dentries) -> Seq(Byte)]
  BY <1>1, <1>2 DEF AllNames
<1> QED
  BY <1>1, <1>3, SequenceOf

------------------------------------------------------------------------------
(* What cat and ls show                                                    *)

\* What cat has written of entry k when its descriptor is e.
CatShows(t, e, k, out) ==
  /\ e.type = Dentries[k].file_type
  /\ e.type = "file" => /\ e.inode = Dentries[k].inode_index
                        /\ e.position \in 0..Inodes[e.inode].file_length
                        /\ out = SubSeq(CharsOf(t, e.inode), 1, e.position)
  /\ e.type = "dir" => /\ e.position \in 0..Len(Dentries)
                       /\ out = FlattenSeq(SubSeq(AllNames(BUFSIZE), 1, e.position))
  /\ e.type = "rtc" => out = <<>>

LsShows(e, out) ==
  /\ e.type = "dir" /\ e.position \in 0..Len(Dentries)
  /\ out = SubSeq(AllNames(SBUFSIZE - 1), 1, e.position)

Labelled ==
  /\ pc \in {"cat", "cat_read"} => Main(command.name) = "cat"
  /\ pc \in {"ls", "ls_read"} => Main(command.name) = "ls"
  /\ pc \in {"grep", "grep_entry", "grep_open", "grep_read", "grep_line", "grep_close"}
       => Main(command.name) = "grep"
  /\ pc = "syserr" => Main(command.name) = "syserr"

Shows ==
  /\ pc \in {"shell", "cat", "ls"} => output = <<>>
  /\ pc = "cat_read" => /\ local.fd \in Fds
                        /\ \E k \in First(command.arg) :
                             CatShows(text, filed_array[local.fd], k, output)
  /\ pc = "ls_read" => local.fd \in Fds /\ LsShows(filed_array[local.fd], output)

\* The inductive invariant.
ShowInv == ShellInv /\ Labelled /\ Shows /\ FilesShown

Others == {"grep", "grep_entry", "grep_open", "grep_read", "grep_line", "grep_close", "syserr"}

LEMMA FirstIn == \A name : \A k \in First(name) : k \in DOMAIN Dentries
BY DEF First, Matches

LEMMA TypeShows ==
  ASSUME ShowInv, Type
  PROVE  Labelled' /\ Shows' /\ FilesShown'
<1>1. /\ pc = "shell" /\ UNCHANGED output
      /\ command' \in Typed /\ Execute(command'.name)
      /\ \/ pc' = "shell"
         \/ result'.ret # -1 /\ pc' = Main(command'.name)
  BY DEF Type
<1>2. output' = <<>>
  BY <1>1 DEF ShowInv, Shows
<1>3. CASE pc' = "shell"
  BY <1>2, <1>3 DEF Labelled, Shows, FilesShown
<1>4. CASE result'.ret # -1 /\ pc' = Main(command'.name)
  <2>1. First(command'.name) # {}
    BY <1>1, <1>4, ExecuteGives DEF ShowInv, ShellInv
  <2>2. command'.name \in Known
    BY <1>1, <2>1, UtilitiesAssumption
  <2>3. cat # ls /\ cat # grep /\ cat # syserr /\ ls # grep /\ ls # syserr /\ grep # syserr
    BY DEF cat, ls, grep, syserr
  <2>4. pc' \in {"cat", "ls", "grep", "syserr"}
    BY <1>4, <2>2, <2>3 DEF Main, Known
  <2>5. Labelled'
    <3> HIDE DEF Main
    <3> QED
      BY <1>4, <2>4 DEF Labelled
  <2> QED
    BY <1>2, <2>4, <2>5 DEF Shows, FilesShown
<1> QED
  BY <1>1, <1>3, <1>4

LEMMA FinishShows ==
  ASSUME ShowInv, Finish
  PROVE  Labelled' /\ Shows' /\ FilesShown'
BY DEF Finish, Labelled, Shows, FilesShown

\* The other programs show no file.
LEMMA OthersShow ==
  ASSUME ShowInv, pc \in Others, pc' \in Others \cup {"exit"}, UNCHANGED command,
         Main(command.name) = "grep" => pc' # "syserr",
         Main(command.name) = "syserr" => pc' \in {"syserr", "exit"}
  PROVE  Labelled' /\ Shows' /\ FilesShown'
<1>1. Main(command.name) \in {"grep", "syserr"}
  BY DEF ShowInv, Labelled, Others
<1>2. Labelled'
  BY <1>1 DEF Labelled, Others
<1>3. Shows'
  BY DEF Shows, Others
<1>4. FilesShown'
  BY <1>1 DEF FilesShown
<1> QED
  BY <1>2, <1>3, <1>4

LEMMA CatOpenShows ==
  ASSUME ShowInv, CatOpen
  PROVE  Labelled' /\ Shows' /\ FilesShown'
<1>1. /\ pc = "cat" /\ Open(command.arg) /\ UNCHANGED <<text, command, output>>
      /\ \/ pc' = "exit" /\ rval' = 2
         \/ /\ result'.ret # -1 /\ pc' = "cat_read"
            /\ local' = [local EXCEPT !.fd = result'.ret]
  BY DEF CatOpen, Begin, Exit, Goto, Same
<1>2. Labelled'
  BY <1>1 DEF ShowInv, Labelled
<1>3. CASE pc' = "exit" /\ rval' = 2
  BY <1>2, <1>3 DEF Shows, FilesShown
<1>4. CASE /\ result'.ret # -1 /\ pc' = "cat_read"
           /\ local' = [local EXCEPT !.fd = result'.ret]
  <2>1. PICK k \in First(command.arg) :
          /\ result'.ret \in Fds
          /\ filed_array' = [filed_array EXCEPT ![result'.ret] = OpenEntry(result'.ret, Dentries[k])]
    BY <1>1, <1>4, OpenGives DEF ShowInv, ShellInv, Free
  <2> DEFINE e == OpenEntry(result'.ret, Dentries[k])
  <2>2. local'.fd = result'.ret /\ filed_array'[result'.ret] = e
    BY <1>4, <2>1 DEF ShowInv, ShellInv, Locals, TypeInv, Arrays
  <2>3. k \in DOMAIN Dentries /\ Dentries[k].inode_index \in DOMAIN Inodes
    <3>1. k \in DOMAIN Dentries
      BY FirstIn
    <3>2. Dentries[k] \in Dentry
      BY <3>1, FileSystemAssumption
    <3> QED
      BY <3>1, <3>2 DEF Dentry
  <2>4. output = <<>>
    BY <1>1 DEF ShowInv, Shows
  <2>5. CatShows(text, e, k, output)
    <3>1. e.type = Dentries[k].file_type /\ e.position = 0
          /\ (e.type = "file" => e.inode = Dentries[k].inode_index)
      BY DEF OpenEntry
    <3> HIDE DEF e
    <3>2. \A s : SubSeq(s, 1, 0) = <<>>
      BY SubSeqEmpty
    <3>3. FlattenSeq(<<>>) = <<>>
      BY DEF FlattenSeq
    <3>4. 0 \in 0..Inodes[Dentries[k].inode_index].file_length /\ 0 \in 0..Len(Dentries)
      BY <2>3, WholeType, FileSystemAssumption
    <3> QED
      BY <2>4, <3>1, <3>2, <3>3, <3>4 DEF CatShows
  <2>6. Shows'
    BY <1>1, <1>4, <2>1, <2>2, <2>5 DEF Shows
  <2> QED
    BY <1>2, <1>4, <2>6 DEF FilesShown
<1> QED
  BY <1>1, <1>3, <1>4

LEMMA LsOpenShows ==
  ASSUME ShowInv, LsOpen
  PROVE  Labelled' /\ Shows' /\ FilesShown'
<1>1. /\ pc = "ls" /\ Open(Dot) /\ UNCHANGED <<text, command, output>>
      /\ \/ pc' = "exit" /\ rval' = 2
         \/ /\ result'.ret # -1 /\ pc' = "ls_read"
            /\ local' = [local EXCEPT !.fd = result'.ret]
  BY DEF LsOpen, Begin, Exit, Goto, Same
<1>2. Labelled'
  BY <1>1 DEF ShowInv, Labelled
<1>3. CASE pc' = "exit" /\ rval' = 2
  BY <1>2, <1>3 DEF Shows, FilesShown
<1>4. CASE /\ result'.ret # -1 /\ pc' = "ls_read"
           /\ local' = [local EXCEPT !.fd = result'.ret]
  <2>1. PICK k \in First(Dot) :
          /\ result'.ret \in Fds
          /\ filed_array' = [filed_array EXCEPT ![result'.ret] = OpenEntry(result'.ret, Dentries[k])]
    BY <1>1, <1>4, OpenGives DEF ShowInv, ShellInv, Free
  <2> DEFINE e == OpenEntry(result'.ret, Dentries[k])
  <2>2. local'.fd = result'.ret /\ filed_array'[result'.ret] = e
    BY <1>4, <2>1 DEF ShowInv, ShellInv, Locals, TypeInv, Arrays
  <2>3. Dentries[k].file_type = "dir"
    BY UtilitiesAssumption
  <2>4. output = <<>>
    BY <1>1 DEF ShowInv, Shows
  <2>5. LsShows(e, output)
    <3>1. e.type = "dir" /\ e.position = 0
      BY <2>3 DEF OpenEntry
    <3> HIDE DEF e
    <3>2. \A s : SubSeq(s, 1, 0) = <<>>
      BY SubSeqEmpty
    <3>3. 0 \in 0..Len(Dentries)
      BY FileSystemAssumption
    <3> QED
      BY <2>4, <3>1, <3>2, <3>3 DEF LsShows
  <2>6. Shows'
    BY <1>1, <1>4, <2>1, <2>2, <2>5 DEF Shows
  <2> QED
    BY <1>2, <1>4, <2>6 DEF FilesShown
<1> QED
  BY <1>1, <1>3, <1>4

\* What a read leaves on the descriptor and in the output keeps them matched.
LEMMA CatReadShows ==
  ASSUME ShowInv, CatRead
  PROVE  Labelled' /\ Shows' /\ FilesShown'
<1> DEFINE fd == local.fd
           e == filed_array[fd]
           r == result'.ret
<1>1. /\ pc = "cat_read" /\ Read(fd, BUFSIZE)
      /\ UNCHANGED <<local, text, command>>
      /\ \/ r = 0 /\ pc' = "exit" /\ rval' = 0 /\ output' = output
         \/ r # 0 /\ r = -1 /\ pc' = "exit" /\ rval' = 3
         \/ r # 0 /\ r # -1 /\ pc' = "cat_read" /\ output' = output \o Delivered(fd)
  BY DEF CatRead, Exit, Goto, Same
<1>2. TypeInv /\ text \in Texts /\ BUFSIZE \in Nat \ {0} /\ filed_array \in Arrays
  BY UtilitiesAssumption DEF ShowInv, ShellInv, TypeInv
<1>3. Main(command.name) = "cat" /\ Labelled'
  BY <1>1 DEF ShowInv, Labelled
<1>4. fd \in Fds
  BY <1>1 DEF ShowInv, Shows
<1>5. PICK k \in First(command.arg) : CatShows(text, e, k, output)
  BY <1>1 DEF ShowInv, Shows
<1>6. k \in DOMAIN Dentries
  BY FirstIn
<1>7. CASE r = -1
  <2>1. pc' = "exit" /\ rval' = 3
    BY <1>1, <1>7
  <2> QED
    BY <1>3, <2>1 DEF Shows, FilesShown
<1>8. CASE r # -1
  <2>1. FileRead(fd, BUFSIZE) \/ DirectoryRead(fd, BUFSIZE) \/ RtcRead(fd, BUFSIZE)
    BY <1>1, <1>8 DEF Read, Fail, Return
  \* It is enough that the descriptor and the output still match, and that a
  \* read of nothing comes when all of it is written.
  <2> DEFINE whole == CASE Dentries[k].file_type = "file" -> Content(Dentries[k].inode_index)
                        [] Dentries[k].file_type = "dir" -> FlattenSeq(AllNames(BUFSIZE))
                        [] OTHER -> <<>>
  <2>2. SUFFICES /\ r # 0 => CatShows(text, filed_array'[fd], k, output')
                 /\ r = 0 => output = whole
    <3>1. CASE r = 0
      <4>1. output' = whole' /\ pc' = "exit" /\ command' = command
        BY <1>1, <2>2, <3>1 DEF Content
      <4>2. Main(command.name)' = "cat"
        BY <1>3, <4>1
      <4>3. FilesShown'
        BY <4>1, <4>2 DEF FilesShown
      <4> QED
        BY <1>3, <4>1, <4>3 DEF Shows
    <3>2. CASE r # 0
      <4>1. pc' = "cat_read" /\ text' = text /\ command' = command /\ local' = local
        BY <1>1, <1>8, <3>2
      <4>2. Shows'
        BY <1>4, <2>2, <3>2, <4>1 DEF Shows
      <4> QED
        BY <1>3, <4>1, <4>2 DEF FilesShown
    <3> QED
      BY <3>1, <3>2
  <2>3. r # 0 => output' = output \o Delivered(fd)
    BY <1>1, <1>8
  <2>4. CASE FileRead(fd, BUFSIZE)
    <3> DEFINE p == e.position
               chars == CharsOf(text, e.inode)
    <3>1. /\ e.inode \in DOMAIN Inodes /\ p \in Nat /\ r \in Nat
          /\ p + r <= Inodes[e.inode].file_length
          /\ r = 0 => p = Inodes[e.inode].file_length
          /\ Delivered(fd) = SubSeq(chars, p + 1, p + r)
          /\ filed_array' = [filed_array EXCEPT ![fd].position = p + r]
      BY <1>2, <1>4, <1>8, <2>4, FileReadGives
    <3>2. e.type = "file"
      BY <2>4 DEF FileRead
    <3>3. /\ Dentries[k].file_type = "file" /\ e.inode = Dentries[k].inode_index
          /\ output = SubSeq(chars, 1, p)
      BY <1>5, <3>2 DEF CatShows
    <3>4. chars \in Seq(Byte) /\ Len(chars) = Inodes[e.inode].file_length
          /\ Inodes[e.inode].file_length \in Nat
      BY <1>2, <3>1, CharsType
    <3>5. filed_array'[fd] = [e EXCEPT !.position = p + r]
      BY <1>2, <1>4, <3>1 DEF Arrays
    <3>6. /\ filed_array'[fd].type = "file" /\ filed_array'[fd].inode = e.inode
          /\ filed_array'[fd].position = p + r
      BY <1>2, <1>4, <3>2, <3>5 DEF Arrays, Entries, Descriptor
    <3>7. ASSUME r # 0
          PROVE  CatShows(text, filed_array'[fd], k, output')
      <4>1. output' = SubSeq(chars, 1, p) \o SubSeq(chars, p + 1, p + r)
        BY <2>3, <3>1, <3>3, <3>7
      <4> HIDE DEF chars, p, r
      <4>2. output' = SubSeq(chars, 1, p + r)
        BY <3>1, <3>4, <4>1, JoinPieces
      <4>3. p + r \in 0..Inodes[e.inode].file_length
        BY <3>1, <3>4
      <4> QED
        BY <3>3, <3>6, <4>2, <4>3 DEF CatShows, chars
    <3>8. ASSUME r = 0
          PROVE  output = whole
      <4>1. output = SubSeq(chars, 1, Len(chars))
        BY <3>1, <3>3, <3>4, <3>8
      <4>2. output = chars
        BY <3>4, <4>1, WholeSeq
      <4>3. Content(e.inode) = chars
        BY <3>1, ContentIs
      <4> QED
        BY <3>3, <4>2, <4>3
    <3> QED
      BY <3>7, <3>8
  <2>5. CASE DirectoryRead(fd, BUFSIZE)
    <3> DEFINE p == e.position
               names == AllNames(BUFSIZE)
    <3>1. /\ p \in Nat
          /\ p < Len(Dentries) => r # 0 /\ Delivered(fd) = names[p + 1]
          /\ ~(p < Len(Dentries)) => r = 0
          /\ filed_array' = [filed_array EXCEPT ![fd].position = p + 1]
      BY <1>2, <1>4, <2>5, NameReadGives
    <3>2. e.type = "dir"
      BY <2>5 DEF DirectoryRead
    <3>3. /\ Dentries[k].file_type = "dir" /\ p \in 0..Len(Dentries)
          /\ output = FlattenSeq(SubSeq(names, 1, p))
      BY <1>5, <3>2 DEF CatShows
    <3>4. names \in Seq(Seq(Byte)) /\ Len(names) = Len(Dentries) /\ Len(Dentries) \in Nat
      BY <1>2, NamesRead
    <3>5. filed_array'[fd] = [e EXCEPT !.position = p + 1]
      BY <1>2, <1>4, <3>1 DEF Arrays
    <3>6. filed_array'[fd].type = "dir" /\ filed_array'[fd].position = p + 1
      BY <1>2, <1>4, <3>2, <3>5 DEF Arrays, Entries, Descriptor
    <3>7. ASSUME r # 0
          PROVE  CatShows(text, filed_array'[fd], k, output')
      <4>1. p < Len(names)
        BY <3>1, <3>4, <3>7
      <4>2. output' = FlattenSeq(SubSeq(names, 1, p)) \o names[p + 1]
        BY <2>3, <3>1, <3>3, <3>4, <3>7, <4>1
      <4> HIDE DEF names, p, r
      <4>3. SubSeq(names, 1, p + 1) = Append(SubSeq(names, 1, p), names[p + 1])
        BY <3>1, <3>4, <4>1, OneMore
      <4>4. SubSeq(names, 1, p) \in Seq(Seq(Byte)) /\ names[p + 1] \in Seq(Byte)
        <5>1. p <= Len(names) /\ p + 1 \in 1..Len(names)
          BY <3>1, <3>4, <4>1
        <5>2. SubSeq(names, 1, p) \in Seq(Seq(Byte))
          BY <3>1, <3>4, <5>1, Prefix
        <5>3. names[p + 1] \in Seq(Byte)
          BY <3>4, <5>1
        <5> QED
          BY <5>2, <5>3
      <4>5. output' = FlattenSeq(SubSeq(names, 1, p + 1))
        BY <4>2, <4>3, <4>4, FlattenAppend
      <4>6. p + 1 \in 0..Len(Dentries)
        BY <3>1, <3>4, <4>1
      <4> QED
        BY <3>3, <3>6, <4>5, <4>6 DEF CatShows, names
    <3>8. ASSUME r = 0
          PROVE  output = whole
      <4>1. p = Len(names)
        BY <3>1, <3>3, <3>4, <3>8
      <4>2. SubSeq(names, 1, p) = names
        BY <3>4, <4>1, WholeSeq
      <4> QED
        BY <3>3, <4>2
    <3> QED
      BY <3>7, <3>8
  <2>6. CASE RtcRead(fd, BUFSIZE)
    <3>1. e.type = "rtc" /\ r = 0
      BY <2>6 DEF RtcRead, Deliver, Return
    <3>2. Dentries[k].file_type = "rtc" /\ output = <<>>
      BY <1>5, <3>1 DEF CatShows
    <3> QED
      BY <3>1, <3>2
  <2> QED
    BY <2>1, <2>4, <2>5, <2>6
<1> QED
  BY <1>7, <1>8

LEMMA LsReadShows ==
  ASSUME ShowInv, LsRead
  PROVE  Labelled' /\ Shows' /\ FilesShown'
<1> DEFINE fd == local.fd
           e == filed_array[fd]
           p == e.position
           n == SBUFSIZE - 1
           names == AllNames(n)
           r == result'.ret
<1>1. /\ pc = "ls_read" /\ Read(fd, n)
      /\ UNCHANGED <<local, text, command>>
      /\ \/ r = 0 /\ pc' = "exit" /\ rval' = 0 /\ output' = output
         \/ r # 0 /\ r = -1 /\ pc' = "exit" /\ rval' = 3
         \/ r # 0 /\ r # -1 /\ pc' = "ls_read" /\ output' = Append(output, Delivered(fd))
  BY DEF LsRead, Exit, Goto, Same
<1>2. TypeInv /\ n \in Nat \ {0} /\ filed_array \in Arrays
  BY UtilitiesAssumption DEF ShowInv, ShellInv, TypeInv
<1>3. Main(command.name) = "ls" /\ Labelled'
  BY <1>1 DEF ShowInv, Labelled
<1>4. fd \in Fds /\ LsShows(e, output)
  BY <1>1 DEF ShowInv, Shows
<1>5. CASE r = -1
  <2>1. pc' = "exit" /\ rval' = 3
    BY <1>1, <1>5
  <2> QED
    BY <1>3, <2>1 DEF Shows, FilesShown
<1>6. CASE r # -1
  <2>1. DirectoryRead(fd, n)
    BY <1>1, <1>4, <1>6 DEF Read, Fail, Return, LsShows, FileRead, RtcRead
  <2>2. /\ p \in Nat
        /\ p < Len(Dentries) => r # 0 /\ Delivered(fd) = names[p + 1]
        /\ ~(p < Len(Dentries)) => r = 0
        /\ filed_array' = [filed_array EXCEPT ![fd].position = p + 1]
    BY <1>2, <1>4, <2>1, NameReadGives
  <2>3. e.type = "dir" /\ p \in 0..Len(Dentries) /\ output = SubSeq(names, 1, p)
    BY <1>4 DEF LsShows
  <2>4. names \in Seq(Seq(Byte)) /\ Len(names) = Len(Dentries) /\ Len(Dentries) \in Nat
    BY <1>2, NamesRead
  <2>5. CASE r = 0
    <3>1. p = Len(names)
      BY <2>2, <2>3, <2>4, <2>5
    <3>2. SubSeq(names, 1, p) = names
      BY <2>4, <3>1, WholeSeq
    <3>3. output' = names /\ command' = command /\ pc' = "exit"
      BY <1>1, <2>3, <2>5, <3>2
    <3> QED
      BY <1>3, <3>3 DEF Shows, FilesShown
  <2>6. CASE r # 0
    <3>1. pc' = "ls_read" /\ local' = local
          /\ output' = Append(SubSeq(names, 1, p), Delivered(fd))
      BY <1>1, <1>6, <2>3, <2>6
    <3>2. p < Len(names)
      BY <2>2, <2>4, <2>6
    <3>3. output' = Append(SubSeq(names, 1, p), names[p + 1])
      BY <2>2, <2>4, <3>1, <3>2
    <3>4. filed_array'[fd] = [e EXCEPT !.position = p + 1]
      BY <1>2, <1>4, <2>2 DEF Arrays
    <3>5. filed_array'[fd].type = "dir" /\ filed_array'[fd].position = p + 1
      BY <1>2, <1>4, <2>3, <3>4 DEF Arrays, Entries, Descriptor
    <3>6. output' = SubSeq(names, 1, p + 1) /\ p + 1 \in 0..Len(Dentries)
      <4> HIDE DEF names, p, n
      <4>1. SubSeq(names, 1, p + 1) = Append(SubSeq(names, 1, p), names[p + 1])
        BY <2>2, <2>4, <3>2, OneMore
      <4> QED
        BY <2>2, <2>4, <3>2, <3>3, <4>1
    <3>7. LsShows(filed_array'[fd], output')
      BY <3>5, <3>6 DEF LsShows
    <3> QED
      BY <1>3, <1>4, <3>1, <3>7 DEF Shows, FilesShown
  <2> QED
    BY <2>5, <2>6
<1> QED
  BY <1>5, <1>6

LEMMA StutterShows ==
  ASSUME ShowInv, UNCHANGED shellVars
  PROVE  Labelled' /\ Shows' /\ FilesShown'
<1>1. UNCHANGED <<filed_array, text, command, pc, local, output, rval>>
  BY DEF shellVars, files
<1>2. Labelled'
  BY <1>1 DEF ShowInv, Labelled
<1>3. Shows'
  BY <1>1 DEF ShowInv, Shows
<1>4. FilesShown'
  BY <1>1 DEF ShowInv, FilesShown, Content
<1> QED
  BY <1>2, <1>3, <1>4

LEMMA GrepShows ==
  ASSUME ShowInv,
         \/ GrepStart \/ GrepEntry \/ GrepOpen \/ GrepRead \/ GrepLine \/ GrepClose
  PROVE  Labelled' /\ Shows' /\ FilesShown'
<1>1. /\ pc \in Others \ {"syserr"} /\ UNCHANGED command
      /\ pc' \in (Others \ {"syserr"}) \cup {"exit"}
  <2>1. CASE GrepStart
    BY <2>1 DEF GrepStart, Begin, Goto, Exit, Same, Others
  <2>2. CASE GrepEntry
    BY <2>2 DEF GrepEntry, Goto, Exit, Same, Others
  <2>3. CASE GrepOpen
    BY <2>3 DEF GrepOpen, Goto, Exit, Same, Others
  <2>4. CASE GrepRead
    <3>1. pc = "grep_read" /\ Same /\ (Exit(3) \/ Goto("grep_line"))
      BY <2>4 DEF GrepRead
    <3> QED
      BY <3>1 DEF Goto, Exit, Same, Others
  <2>5. CASE GrepLine
    <3>1. pc = "grep_line" /\ Same /\ \/ Goto("grep_read") \/ Goto("grep_line")
                                      \/ Goto("grep_close")
      BY <2>5 DEF GrepLine, KeepRest, NextLine
    <3> QED
      BY <3>1 DEF Goto, Same, Others
  <2>6. CASE GrepClose
    BY <2>6 DEF GrepClose, Goto, Exit, Same, Others
  <2> QED
    BY <2>1, <2>2, <2>3, <2>4, <2>5, <2>6
<1>2. Main(command.name) = "grep"
  BY <1>1 DEF ShowInv, Labelled, Others
<1> QED
  BY <1>1, <1>2, OthersShow DEF Others

LEMMA SyserrShows ==
  ASSUME ShowInv, SyserrCall \/ SyserrEnd
  PROVE  Labelled' /\ Shows' /\ FilesShown'
<1>1. pc = "syserr" /\ UNCHANGED command /\ pc' \in {"syserr", "exit"}
  <2>1. CASE SyserrCall
    <3>1. pc = "syserr" /\ Same /\ Goto("syserr")
      BY <2>1 DEF SyserrCall
    <3> QED
      BY <3>1 DEF Goto, Same
  <2>2. CASE SyserrEnd
    BY <2>2 DEF SyserrEnd, Exit, Same
  <2> QED
    BY <2>1, <2>2
<1>2. Main(command.name) = "syserr"
  BY <1>1 DEF ShowInv, Labelled
<1> QED
  BY <1>1, <1>2, OthersShow DEF Others

LEMMA InitShowInv == ShellInit => ShowInv
<1> SUFFICES ASSUME ShellInit PROVE ShowInv
  OBVIOUS
<1>1. pc = "shell" /\ output = <<>>
  BY DEF ShellInit
<1> QED
  BY <1>1, InitShellInv DEF ShowInv, Labelled, Shows, FilesShown

LEMMA StepShowInv == ShowInv /\ [ShellNext]_shellVars => ShowInv'
<1> SUFFICES ASSUME ShowInv, [ShellNext]_shellVars PROVE ShowInv'
  OBVIOUS
<1>1. ShellInv'
  BY StepShellInv DEF ShowInv
<1>2. Labelled' /\ Shows' /\ FilesShown'
  BY TypeShows, FinishShows, CatOpenShows, CatReadShows, LsOpenShows, LsReadShows, GrepShows,
     SyserrShows, StutterShows DEF ShellNext, Program
<1> QED
  BY <1>1, <1>2 DEF ShowInv

\* A cat that returns 0 has written all of its file, or of the directory, byte
\* after byte, and an ls each name once, for files of any length and buffers of
\* any size (ece391cat.c, ece391ls.c).
THEOREM FilesAreShown == ShellSpec => []FilesShown
<1>1. ShowInv => FilesShown
  BY DEF ShowInv
<1> QED
  BY <1>1, InitShowInv, StepShowInv, PTL DEF ShellSpec

------------------------------------------------------------------------------
(* The tests of syserr                                                     *)

\* Calls of the third test made so far, or how many are still before it.
Done == IF Opens THEN local.step - 1 - Len(Before) ELSE 0

\* What is asked at a place of a sequence of calls with the third test in it.
LEMMA MiddleIs ==
  ASSUME NEW a \in Seq(Asked), NEW b \in Seq(Asked), NEW c \in Seq(Asked)
  PROVE  /\ Len(a \o b \o c) = Len(a) + Len(b) + Len(c)
         /\ \A k \in 1..Len(a) : (a \o b \o c)[k] = a[k]
         /\ \A i \in 1..Len(b) : (a \o b \o c)[Len(a) + i] = b[i]
         /\ \A i \in 1..Len(c) : (a \o b \o c)[Len(a) + Len(b) + i] = c[i]
<1> DEFINE ab == a \o b
           la == Len(a)
           lb == Len(b)
           lc == Len(c)
<1>1. la \in Nat /\ lb \in Nat /\ lc \in Nat
  OBVIOUS
<1>2. /\ ab \in Seq(Asked) /\ Len(ab) = la + lb
      /\ \A i \in 1..(la + lb) : ab[i] = IF i <= la THEN a[i] ELSE b[i - la]
  BY ConcatProperties
<1> HIDE DEF ab
<1>3. /\ Len(ab \o c) = Len(ab) + lc
      /\ \A i \in 1..(Len(ab) + lc) : (ab \o c)[i] = IF i <= Len(ab) THEN ab[i] ELSE c[i - Len(ab)]
  <2>1. ab \in Seq(Asked)
    BY <1>2
  <2> QED
    BY <2>1, ConcatProperties
<1> DEFINE all == ab \o c
<1>4. /\ Len(all) = la + lb + lc
      /\ \A i \in 1..(la + lb + lc) : all[i] = IF i <= la + lb THEN ab[i] ELSE c[i - (la + lb)]
  BY <1>2, <1>3
<1> HIDE DEF all, la, lb, lc
<1>5. \A k \in 1..la : all[k] = a[k]
  <2> SUFFICES ASSUME NEW k \in 1..la PROVE all[k] = a[k]
    OBVIOUS
  <2>1. k \in 1..(la + lb + lc) /\ k <= la + lb /\ k \in 1..(la + lb) /\ k <= la
    BY <1>1
  <2> QED
    BY <1>2, <1>4, <2>1
<1>6. \A i \in 1..lb : all[la + i] = b[i]
  <2> SUFFICES ASSUME NEW i \in 1..lb PROVE all[la + i] = b[i]
    OBVIOUS
  <2>1. /\ la + i \in 1..(la + lb + lc) /\ la + i <= la + lb /\ la + i \in 1..(la + lb)
        /\ ~(la + i <= la) /\ (la + i) - la = i
    BY <1>1
  <2> QED
    BY <1>2, <1>4, <2>1
<1>7. \A i \in 1..lc : all[la + lb + i] = c[i]
  <2> SUFFICES ASSUME NEW i \in 1..lc PROVE all[la + lb + i] = c[i]
    OBVIOUS
  <2>1. /\ la + lb + i \in 1..(la + lb + lc) /\ ~(la + lb + i <= la + lb)
        /\ (la + lb + i) - (la + lb) = i
    BY <1>1
  <2> QED
    BY <1>4, <2>1
<1> QED
  BY <1>4, <1>5, <1>6, <1>7 DEF all, ab, la, lb, lc

\* A call is a wrong one, but for the thirteen of the third test.
LEMMA CallIs ==
  ASSUME NEW k \in 1..Len(Script)
  PROVE  LET n == IF Opens THEN k - 1 - Len(Before) ELSE -1
         IN  /\ n \notin 0..12 => Script[k] \in Wrong
             /\ n \in 0..6 => Script[k] = <<3, "open", Dot>>
             /\ n \in 7..12 => Script[k] = <<0, "close", n - 5>>
<1>1. CASE ~Opens
  <2>1. Script[k] \in Wrong
    BY <1>1, ScriptParts, ElementOfSeq
  <2>2. -1 \notin 0..6 /\ -1 \notin 7..12
    OBVIOUS
  <2> QED
    BY <1>1, <2>1, <2>2
<1>2. CASE Opens
  <2> DEFINE a == Before
             b == err_open_lots
             c == After
             la == Len(a)
             n == k - 1 - la
  <2>1. a \in Seq(Asked) /\ b \in Seq(Asked) /\ c \in Seq(Asked)
    BY ScriptParts, LotsOfOpens, WrongIsAsked, SeqMonotonic
  <2>2. la \in Nat /\ Len(c) \in Nat /\ Len(b) = 13
    BY <2>1, LotsOfOpens
  <2>3. Script = a \o b \o c
    BY <1>2, ScriptParts
  <2> HIDE DEF a, b, c
  <2>4. /\ Len(Script) = la + 13 + Len(c)
        /\ \A j \in 1..la : Script[j] = a[j]
        /\ \A i \in 1..13 : Script[la + i] = b[i]
        /\ \A i \in 1..Len(c) : Script[la + 13 + i] = c[i]
    <3>1. /\ Len(a \o b \o c) = Len(a) + Len(b) + Len(c)
          /\ \A j \in 1..Len(a) : (a \o b \o c)[j] = a[j]
          /\ \A i \in 1..Len(b) : (a \o b \o c)[Len(a) + i] = b[i]
          /\ \A i \in 1..Len(c) : (a \o b \o c)[Len(a) + Len(b) + i] = c[i]
      BY <2>1, MiddleIs
    <3> DEFINE s == a \o b \o c
    <3>2. s = Script
      BY <2>3
    <3> HIDE DEF s
    <3> QED
      BY <2>2, <3>1, <3>2 DEF s
  <2>5. (\A j \in 1..la : a[j] \in Wrong) /\ (\A i \in 1..Len(c) : c[i] \in Wrong)
    BY ScriptParts, ElementOfSeq DEF a, c
  <2> HIDE DEF la
  <2>6. k \in Int /\ n \in Int /\ k = la + (n + 1)
    BY <2>2
  <2>7. ASSUME n \notin 0..12
        PROVE  Script[k] \in Wrong
    <3>1. CASE n < 0
      <4>1. k \in 1..la
        BY <2>2, <2>6, <3>1
      <4> QED
        BY <2>4, <2>5, <4>1
    <3>2. CASE n > 12
      <4>1. k - (la + 13) \in 1..Len(c) /\ la + 13 + (k - (la + 13)) = k
        BY <2>2, <2>4, <2>6, <3>2
      <4> QED
        BY <2>4, <2>5, <4>1
    <3> QED
      BY <2>6, <2>7, <3>1, <3>2
  <2> HIDE DEF n
  <2>8. ASSUME n \in 0..6
        PROVE  Script[k] = <<3, "open", Dot>>
    <3>1. n + 1 \in 1..13 /\ n + 1 \in 1..7
      BY <2>8
    <3> QED
      BY <2>4, <2>6, <3>1, LotsOfOpens DEF b
  <2>9. ASSUME n \in 7..12
        PROVE  Script[k] = <<0, "close", n - 5>>
    <3>1. n + 1 \in 1..13 /\ n + 1 \in 8..13 /\ (n + 1) - 6 = n - 5
      BY <2>9
    <3> QED
      BY <2>4, <2>6, <3>1, LotsOfOpens DEF b
  <2> QED
    BY <1>2, <2>7, <2>8, <2>9 DEF n, la, a
<1> QED
  BY <1>1, <1>2

\* What is open after n calls of the third test: the terminal, what has been
\* opened and not closed, and the last descriptor, which close() refuses.
Held(n) == {fd \in 0..7 : fd < 2 \/ (fd <= n + 1 /\ (fd > n - 6 \/ fd = 7))}

Tested ==
  /\ pc = "shell" => local = NoLocals
  /\ pc = "syserr" => /\ local.failed = {}
                      /\ local.cnt = IF Done >= 7 THEN 1 ELSE 0
                      /\ Free = Fds \ Held(Done)

\* The inductive invariant.
TestInv == ShowInv /\ Tested /\ ErrorTestsPass

LEMMA EightDescriptors == Fds = 0..7 /\ Served = 2..6
<1>1. FDARRAY_MAX = 8
  BY ErrorTestsAssumption
<1> QED
  BY <1>1 DEF Fds, Served

\* Before and after the third test, no served descriptor is open.
LEMMA NothingServed ==
  ASSUME ShellInv, NEW n \in Int, n \notin 0..11, Free = Fds \ Held(n)
  PROVE  \A fd : ~IsOpen(fd)
<1> SUFFICES ASSUME NEW fd \in 2..6, filed_array[fd].flags = 1 PROVE FALSE
  BY EightDescriptors DEF IsOpen
<1>1. fd \notin Held(n)
  BY DEF Held
<1>2. fd \in Free
  BY <1>1, EightDescriptors
<1> QED
  BY <1>2 DEF Free

\* A wrong call fails and changes nothing.
LEMMA WrongFails ==
  ASSUME ShellInv, \A fd : ~IsOpen(fd), NEW c \in Wrong, SysCall(c[2], c[3])
  PROVE  result'.ret = -1 /\ UNCHANGED filed_array /\ c[1] \notin {0, 3}
<1>1. CASE c \in {1, 2, 5, 7} \X {"close", "read", "write"} \X Int
  <2>1. c[1] \in {1, 2, 5, 7} /\ c[2] \in {"close", "read", "write"}
    BY <1>1
  <2>2. CASE c[2] = "close"
    BY <2>1, <2>2 DEF SysCall, Close, Fail, Return
  <2>3. CASE c[2] = "read"
    BY <2>1, <2>3 DEF SysCall, Read, Fail, Return
  <2>4. CASE c[2] = "write"
    BY <2>1, <2>4 DEF SysCall, Write, Fail, Return
  <2> QED
    BY <2>1, <2>2, <2>3, <2>4
<1>2. CASE c \in {4} \X {"open"} \X NoNames
  <2>1. c[1] = 4 /\ c[2] = "open" /\ c[3] \in NoNames
    BY <1>2
  <2>2. First(c[3]) = {}
    BY <2>1, ErrorTestsAssumption DEF NoNames
  <2>3. Open(c[3])
    BY <2>1 DEF SysCall
  <2>4. result'.ret = -1 /\ UNCHANGED filed_array
    BY <2>2, <2>3, OpenGives DEF ShellInv
  <2> QED
    BY <2>1, <2>4
<1> QED
  BY <1>1, <1>2 DEF Wrong

\* Of the seven open() all but the last succeed.
LEMMA OpensOne ==
  ASSUME ShellInv, NEW n \in 0..6, Free = Fds \ Held(n), Open(Dot)
  PROVE  Free' = Fds \ Held(n + 1) /\ (result'.ret = -1 <=> n = 6)
<1>1. Lookup(Dot) # {}
  <2>1. PICK k \in First(Dot) : TRUE
    BY ErrorTestsAssumption
  <2>2. Lookup(Dot) = {Dentries[l] : l \in First(Dot)}
    BY LookupFinds DEF ShellInv
  <2> QED
    BY <2>1, <2>2
<1>2. Free = (n + 2)..7
  BY EightDescriptors DEF Held
<1>3. CASE n = 6
  <2>1. Free = {}
    <3>1. \A fd : fd \notin (n + 2)..7
      BY <1>3
    <3> QED
      BY <1>2, <3>1
  <2>2. result'.ret = -1 /\ UNCHANGED filed_array
    BY <2>1 DEF Open, Fail, Return
  <2>3. Free' = Free
    BY <2>2 DEF Free
  <2>4. Fds \ Held(6 + 1) = {}
    BY EightDescriptors DEF Held
  <2> QED
    BY <1>3, <2>1, <2>2, <2>3, <2>4
<1>4. CASE n # 6
  <2>1. n + 2 \in Free /\ -1 \notin Free
    BY <1>2, <1>4
  <2>2. result'.ret # -1
    BY <1>1, <2>1, EightDescriptors DEF Open, Fail, Return, Free
  <2>3. PICK k \in First(Dot) :
          /\ result'.ret \in Free /\ \A other \in Free : result'.ret <= other
          /\ filed_array' = [filed_array EXCEPT ![result'.ret] = OpenEntry(result'.ret, Dentries[k])]
    BY <2>2, OpenGives DEF ShellInv
  <2>4. result'.ret = n + 2
    BY <1>2, <2>1, <2>3
  <2>5. filed_array \in Arrays
    BY DEF ShellInv, TypeInv
  <2>6. \A fd \in Fds : filed_array'[fd].flags = IF fd = n + 2 THEN 1 ELSE filed_array[fd].flags
    BY <2>3, <2>4, <2>5 DEF Arrays, OpenEntry
  <2>7. Free' = Free \ {n + 2}
    BY <2>6 DEF Free
  <2>8. Fds \ Held(n + 1) = (n + 3)..7
    BY <1>4, EightDescriptors DEF Held
  <2>9. ((n + 2)..7) \ {n + 2} = (n + 3)..7
    OBVIOUS
  <2> QED
    BY <1>2, <1>4, <2>2, <2>7, <2>8, <2>9
<1> QED
  BY <1>3, <1>4

\* Of the six close() all but the last do.
LEMMA ClosesOne ==
  ASSUME ShellInv, NEW n \in 7..12, Free = Fds \ Held(n), Close(n - 5)
  PROVE  Free' = Fds \ Held(n + 1)
<1>1. Free = 2..(n - 6)
  BY EightDescriptors DEF Held
<1>2. filed_array \in Arrays /\ \A fd \in Fds : filed_array[fd].flags \in {0, 1}
  BY DEF ShellInv, TypeInv, Arrays, Entries, Descriptor
<1>3. CASE n = 12
  <2>1. 7 \notin Served /\ n - 5 = 7
    BY <1>3, EightDescriptors
  <2>2. Free' = Free
    BY <2>1 DEF Close, IsOpen, Fail, Free
  <2>3. Fds \ Held(12) = Fds \ Held(12 + 1)
    BY EightDescriptors DEF Held
  <2> QED
    BY <1>3, <2>2, <2>3
<1>4. CASE n # 12
  <2>1. n - 5 \in 2..6 /\ n - 5 \notin Free /\ n - 5 \in Fds
    BY <1>1, <1>4, EightDescriptors
  <2>2. IsOpen(n - 5)
    BY <1>2, <2>1, EightDescriptors DEF IsOpen, Free
  <2>3. filed_array' = [filed_array EXCEPT ![n - 5].flags = 0]
    BY <2>2 DEF Close
  <2>4. \A fd \in Fds : filed_array'[fd].flags = IF fd = n - 5 THEN 0 ELSE filed_array[fd].flags
    BY <1>2, <2>3 DEF Arrays, Entries, Descriptor
  <2>5. Free' = Free \cup {n - 5}
    BY <2>1, <2>4 DEF Free
  <2>6. Fds \ Held(n + 1) = 2..(n - 5) /\ (2..(n - 6)) \cup {n - 5} = 2..(n - 5)
    BY <1>4, EightDescriptors DEF Held
  <2> QED
    BY <1>1, <2>5, <2>6
<1> QED
  BY <1>3, <1>4

LEMMA SyserrCallTested ==
  ASSUME TestInv, SyserrCall
  PROVE  Tested' /\ ErrorTestsPass'
<1> DEFINE k == local.step
           c == Script[k]
           n == Done
<1>1. /\ pc = "syserr" /\ k <= Len(Script) /\ pc' = "syserr" /\ UNCHANGED command
      /\ SysCall(c[2], c[3])
      /\ local' = [local EXCEPT
           !.step = k + 1,
           !.cnt = IF c[1] = 3 /\ result'.ret = -1 THEN local.cnt + 1 ELSE local.cnt,
           !.failed = IF c[1] \notin {0, 3} /\ result'.ret # -1
                      THEN local.failed \cup {c[1]} ELSE local.failed]
  BY DEF SyserrCall, Goto, Same
<1>2. /\ local.failed = {} /\ local.cnt = (IF n >= 7 THEN 1 ELSE 0) /\ Free = Fds \ Held(n)
  BY <1>1 DEF TestInv, Tested
<1>3. ShellInv /\ local \in Locals /\ k \in 1..Len(Script) /\ Len(Before) \in Nat
  BY <1>1, ScriptCalls, ScriptParts DEF TestInv, ShowInv, ShellInv, Locals
<1>4. /\ local'.step = k + 1
      /\ local'.cnt = IF c[1] = 3 /\ result'.ret = -1 THEN local.cnt + 1 ELSE local.cnt
      /\ local'.failed = IF c[1] \notin {0, 3} /\ result'.ret # -1
                         THEN local.failed \cup {c[1]} ELSE local.failed
  BY <1>1, <1>3 DEF Locals
<1>5. n \in Int /\ Done' = IF Opens THEN n + 1 ELSE 0
  <2>1. Opens' = Opens /\ Before' = Before
    BY <1>1 DEF Opens, Before
  <2> QED
    BY <1>3, <1>4, <2>1 DEF Done
<1> DEFINE m == IF Opens THEN k - 1 - Len(Before) ELSE -1
<1>6. /\ m \in Int /\ n = (IF Opens THEN m ELSE 0) /\ (~Opens => m = -1)
      /\ m \notin 0..12 => c \in Wrong
      /\ m \in 0..6 => c = <<3, "open", Dot>>
      /\ m \in 7..12 => c = <<0, "close", m - 5>>
  <2>1. m \in Int /\ n = (IF Opens THEN m ELSE 0) /\ (~Opens => m = -1)
    BY <1>3 DEF Done
  <2>2. /\ m \notin 0..12 => c \in Wrong
        /\ m \in 0..6 => c = <<3, "open", Dot>>
        /\ m \in 7..12 => c = <<0, "close", m - 5>>
    BY <1>3, CallIs
  <2> QED
    BY <2>1, <2>2
<1>7. SUFFICES /\ local'.failed = {} /\ local'.cnt = (IF Done' >= 7 THEN 1 ELSE 0)
               /\ Free' = Fds \ Held(Done')
  BY <1>1 DEF Tested, ErrorTestsPass
<1> HIDE DEF k, c, n, m
<1>8. CASE m \notin 0..12
  <2>1. \A j \in Int : (j <= 0 => Held(j) = Held(0)) /\ (j >= 12 => Held(j) = Held(12))
    BY DEF Held
  <2>2. n <= 0 \/ n >= 13
    BY <1>6, <1>8
  <2>3. Held(Done') = Held(n) /\ (Done' >= 7 <=> n >= 7)
    <3>1. CASE ~Opens
      BY <1>5, <1>6, <3>1
    <3>2. CASE Opens /\ m < 0
      <4>1. n < 0 /\ Done' = n + 1
        BY <1>5, <1>6, <3>2
      <4>2. Held(n) = Held(0) /\ Held(n + 1) = Held(0)
        BY <1>5, <2>1, <4>1
      <4> QED
        BY <1>5, <4>1, <4>2
    <3>3. CASE Opens /\ m > 12
      <4>1. n > 12 /\ Done' = n + 1
        BY <1>5, <1>6, <3>3
      <4>2. Held(n) = Held(12) /\ Held(n + 1) = Held(12)
        BY <1>5, <2>1, <4>1
      <4> QED
        BY <1>5, <4>1, <4>2
    <3> QED
      BY <1>6, <1>8, <3>1, <3>2, <3>3
  <2>4. \A fd : ~IsOpen(fd)
    <3>1. CASE n >= 13
      BY <1>2, <1>3, <1>5, <3>1, NothingServed
    <3>2. CASE n <= 0
      <4>1. Held(n) = Held(-1)
        BY <1>5, <2>1, <3>2
      <4> QED
        BY <1>2, <1>3, <4>1, NothingServed
    <3> QED
      BY <2>2, <3>1, <3>2
  <2>5. result'.ret = -1 /\ UNCHANGED filed_array /\ c[1] \notin {0, 3}
    BY <1>1, <1>3, <1>6, <1>8, <2>4, WrongFails
  <2>6. Free' = Free
    BY <2>5 DEF Free
  <2>7. local'.cnt = local.cnt /\ local'.failed = local.failed
    BY <1>4, <2>5
  <2> QED
    BY <1>2, <2>3, <2>6, <2>7
<1>9. CASE m \in 0..6
  <2>1. c[1] = 3 /\ c[2] = "open" /\ c[3] = Dot /\ Open(Dot)
    <3>1. c[1] = 3 /\ c[2] = "open" /\ c[3] = Dot
      BY <1>6, <1>9
    <3> QED
      BY <1>1, <3>1 DEF SysCall
  <2>2. n = m /\ Done' = n + 1
    BY <1>5, <1>6, <1>9
  <2>3. Free' = Fds \ Held(n + 1) /\ (result'.ret = -1 <=> n = 6)
    BY <1>2, <1>3, <1>9, <2>1, <2>2, OpensOne
  <2>4. local'.failed = {} /\ local'.cnt = IF n = 6 THEN 1 ELSE 0
    BY <1>2, <1>4, <1>9, <2>1, <2>2, <2>3
  <2> QED
    BY <1>9, <2>2, <2>3, <2>4
<1>10. CASE m \in 7..12
  <2>1. c[1] = 0 /\ Close(m - 5)
    <3>1. c[1] = 0 /\ c[2] = "close" /\ c[3] = m - 5
      BY <1>6, <1>10
    <3> QED
      BY <1>1, <3>1 DEF SysCall
  <2>2. n = m /\ Done' = n + 1
    BY <1>5, <1>6, <1>10
  <2>3. Free' = Fds \ Held(n + 1)
    BY <1>2, <1>3, <1>10, <2>1, <2>2, ClosesOne
  <2>4. local'.failed = {} /\ local'.cnt = 1
    BY <1>2, <1>4, <1>10, <2>1, <2>2
  <2> QED
    BY <1>10, <2>2, <2>3, <2>4
<1> QED
  BY <1>6, <1>8, <1>9, <1>10

LEMMA SyserrEndTested ==
  ASSUME TestInv, SyserrEnd
  PROVE  Tested' /\ ErrorTestsPass'
<1> DEFINE wrong == local.failed \cup {t \in {3} : Ran(3) /\ local.cnt # 1}
<1>1. /\ pc = "syserr" /\ local.step > Len(Script) /\ pc' = "exit"
      /\ rval' = 2 * Cardinality(wrong)
  BY DEF SyserrEnd, Exit
<1>2. local.failed = {} /\ local.cnt = IF Done >= 7 THEN 1 ELSE 0
  BY <1>1 DEF TestInv, Tested
<1>3. local.step \in Nat /\ Len(Before) \in Nat /\ Len(Script) \in Nat
  BY ScriptCalls, ScriptParts DEF TestInv, ShowInv, ShellInv, Locals
<1>4. ASSUME Ran(3)
      PROVE  local.cnt = 1
  <2>1. PICK k \in 1..Len(Script) : Script[k][1] = 3
    BY <1>4, ScriptCalls DEF Ran
  <2>2. Script[k] \notin Wrong
    BY <2>1 DEF Wrong
  <2>3. Opens /\ k - 1 - Len(Before) \in 0..12
    <3>1. (IF Opens THEN k - 1 - Len(Before) ELSE -1) \in 0..12
      BY <2>2, CallIs
    <3> QED
      BY <3>1
  <2>4. Len(Script) >= Len(Before) + 13
    <3>1. Script = Before \o err_open_lots \o After
      BY <2>3, ScriptParts
    <3>2. Before \in Seq(Asked) /\ err_open_lots \in Seq(Asked) /\ After \in Seq(Asked)
      BY ScriptParts, LotsOfOpens, WrongIsAsked, SeqMonotonic
    <3>3. Len(Script) = Len(Before) + Len(err_open_lots) + Len(After)
      BY <3>1, <3>2, MiddleIs
    <3>4. Len(After) \in Nat /\ Len(err_open_lots) = 13
      BY <3>2, LotsOfOpens
    <3> QED
      BY <1>3, <3>3, <3>4
  <2>5. Done >= 7
    <3>1. local.step - 1 - Len(Before) >= 7
      BY <1>1, <1>3, <2>4
    <3> QED
      BY <2>3, <3>1 DEF Done
  <2> QED
    BY <1>2, <2>5
<1>5. wrong = {}
  BY <1>2, <1>4
<1>6. rval' = 0
  <2>1. Cardinality(wrong) = 0
    BY <1>5, FS_EmptySet
  <2> HIDE DEF wrong
  <2> QED
    BY <1>1, <2>1
<1> QED
  BY <1>1, <1>6 DEF Tested, ErrorTestsPass

LEMMA TypeTested ==
  ASSUME TestInv, Type
  PROVE  Tested' /\ ErrorTestsPass'
<1>1. /\ pc = "shell" /\ Execute(command'.name) /\ UNCHANGED local
      /\ \/ pc' = "shell"
         \/ result'.ret # -1 /\ pc' = Main(command'.name)
  BY DEF Type
<1>2. local = NoLocals
  BY <1>1 DEF TestInv, Tested
<1>3. CASE pc' = "shell"
  BY <1>1, <1>2, <1>3 DEF Tested, ErrorTestsPass
<1>4. CASE pc' # "shell"
  <2>1. filed_array' = FreshArray
    BY <1>1, <1>4, ExecuteGives DEF TestInv, ShowInv, ShellInv
  <2>2. local' = NoLocals /\ local'.step = 1 /\ local'.cnt = 0 /\ local'.failed = {}
    BY <1>1, <1>2 DEF NoLocals
  <2>3. Len(Before)' \in Nat
    <3>1. Before' \in {<<>>, err_neg_fd \o err_big_fd}
      BY DEF Before
    <3>2. err_neg_fd \o err_big_fd \in Seq(Wrong) /\ <<>> \in Seq(Wrong)
      BY WrongTests, Joined
    <3> QED
      BY <3>1, <3>2
  <2>4. Done' \in Int /\ Done' <= 0
    BY <2>2, <2>3 DEF Done
  <2>5. (Free = Fds \ Held(Done))'
    <3>1. \A fd \in 0..7 : FreshArray[fd].flags = IF fd < 2 THEN 1 ELSE 0
      BY EightDescriptors DEF FreshArray, Terminal, Unused
    <3>2. \A n \in Int : n <= 0 => \A fd \in 0..7 : fd \in Held(n) <=> fd < 2
      BY DEF Held
    <3>3. \A fd \in 0..7 : fd \in Held(Done') <=> fd < 2
      BY <2>4, <3>2
    <3> QED
      BY <2>1, <3>1, <3>3, EightDescriptors DEF Free
  <2>6. Tested'
    BY <1>4, <2>2, <2>4, <2>5 DEF Tested
  <2>7. pc' # "exit"
    <3>1. First(command'.name) # {}
      BY <1>1, <1>4, ExecuteGives DEF TestInv, ShowInv, ShellInv
    <3>2. command'.name \in Known
      BY <3>1, UtilitiesAssumption DEF Type
    <3>3. cat # ls /\ cat # grep /\ cat # syserr /\ ls # grep /\ ls # syserr /\ grep # syserr
      BY DEF cat, ls, grep, syserr
    <3> QED
      BY <1>1, <1>4, <3>2, <3>3 DEF Main, Known
  <2> QED
    BY <2>6, <2>7 DEF ErrorTestsPass
<1> QED
  BY <1>3, <1>4

LEMMA FinishTested ==
  ASSUME TestInv, Finish
  PROVE  Tested' /\ ErrorTestsPass'
BY DEF Finish, Tested, ErrorTestsPass

\* The other programs are none of its business.
LEMMA OthersTested ==
  ASSUME TestInv,
         \/ CatOpen \/ CatRead \/ LsOpen \/ LsRead
         \/ GrepStart \/ GrepEntry \/ GrepOpen \/ GrepRead \/ GrepLine \/ GrepClose
  PROVE  Tested' /\ ErrorTestsPass'
<1>1. /\ pc \in {"cat", "cat_read", "ls", "ls_read"} \cup (Others \ {"syserr"})
      /\ UNCHANGED command /\ pc' \notin {"shell", "syserr"}
  <2>1. CASE CatOpen \/ LsOpen \/ GrepStart
    BY <2>1 DEF CatOpen, LsOpen, GrepStart, Begin, Goto, Exit, Same, Others
  <2>2. CASE CatRead
    <3>1. pc = "cat_read" /\ Same /\ (Exit(0) \/ Exit(3) \/ Goto("cat_read"))
      BY <2>2 DEF CatRead
    <3> QED
      BY <3>1 DEF Goto, Exit, Same
  <2>3. CASE LsRead
    <3>1. pc = "ls_read" /\ Same /\ (Exit(0) \/ Exit(3) \/ Goto("ls_read"))
      BY <2>3 DEF LsRead
    <3> QED
      BY <3>1 DEF Goto, Exit, Same
  <2>4. CASE GrepEntry
    BY <2>4 DEF GrepEntry, Goto, Exit, Same, Others
  <2>5. CASE GrepOpen
    BY <2>5 DEF GrepOpen, Goto, Exit, Same, Others
  <2>6. CASE GrepRead
    <3>1. pc = "grep_read" /\ Same /\ (Exit(3) \/ Goto("grep_line"))
      BY <2>6 DEF GrepRead
    <3> QED
      BY <3>1 DEF Goto, Exit, Same, Others
  <2>7. CASE GrepLine
    <3>1. pc = "grep_line" /\ Same /\ \/ Goto("grep_read") \/ Goto("grep_line")
                                      \/ Goto("grep_close")
      BY <2>7 DEF GrepLine, KeepRest, NextLine
    <3> QED
      BY <3>1 DEF Goto, Same, Others
  <2>8. CASE GrepClose
    BY <2>8 DEF GrepClose, Goto, Exit, Same, Others
  <2> QED
    BY <2>1, <2>2, <2>3, <2>4, <2>5, <2>6, <2>7, <2>8
<1>2. Main(command.name) # "syserr"
  BY <1>1 DEF TestInv, ShowInv, Labelled, Others
<1> QED
  BY <1>1, <1>2 DEF Tested, ErrorTestsPass

LEMMA StutterTested ==
  ASSUME TestInv, UNCHANGED shellVars
  PROVE  Tested' /\ ErrorTestsPass'
<1>1. UNCHANGED <<filed_array, command, pc, local, rval>>
  BY DEF shellVars, files
<1>2. Done' = Done
  BY <1>1 DEF Done, Opens, Before
<1> QED
  BY <1>1, <1>2 DEF TestInv, Tested, ErrorTestsPass, Free

LEMMA StepTestInv ==
  ASSUME TestInv, [ShellNext]_shellVars
  PROVE  TestInv'
<1>1. ShowInv'
  BY StepShowInv DEF TestInv
<1>2. Tested' /\ ErrorTestsPass'
  BY SyserrCallTested, SyserrEndTested, TypeTested, FinishTested, OthersTested, StutterTested
     DEF ShellNext, Program
<1> QED
  BY <1>1, <1>2 DEF TestInv

\* Whatever ran before, whatever the image holds besides, the kernel refuses
\* every call syserr says it must, and serves six open() of seven
\* (ece391syserr.c, close(), read(), write() and open() of scall.c).
THEOREM ErrorTestsAllPass == ShellSpec => []ErrorTestsPass
<1>1. ShellInit => TestInv
  <2> SUFFICES ASSUME ShellInit PROVE TestInv
    OBVIOUS
  <2>1. pc = "shell" /\ local = NoLocals
    BY DEF ShellInit
  <2> QED
    BY <2>1, InitShowInv DEF TestInv, Tested, ErrorTestsPass
<1>2. TestInv /\ [ShellNext]_shellVars => TestInv'
  BY StepTestInv
<1>3. TestInv => ErrorTestsPass
  BY DEF TestInv
<1> QED
  BY <1>1, <1>2, <1>3, PTL DEF ShellSpec

------------------------------------------------------------------------------
(* The lines of a text                                                     *)

\* No newline among the characters a to b.
Unbroken(chars, a, b) == \A j \in a..b : chars[j] # NL

\* The place n is between two lines: a line ends or begins there.
Between(chars, n) ==
  n = 0 \/ n = Len(chars) \/ chars[n] = NL \/ chars[n + 1] = NL

LEMMA LineAtIs ==
  ASSUME NEW chars \in Seq(Byte), NEW j \in 1..Len(chars), NEW e \in (j - 1)..Len(chars),
         Unbroken(chars, j, e), e = Len(chars) \/ chars[e + 1] = NL
  PROVE  LineAt(chars, j) = SubSeq(chars, j, e)
<1> DEFINE ends == {k \in j..(Len(chars) + 1) : k = Len(chars) + 1 \/ chars[k] = NL}
           end == CHOOSE k \in ends : \A l \in ends : k <= l
<1>1. Len(chars) \in Nat
  OBVIOUS
<1>2. e + 1 \in ends /\ ends \subseteq Nat
  BY <1>1
<1>3. \A l \in ends : e + 1 <= l
  <2> SUFFICES ASSUME NEW l \in ends, l < e + 1 PROVE FALSE
    BY <1>1, <1>2
  <2>1. l \in j..e /\ l # Len(chars) + 1
    BY <1>1
  <2>2. chars[l] = NL
    BY <2>1
  <2> QED
    BY <2>1, <2>2 DEF Unbroken
<1>4. end \in ends /\ \A l \in ends : end <= l
  <2> HIDE DEF ends
  <2> QED
    BY <1>2, <1>3
<1>5. end = e + 1
  <2> HIDE DEF end, ends
  <2>1. end <= e + 1 /\ e + 1 <= end /\ end \in Nat
    BY <1>2, <1>3, <1>4
  <2> QED
    BY <2>1
<1>6. LineAt(chars, j) = SubSeq(chars, j, end - 1)
  BY DEF LineAt
<1> HIDE DEF end
<1>7. end - 1 = e
  BY <1>1, <1>5
<1> QED
  BY <1>6, <1>7

\* A line that has no newline so far goes on to a newline or to the text's end.
LEMMA LineGoesOn ==
  ASSUME NEW chars \in Seq(Byte), NEW j \in 1..Len(chars), NEW p \in j..Len(chars),
         Unbroken(chars, j, p)
  PROVE  \E e \in p..Len(chars) :
           /\ Unbroken(chars, j, e) /\ (e = Len(chars) \/ chars[e + 1] = NL)
           /\ LineAt(chars, j) = SubSeq(chars, j, e)
<1> DEFINE stops == {e \in p..Len(chars) : e = Len(chars) \/ chars[e + 1] = NL}
<1>1. Len(chars) \in Nat
  OBVIOUS
<1>2. PICK e \in stops : \A l \in stops : e <= l
  <2>1. stops \in SUBSET Nat /\ Len(chars) \in stops
    BY <1>1
  <2> HIDE DEF stops
  <2> QED
    BY <2>1, LeastNumber
<1>3. Unbroken(chars, j, e)
  <2> SUFFICES ASSUME NEW l \in j..e, chars[l] = NL PROVE FALSE
    BY DEF Unbroken
  <2>1. l \notin j..p
    BY DEF Unbroken
  <2>2. l - 1 \in p..Len(chars) /\ (l - 1) + 1 = l /\ ~(e <= l - 1)
    BY <1>1, <2>1
  <2>3. l - 1 \in stops
    BY <2>2
  <2> QED
    BY <1>2, <2>2, <2>3
<1>4. LineAt(chars, j) = SubSeq(chars, j, e)
  <2>1. e \in (j - 1)..Len(chars)
    BY <1>1
  <2> QED
    BY <1>3, <2>1, LineAtIs
<1> QED
  BY <1>3, <1>4

LEMMA PieceOf ==
  ASSUME NEW S, NEW s \in Seq(S), NEW n \in Nat, NEW m \in Nat, n <= m, m <= Len(s)
  PROVE  /\ SubSeq(s, n + 1, m) \in Seq(S) /\ Len(SubSeq(s, n + 1, m)) = m - n
         /\ \A i \in 1..(m - n) : SubSeq(s, n + 1, m)[i] = s[n + i]
<1>1. \A i \in (n + 1)..m : s[i] \in S
  BY LenProperties
<1>2. /\ SubSeq(s, n + 1, m) \in Seq(S)
      /\ Len(SubSeq(s, n + 1, m)) = IF n + 1 <= m THEN m - (n + 1) + 1 ELSE 0
      /\ \A i \in 1..(m - (n + 1) + 1) : SubSeq(s, n + 1, m)[i] = s[(n + 1) + i - 1]
  BY <1>1, SubSeqProperties
<1>3. (IF n + 1 <= m THEN m - (n + 1) + 1 ELSE 0) = m - n /\ m - (n + 1) + 1 = m - n
  OBVIOUS
<1>4. \A i \in 1..(m - n) : (n + 1) + i - 1 = n + i
  OBVIOUS
<1> QED
  BY <1>2, <1>3, <1>4

\* A pattern is not found in nothing.
LEMMA NotInNothing ==
  ASSUME NEW pattern \in Seq(Byte), pattern # <<>>, NEW line, Len(line) = 0
  PROVE  ~Occurs(pattern, line)
<1>1. Len(pattern) \in Nat \ {0}
  BY EmptySeq
<1> QED
  BY <1>1 DEF Occurs

\* The places of the lines found among the first n characters.
FoundTo(chars, pattern, n) == {j \in Found(chars, pattern) : j <= n}

\* A line that is searched, and no other, begins between two places.
LEMMA FoundGrows ==
  ASSUME NEW chars \in Seq(Byte), NEW pattern \in Seq(Byte), pattern # <<>>,
         NEW n \in Nat, NEW e \in n..Len(chars), NEW m \in e..(e + 1), m <= Len(chars),
         Between(chars, n), Unbroken(chars, n + 1, e), e = Len(chars) \/ chars[e + 1] = NL
  PROVE  IF Occurs(pattern, SubSeq(chars, n + 1, e))
         THEN /\ FoundTo(chars, pattern, m) = FoundTo(chars, pattern, n) \cup {n + 1}
              /\ LineAt(chars, n + 1) = SubSeq(chars, n + 1, e)
         ELSE FoundTo(chars, pattern, m) = FoundTo(chars, pattern, n)
<1> DEFINE piece == SubSeq(chars, n + 1, e)
<1>1. Len(chars) \in Nat /\ e \in Nat /\ m \in Nat
  OBVIOUS
<1>2. Len(piece) = e - n
  BY <1>1, PieceOf
<1>3. ASSUME NEW j \in LineStarts(chars), n < j, j <= m
      PROVE  j = n + 1
  <2> SUFFICES ASSUME j # n + 1 PROVE FALSE
    OBVIOUS
  <2>1. j \in 1..Len(chars) /\ (j = 1 \/ chars[j - 1] = NL)
    BY <1>1, <1>3 DEF LineStarts
  <2>2. j # 1 /\ j - 1 \in (n + 1)..e
    BY <1>1, <1>3, <2>1
  <2> QED
    BY <2>1, <2>2 DEF Unbroken
<1>4. \A j \in FoundTo(chars, pattern, m) : j \in LineStarts(chars) /\ j \in Nat /\ j <= m
  BY <1>1 DEF FoundTo, Found, LineStarts
<1>5. FoundTo(chars, pattern, n) \subseteq FoundTo(chars, pattern, m)
  BY <1>1 DEF FoundTo, Found, LineStarts
<1>6. ASSUME n + 1 <= Len(chars)
      PROVE  LineAt(chars, n + 1) = piece
  <2>1. n + 1 \in 1..Len(chars) /\ e \in ((n + 1) - 1)..Len(chars)
    BY <1>1, <1>6
  <2> QED
    BY <2>1, LineAtIs
<1>7. CASE Occurs(pattern, piece)
  <2>1. n < e
    <3>1. Len(piece) # 0
      BY <1>7, NotInNothing
    <3> HIDE DEF piece
    <3> QED
      BY <1>1, <1>2, <3>1
  <2>2. n + 1 \in 1..Len(chars) /\ n + 1 \in (n + 1)..e /\ n + 1 <= m
    BY <1>1, <2>1
  <2>3. n + 1 \in LineStarts(chars)
    <3>1. chars[n + 1] # NL
      BY <2>2 DEF Unbroken
    <3>2. n = 0 \/ chars[n] = NL
      BY <1>1, <2>1, <3>1 DEF Between
    <3>3. (n + 1) - 1 = n
      BY <1>1
    <3> QED
      BY <1>1, <2>2, <3>2, <3>3 DEF LineStarts
  <2>4. LineAt(chars, n + 1) = piece
    BY <1>6, <2>2
  <2>5. n + 1 \in FoundTo(chars, pattern, m)
    BY <1>7, <2>2, <2>3, <2>4 DEF FoundTo, Found
  <2>6. ASSUME NEW j \in FoundTo(chars, pattern, m), j # n + 1
        PROVE  j \in FoundTo(chars, pattern, n)
    <3>1. ~(n < j)
      BY <1>3, <1>4, <2>6
    <3>2. j <= n
      BY <1>1, <1>4, <3>1
    <3> QED
      BY <3>2 DEF FoundTo
  <2>7. FoundTo(chars, pattern, m) = FoundTo(chars, pattern, n) \cup {n + 1}
    BY <1>5, <2>5, <2>6
  <2> QED
    BY <1>7, <2>4, <2>7
<1>8. CASE ~Occurs(pattern, piece)
  <2>1. ASSUME NEW j \in FoundTo(chars, pattern, m)
        PROVE  j \in FoundTo(chars, pattern, n)
    <3>1. j # n + 1
      <4> SUFFICES ASSUME j = n + 1 PROVE FALSE
        OBVIOUS
      <4>1. n + 1 <= Len(chars) /\ Occurs(pattern, LineAt(chars, n + 1))
        BY <1>1, <1>4, <2>1 DEF FoundTo, Found
      <4> QED
        BY <1>6, <1>8, <4>1
    <3>2. ~(n < j)
      BY <1>3, <1>4, <3>1
    <3>3. j <= n
      BY <1>1, <1>4, <3>2
    <3> QED
      BY <3>3 DEF FoundTo
  <2>2. FoundTo(chars, pattern, m) = FoundTo(chars, pattern, n)
    BY <1>5, <2>1
  <2> QED
    BY <1>8, <2>2
<1> QED
  BY <1>7, <1>8

------------------------------------------------------------------------------
(* What grep has reported                                                  *)

Reports == Seq(Seq(Byte) \X Seq(Chars))

\* Nothing is reported under a name.
Unlisted(reports, name) == \A i \in DOMAIN reports : reports[i][1] # name

LEMMA NothingListed ==
  ASSUME NEW reports, NEW name, NEW chars, Unlisted(reports, name)
  PROVE  Listed(reports, name, chars, {})
<1> DEFINE named == {i \in DOMAIN reports : reports[i][1] = name}
           place == [i \in named |-> 0]
<1>1. named = {}
  BY DEF Unlisted
<1>2. place \in [named -> {}] /\ {} = {place[i] : i \in named}
  BY <1>1
<1> QED
  BY <1>1, <1>2 DEF Listed

LEMMA AddReport ==
  ASSUME NEW reports \in Reports, NEW name \in Seq(Byte), NEW line \in Seq(Chars)
  PROVE  LET added == Append(reports, <<name, line>>)
             last == Len(reports) + 1
         IN  /\ added \in Reports /\ Len(reports) \in Nat
             /\ DOMAIN reports = 1..Len(reports) /\ DOMAIN added = 1..last
             /\ \A i \in 1..Len(reports) : added[i] = reports[i]
             /\ added[last] = <<name, line>>
<1> DEFINE T == Seq(Byte) \X Seq(Chars)
           report == <<name, line>>
<1>1. report \in T
  OBVIOUS
<1>2. reports \in Seq(T)
  BY DEF Reports
<1> HIDE DEF T, report
<1>3. /\ Append(reports, report) \in Seq(T) /\ Len(Append(reports, report)) = Len(reports) + 1
      /\ \A i \in 1..Len(reports) : Append(reports, report)[i] = reports[i]
      /\ Append(reports, report)[Len(reports) + 1] = report
  BY <1>1, <1>2, AppendProperties
<1>4. Len(reports) \in Nat /\ DOMAIN reports = 1..Len(reports)
      /\ DOMAIN Append(reports, report) = 1..(Len(reports) + 1)
  BY <1>2, <1>3, LenProperties
<1> QED
  BY <1>3, <1>4 DEF Reports, T, report

\* A report under another name changes nothing.
LEMMA OtherReport ==
  ASSUME NEW reports \in Reports, NEW other \in Seq(Byte), NEW line \in Seq(Chars),
         NEW name, name # other
  PROVE  LET added == Append(reports, <<other, line>>)
         IN  /\ Unlisted(reports, name) => Unlisted(added, name)
             /\ \A chars, places :
                  Listed(reports, name, chars, places) => Listed(added, name, chars, places)
<1> DEFINE added == Append(reports, <<other, line>>)
           last == Len(reports) + 1
<1>1. /\ Len(reports) \in Nat /\ DOMAIN reports = 1..Len(reports) /\ DOMAIN added = 1..last
      /\ \A i \in 1..Len(reports) : added[i] = reports[i]
      /\ added[last] = <<other, line>>
  BY AddReport
<1>2. added[last][1] # name
  BY <1>1
<1> HIDE DEF added
<1>3. \A i \in DOMAIN added : i = last \/ i \in DOMAIN reports
  BY <1>1
<1>4. \A i \in DOMAIN reports : i \in DOMAIN added /\ added[i] = reports[i]
  BY <1>1
<1>5. Unlisted(reports, name) => Unlisted(added, name)
  BY <1>2, <1>3, <1>4 DEF Unlisted
<1>6. {i \in DOMAIN added : added[i][1] = name} = {i \in DOMAIN reports : reports[i][1] = name}
  BY <1>2, <1>3, <1>4
<1>7. ASSUME NEW chars, NEW places, Listed(reports, name, chars, places)
      PROVE  Listed(added, name, chars, places)
  <2> DEFINE named == {i \in DOMAIN reports : reports[i][1] = name}
  <2>1. PICK place \in [named -> places] :
          /\ \A i, j \in named : i < j => place[i] < place[j]
          /\ places = {place[i] : i \in named}
          /\ \A i \in named : reports[i][2] = LineAt(chars, place[i])
    BY <1>7 DEF Listed
  <2>2. \A i \in named : added[i] = reports[i]
    BY <1>4
  <2> QED
    BY <1>6, <2>1, <2>2 DEF Listed
<1> QED
  BY <1>5, <1>7 DEF added

\* A line after those reported is reported after them.
LEMMA NextReport ==
  ASSUME NEW reports \in Reports, NEW name \in Seq(Byte), NEW line \in Seq(Chars),
         NEW chars, NEW places \in SUBSET Nat, Listed(reports, name, chars, places),
         NEW next \in Nat, \A j \in places : j < next, line = LineAt(chars, next)
  PROVE  Listed(Append(reports, <<name, line>>), name, chars, places \cup {next})
<1> DEFINE added == Append(reports, <<name, line>>)
           last == Len(reports) + 1
           named == {i \in DOMAIN reports : reports[i][1] = name}
           all == {i \in DOMAIN added : added[i][1] = name}
<1>1. /\ Len(reports) \in Nat /\ DOMAIN reports = 1..Len(reports) /\ DOMAIN added = 1..last
      /\ \A i \in 1..Len(reports) : added[i] = reports[i]
      /\ added[last] = <<name, line>>
  BY AddReport
<1>2. added[last][1] = name /\ added[last][2] = line
  BY <1>1
<1>3. PICK place \in [named -> places] :
        /\ \A i, j \in named : i < j => place[i] < place[j]
        /\ places = {place[i] : i \in named}
        /\ \A i \in named : reports[i][2] = LineAt(chars, place[i])
  BY DEF Listed
<1> HIDE DEF added
<1>4. all = named \cup {last} /\ last \notin named
  BY <1>1, <1>2
<1>5. \A i \in named : i \in Nat /\ i < last /\ added[i] = reports[i] /\ place[i] \in places
  BY <1>1, <1>3
<1> HIDE DEF named, all
<1> DEFINE longer == [i \in all |-> IF i = last THEN next ELSE place[i]]
<1>6. longer[last] = next /\ \A i \in named : longer[i] = place[i]
  BY <1>4
<1>7. longer \in [all -> places \cup {next}]
  BY <1>3, <1>4
<1> HIDE DEF longer
<1>8. ASSUME NEW i \in all, NEW j \in all, i < j
      PROVE  longer[i] < longer[j]
  <2>1. last \in Nat
    BY <1>1
  <2>2. CASE j = last
    <3>1. i \in named
      BY <1>4, <1>8, <2>1, <2>2
    <3> QED
      BY <1>5, <1>6, <2>2, <3>1
  <2>3. CASE j # last
    <3>1. j \in named /\ j < last
      BY <1>4, <1>5, <2>3
    <3>2. i \in named
      BY <1>4, <1>5, <1>8, <2>1, <3>1
    <3> QED
      BY <1>3, <1>6, <1>8, <3>1, <3>2
  <2> QED
    BY <2>2, <2>3
<1>9. places \cup {next} = {longer[i] : i \in all}
  BY <1>3, <1>4, <1>6
<1>10. \A i \in all : added[i][2] = LineAt(chars, longer[i])
  BY <1>2, <1>3, <1>4, <1>5, <1>6
<1> QED
  BY <1>7, <1>8, <1>9, <1>10 DEF Listed, all, added

------------------------------------------------------------------------------
(* What is in the buffer                                                   *)

\* Of what was read up to p, the last characters, those from a place on; and
\* nothing was read into the byte behind them all.
Buffered(chars, p, data, from, last) ==
  /\ p \in last..Len(chars)
  /\ \A b \in from..(last - 1) : data[b] = chars[p - last + b + 1]
  /\ data[BUFSIZE] \in {Junk, 0}

\* The line in the buffer is a piece of the text.
LEMMA PieceIs ==
  ASSUME local \in Locals, local.line_start <= local.last,
         NEW chars \in Seq(Byte), \A j \in DOMAIN chars : chars[j] # 0,
         NEW p \in Nat, Buffered(chars, p, local.data, local.line_start, local.last)
  PROVE  LET from == local.line_start
             n == p - local.last + from
             m == p - local.last + LineEnd
         IN  /\ n \in Nat /\ m \in Nat /\ n <= m /\ m <= Len(chars)
             /\ String(Ended, from) = SubSeq(chars, n + 1, m)
             /\ String(Ended, from) \in Seq(Chars)
             /\ Len(String(Ended, from)) = LineEnd - from
             /\ \A i \in 1..(LineEnd - from) : String(Ended, from)[i] = chars[n + i]
             /\ SubSeq([k \in 1..BUFSIZE |-> Ended[k - 1]], from + 1, LineEnd)
                  = SubSeq(chars, n + 1, m)
             /\ Unbroken(chars, n + 1, m)
             /\ LineEnd < local.last => m < Len(chars) /\ chars[m + 1] = NL
             /\ LineEnd = local.last => m = p
<1> DEFINE from == local.line_start
           last == local.last
           end == LineEnd
           n == p - last + from
           m == p - last + end
           piece == SubSeq(chars, n + 1, m)
<1>1. /\ from \in 0..BUFSIZE /\ last \in 0..BUFSIZE /\ from <= last /\ BUFSIZE \in Nat
      /\ end \in from..last /\ end \in 0..BUFSIZE
      /\ end = last \/ local.data[end] = NL
      /\ \A b \in from..(end - 1) : local.data[b] # NL
  BY LineEndIs, UtilitiesAssumption DEF Locals
<1>2. /\ p \in last..Len(chars) /\ Len(chars) \in Nat
      /\ \A b \in from..(last - 1) : local.data[b] = chars[p - last + b + 1]
  BY DEF Buffered
<1>3. /\ Ended \in Buffers /\ Ended[end] = 0
      /\ \A b \in 0..BUFSIZE : b # end => Ended[b] = local.data[b]
  BY EndedIs
<1> HIDE DEF from, last, end
<1>4. n \in Nat /\ m \in Nat /\ n <= m /\ m <= Len(chars) /\ m - n = end - from
  BY <1>1, <1>2
<1>5. ASSUME NEW b \in from..(end - 1)
      PROVE  /\ p - last + b + 1 \in 1..Len(chars) /\ p - last + b + 1 = n + (b - from + 1)
             /\ Ended[b] = chars[p - last + b + 1]
  <2>1. b \in from..(last - 1) /\ b \in 0..BUFSIZE /\ b # end
    BY <1>1
  <2>2. p - last + b + 1 \in 1..Len(chars) /\ p - last + b + 1 = n + (b - from + 1)
    BY <1>1, <1>2
  <2> QED
    BY <1>2, <1>3, <2>1, <2>2
<1>6. ASSUME NEW i \in 1..(end - from)
      PROVE  Ended[from + i - 1] = chars[n + i] /\ n + i \in 1..Len(chars)
  <2> DEFINE b == from + i - 1
  <2>1. b \in from..(end - 1) /\ b - from + 1 = i
    BY <1>1
  <2> HIDE DEF b
  <2>2. Ended[b] = chars[n + i] /\ n + i \in 1..Len(chars)
    <3>1. p - last + b + 1 = n + i
      BY <1>5, <2>1
    <3> HIDE DEF n
    <3> QED
      BY <1>5, <2>1, <3>1
  <2> QED
    BY <2>2 DEF b
<1>7. /\ piece \in Seq(Byte) /\ Len(piece) = end - from
      /\ \A i \in 1..(end - from) : piece[i] = chars[n + i]
  <2>1. /\ piece \in Seq(Byte) /\ Len(piece) = m - n
        /\ \A i \in 1..(m - n) : piece[i] = chars[n + i]
    <3> HIDE DEF n, m
    <3> QED
      BY <1>4, PieceOf
  <2> HIDE DEF piece, n, m
  <2> QED
    BY <1>4, <2>1
<1>8. piece \in Seq(Chars)
  <2> HIDE DEF piece, n, m
  <2>1. piece \in [1..(end - from) -> Byte] /\ end - from \in Nat
    BY <1>1, <1>7
  <2>2. piece \in [1..(end - from) -> Chars]
    BY <2>1 DEF Chars
  <2> QED
    BY <2>1, <2>2, SequenceOf
<1> HIDE DEF n, m, piece
<1>9. String(Ended, from) = piece /\ String(Ended, from) \in Seq(Chars)
  <2>1. PICK zero \in from..end :
          /\ Ended[zero] = 0
          /\ \A b \in from..(zero - 1) : Ended[b] # 0
          /\ String(Ended, from) = [k \in 1..(zero - from) |-> Ended[from + k - 1]]
          /\ String(Ended, from) \in Seq(Chars)
          /\ Len(String(Ended, from)) = zero - from
    <3>1. from \in 0..BUFSIZE /\ end \in from..BUFSIZE
      BY <1>1
    <3> QED
      BY <1>3, <3>1, StringIs
  <2>2. zero = end
    <3> SUFFICES ASSUME zero # end PROVE FALSE
      OBVIOUS
    <3>1. zero \in from..(end - 1)
      BY <1>1
    <3>2. Ended[zero] = chars[p - last + zero + 1] /\ p - last + zero + 1 \in 1..Len(chars)
      BY <1>5, <3>1
    <3> QED
      BY <2>1, <3>2
  <2>3. \A i \in 1..(end - from) : String(Ended, from)[i] = piece[i]
    BY <1>6, <1>7, <2>1, <2>2
  <2> QED
    BY <1>7, <1>8, <2>1, <2>2, <2>3, SeqEqual
<1>10. SubSeq([k \in 1..BUFSIZE |-> Ended[k - 1]], from + 1, end) = piece
  <2> DEFINE bytes == [k \in 1..BUFSIZE |-> Ended[k - 1]]
             sub == SubSeq(bytes, from + 1, end)
  <2>1. bytes \in Seq(Chars) /\ Len(bytes) = BUFSIZE
    <3>1. bytes \in [1..BUFSIZE -> Chars]
      <4>1. \A k \in 1..BUFSIZE : k - 1 \in 0..BUFSIZE
        BY <1>1
      <4> QED
        BY <1>3, <4>1 DEF Buffers
    <3> QED
      BY <1>1, <3>1, SequenceOf
  <2>2. \A k \in 1..BUFSIZE : bytes[k] = Ended[k - 1]
    OBVIOUS
  <2> HIDE DEF bytes
  <2>3. /\ sub \in Seq(Chars) /\ Len(sub) = end - from
        /\ \A i \in 1..(end - from) : sub[i] = bytes[from + i]
    <3>1. from \in Nat /\ end \in Nat /\ from <= end /\ end <= Len(bytes)
      BY <1>1, <2>1
    <3> QED
      BY <2>1, <3>1, PieceOf
  <2> HIDE DEF sub
  <2>4. \A i \in 1..(end - from) : from + i \in 1..BUFSIZE /\ (from + i) - 1 = from + i - 1
    BY <1>1
  <2>5. \A i \in 1..(end - from) : sub[i] = piece[i]
    BY <1>6, <1>7, <2>2, <2>3, <2>4
  <2>6. sub = piece
    BY <1>7, <1>8, <2>3, <2>5, SeqEqual
  <2> QED
    BY <2>6 DEF sub, bytes
<1>11. Unbroken(chars, n + 1, m)
  <2> SUFFICES ASSUME NEW j \in (n + 1)..m PROVE chars[j] # NL
    BY DEF Unbroken
  <2> DEFINE b == from + (j - n) - 1
  <2>1. b \in from..(end - 1) /\ b \in from..(last - 1) /\ b - from + 1 = j - n
    BY <1>1, <1>4
  <2> HIDE DEF b
  <2>2. p - last + b + 1 = j
    BY <1>4, <1>5, <2>1
  <2> QED
    BY <1>1, <1>2, <2>1, <2>2
<1>12. ASSUME end < last
       PROVE  m < Len(chars) /\ chars[m + 1] = NL
  <2>1. end \in from..(last - 1) /\ p - last + end + 1 = m + 1 /\ m < Len(chars)
    BY <1>1, <1>2, <1>12 DEF m
  <2>2. local.data[end] = NL
    BY <1>1, <1>12
  <2> QED
    BY <1>2, <2>1, <2>2
<1>13. end = last => m = p
  BY <1>1, <1>2 DEF m
<1> QED
  BY <1>4, <1>6, <1>7, <1>9, <1>10, <1>11, <1>12, <1>13 DEF n, m, piece, from, last, end

------------------------------------------------------------------------------
(* The entries of the directory, one after the other                       *)

TextAt(t, k) == CharsOf(t, Dentries[k].inode_index)

\* What GrepReports is about.
Searchable(t, k) ==
  Dentries[k].file_type = "file" /\ Dentries[k].file_name[1] # Dot[1] /\ IsText(TextAt(t, k))

\* Of entry k, the lines found among its first n characters are reported.
SearchedTo(out, t, arg, k, n) ==
  Listed(out, Dentries[k].file_name, TextAt(t, k), FoundTo(TextAt(t, k), arg, n))

Searched(out, t, arg, k) == Searchable(t, k) => SearchedTo(out, t, arg, k, Len(TextAt(t, k)))
NotSearched(out, k) == Unlisted(out, Dentries[k].file_name)

\* How far the search of a text has come: up to the line in the buffer.
Reading(e, l, out, t, arg, k) ==
  /\ l.last < BUFSIZE
  /\ Buffered(TextAt(t, k), e.position, l.data, 0, l.last)
  /\ Between(TextAt(t, k), e.position - l.last)
  /\ SearchedTo(out, t, arg, k, e.position - l.last)

Searching(e, l, out, t, arg, k) ==
  /\ Buffered(TextAt(t, k), e.position, l.data, l.line_start, l.last)
  /\ l.line_start # 0 => l.line_start < l.last
  /\ l.cnt = 0 \/ l.last < BUFSIZE => e.position = Len(TextAt(t, k))
  /\ Between(TextAt(t, k), e.position - l.last + l.line_start)
  /\ SearchedTo(out, t, arg, k, e.position - l.last + l.line_start)

InFile(label, e, l, out, t, arg, k) ==
  /\ label = "grep_open" => NotSearched(out, k)
  /\ label \in {"grep_read", "grep_line", "grep_close"} =>
       /\ l.file \in Fds \ {l.fd} /\ e.type = Dentries[k].file_type
       /\ Searchable(t, k) =>
            /\ e.inode = Dentries[k].inode_index
            /\ label = "grep_read" => Reading(e, l, out, t, arg, k)
            /\ label = "grep_line" => Searching(e, l, out, t, arg, k)
            /\ label = "grep_close" => SearchedTo(out, t, arg, k, Len(TextAt(t, k)))

\* The directory is open at f[l.fd]; the entries before the one it was read up
\* to are searched, those after it not yet.
InDirectory(label, f, l, out, t, arg) ==
  LET at == f[l.fd].position
  IN  /\ l.fd \in Fds /\ f[l.fd].type = "dir" /\ f[l.fd].flags = 1
      /\ at \in 0..Len(Dentries)
      /\ out \in Reports
      /\ \A k \in 1..(at - 1) : Searched(out, t, arg, k)
      /\ \A k \in (at + 1)..Len(Dentries) : NotSearched(out, k)
      /\ IF label = "grep_entry" THEN at # 0 => Searched(out, t, arg, at)
         ELSE at # 0 /\ l.fname = Dentries[at].file_name
              /\ InFile(label, f[l.file], l, out, t, arg, at)

GrepLabels == {"grep_entry", "grep_open", "grep_read", "grep_line", "grep_close"}

Grepping ==
  /\ pc = "grep" => output = <<>>
  /\ pc \in GrepLabels /\ ~taken =>
       InDirectory(pc, filed_array, local, output, text, command.arg)
  /\ pc = "exit" /\ rval = 0 /\ Main(command.name) = "grep" /\ ~taken =>
       \A k \in DOMAIN Dentries : Searched(output, text, command.arg, k)

\* The inductive invariant.
GrepInv == ShowInv /\ Grepping

LEMMA EntriesAre ==
  /\ Len(Dentries) \in Nat /\ DOMAIN Dentries = 1..Len(Dentries)
  /\ \A k \in DOMAIN Dentries :
       /\ Dentries[k].inode_index \in DOMAIN Inodes
       /\ Dentries[k].file_name \in Seq(Byte)
       /\ \A l \in DOMAIN Dentries : Dentries[k].file_name = Dentries[l].file_name => k = l
<1>1. Len(Dentries) \in Nat /\ DOMAIN Dentries = 1..Len(Dentries)
  BY FileSystemAssumption
<1>2. ASSUME NEW k \in DOMAIN Dentries
      PROVE  Dentries[k].inode_index \in DOMAIN Inodes /\ Dentries[k].file_name \in Seq(Byte)
  <2>1. Dentries[k] \in Dentry
    BY <1>2, FileSystemAssumption
  <2> QED
    BY <2>1, NameType DEF Dentry
<1>3. \A k, l \in DOMAIN Dentries : Dentries[k].file_name = Dentries[l].file_name => k = l
  BY DirectoryAssumption
<1> QED
  BY <1>1, <1>2, <1>3

\* grep's buffer takes the whole of a name.
LEMMA NamesAreWhole ==
  ASSUME NEW k \in DOMAIN Dentries
  PROVE  AllNames(SBUFSIZE - 1)[k] = Dentries[k].file_name
<1> DEFINE name == Dentries[k].file_name
           n == SBUFSIZE - 1
<1>1. AllNames(n)[k] = memcpy(name, 0, Least(n, Len(Cut(name))))
  BY DEF AllNames
<1>2. Cut(name) = name /\ name \in Seq(Byte) /\ Len(name) \in 1..FILE_NAME_LENGTH
  BY NameFits, DirectoryAssumption
<1> HIDE DEF name
<1>3. Len(name) <= n /\ Len(name) \in Nat /\ n \in Nat
  BY <1>2, FileSystemAssumption, UtilitiesAssumption
<1> HIDE DEF n
<1>4. Least(n, Len(name)) = Len(name)
  BY <1>3 DEF Least
<1>5. memcpy(name, 0, Len(name)) = SubSeq(name, 1, Len(name))
  BY <1>2 DEF memcpy
<1> QED
  BY <1>1, <1>2, <1>4, <1>5, WholeSeq DEF name, n

LEMMA TextAtType ==
  ASSUME text \in Texts, NEW k \in DOMAIN Dentries
  PROVE  /\ TextAt(text, k) \in Seq(Byte) /\ Len(TextAt(text, k)) \in Nat
         /\ Len(TextAt(text, k)) = Inodes[Dentries[k].inode_index].file_length
BY EntriesAre, CharsType DEF TextAt

LEMMA PatternType ==
  ASSUME command \in Typed
  PROVE  command.arg \in Seq(Byte) /\ command.arg # <<>>
BY UtilitiesAssumption

\* Then all there is to report is reported.
LEMMA GrepInvReports == GrepInv => GrepReports
<1> SUFFICES ASSUME GrepInv, pc = "exit", rval = 0, Main(command.name) = "grep", ~taken,
                    NEW k \in DOMAIN Dentries, Dentries[k].file_type = "file",
                    Dentries[k].file_name[1] # Dot[1],
                    IsText(Content(Dentries[k].inode_index))
             PROVE  Listed(output, Dentries[k].file_name, Content(Dentries[k].inode_index),
                           Found(Content(Dentries[k].inode_index), command.arg))
  BY DEF GrepReports
<1> DEFINE chars == TextAt(text, k)
<1>1. Content(Dentries[k].inode_index) = chars
  BY EntriesAre, ContentIs DEF TextAt
<1>2. Searched(output, text, command.arg, k)
  BY DEF GrepInv, Grepping
<1>3. SearchedTo(output, text, command.arg, k, Len(chars))
  BY <1>1, <1>2 DEF Searched, Searchable
<1>4. FoundTo(chars, command.arg, Len(chars)) = Found(chars, command.arg)
  <2>1. chars \in Seq(Byte)
    BY TextAtType DEF GrepInv, ShowInv, ShellInv
  <2> HIDE DEF chars
  <2>2. \A j \in DOMAIN chars : j <= Len(chars)
    BY <2>1
  <2> QED
    BY <2>2 DEF FoundTo, Found, LineStarts
<1> QED
  BY <1>1, <1>3, <1>4 DEF SearchedTo

\* A read moves its own descriptor's position and nothing else.
LEMMA ReadMoves ==
  ASSUME TypeInv, NEW fd \in Fds, NEW n, Read(fd, n)
  PROVE  /\ \A other \in Fds \ {fd} : filed_array'[other] = filed_array[other]
         /\ filed_array'[fd].type = filed_array[fd].type
         /\ filed_array'[fd].inode = filed_array[fd].inode
         /\ filed_array'[fd].flags = filed_array[fd].flags
<1>1. filed_array \in [Fds -> Entries] /\ filed_array[fd] \in Descriptor
  BY DEF TypeInv, Arrays, Entries
<1>2. CASE Fail(<<"read", fd, n>>)
  BY <1>2 DEF Fail
<1>3. CASE ~Fail(<<"read", fd, n>>)
  <2>1. \E ret, data, step : Deliver(fd, n, ret, data, step)
    BY <1>3 DEF Read, FileRead, DirectoryRead, RtcRead
  <2>2. PICK step : filed_array' = [filed_array EXCEPT ![fd].position = @ + step]
    BY <2>1 DEF Deliver
  <2> QED
    BY <1>1, <2>2 DEF Descriptor
<1> QED
  BY <1>2, <1>3

LEMMA GrepStartSearches ==
  ASSUME GrepInv, GrepStart
  PROVE  Grepping'
<1>1. /\ pc = "grep" /\ Open(Dot) /\ UNCHANGED <<text, command, output, taken>>
      /\ \/ pc' = "exit" /\ rval' = 2
         \/ /\ result'.ret # -1 /\ pc' = "grep_entry"
            /\ local' = [local EXCEPT !.fd = result'.ret]
  BY DEF GrepStart, Begin, Exit, Goto, Same
<1>2. CASE pc' = "exit" /\ rval' = 2
  BY <1>2 DEF Grepping, GrepLabels
<1>3. CASE result'.ret # -1 /\ pc' = "grep_entry" /\ local' = [local EXCEPT !.fd = result'.ret]
  <2>1. PICK k \in First(Dot) :
          /\ result'.ret \in Fds
          /\ filed_array' = [filed_array EXCEPT ![result'.ret] = OpenEntry(result'.ret, Dentries[k])]
    BY <1>1, <1>3, OpenGives DEF GrepInv, ShowInv, ShellInv, Free
  <2> DEFINE e == OpenEntry(result'.ret, Dentries[k])
  <2>2. local'.fd = result'.ret /\ filed_array'[result'.ret] = e
    BY <1>3, <2>1 DEF GrepInv, ShowInv, ShellInv, Locals, TypeInv, Arrays
  <2>3. e.type = "dir" /\ e.position = 0 /\ e.flags = 1
    BY UtilitiesAssumption DEF OpenEntry
  <2>4. output' = <<>>
    BY <1>1 DEF GrepInv, Grepping
  <2>5. output' \in Reports /\ \A j : NotSearched(output', j)
    BY <2>4 DEF Reports, NotSearched, Unlisted
  <2>6. 0 \in 0..Len(Dentries)
    BY EntriesAre
  <2> HIDE DEF e
  <2>7. InDirectory(pc', filed_array', local', output', text', command'.arg)
    BY <1>3, <2>1, <2>2, <2>3, <2>5, <2>6 DEF InDirectory
  <2> QED
    BY <1>3, <2>7 DEF Grepping
<1> QED
  BY <1>1, <1>2, <1>3

\* A name that is read is whole, and an entry of that name is next.
LEMMA GrepEntrySearches ==
  ASSUME GrepInv, GrepEntry
  PROVE  Grepping'
<1> DEFINE fd == local.fd
           e == filed_array[fd]
           at == e.position
           r == result'.ret
           n == SBUFSIZE - 1
<1>1. /\ pc = "grep_entry" /\ Read(fd, n) /\ UNCHANGED <<text, command, output, taken>>
      /\ \/ r = 0 /\ pc' = "exit"
         \/ r # 0 /\ r = -1 /\ pc' = "exit" /\ rval' = 3
         \/ /\ r # 0 /\ r # -1
            /\ pc' = IF Delivered(fd)[1] = Dot[1] THEN "grep_entry" ELSE "grep_open"
            /\ local' = [local EXCEPT !.fname = Delivered(fd)]
  BY DEF GrepEntry, Exit, Goto, Same
<1>2. TypeInv /\ n \in Nat \ {0} /\ filed_array \in Arrays /\ local \in Locals
  BY UtilitiesAssumption DEF GrepInv, ShowInv, ShellInv, TypeInv
<1>3. CASE taken \/ r = -1
  BY <1>1, <1>3 DEF Grepping, GrepLabels
<1>4. CASE ~taken /\ r # -1
  <2>1. InDirectory(pc, filed_array, local, output, text, command.arg)
    BY <1>1, <1>4 DEF GrepInv, Grepping, GrepLabels
  <2>2. /\ fd \in Fds /\ e.type = "dir" /\ e.flags = 1 /\ at \in 0..Len(Dentries)
        /\ output \in Reports
        /\ \A k \in 1..(at - 1) : Searched(output, text, command.arg, k)
        /\ \A k \in (at + 1)..Len(Dentries) : NotSearched(output, k)
        /\ at # 0 => Searched(output, text, command.arg, at)
    BY <1>1, <2>1 DEF InDirectory
  <2>3. DirectoryRead(fd, n)
    BY <1>1, <1>4, <2>2 DEF Read, Fail, Return, FileRead, RtcRead
  <2>4. /\ at < Len(Dentries) => r # 0 /\ Delivered(fd) = AllNames(n)[at + 1]
        /\ ~(at < Len(Dentries)) => r = 0
        /\ filed_array' = [filed_array EXCEPT ![fd].position = at + 1]
    BY <1>2, <2>2, <2>3, NameReadGives
  <2>5. Len(Dentries) \in Nat /\ DOMAIN Dentries = 1..Len(Dentries)
    BY EntriesAre
  <2>6. \A k \in 1..at : Searched(output, text, command.arg, k)
    <3> HIDE DEF at, e
    <3> QED
      BY <2>2, <2>5
  <2>7. CASE r = 0
    <3>1. at = Len(Dentries) /\ pc' = "exit"
      <4> HIDE DEF at, e
      <4> QED
        BY <1>1, <2>2, <2>4, <2>5, <2>7
    <3>2. \A k \in DOMAIN Dentries : Searched(output', text', command'.arg, k)
      BY <1>1, <2>5, <2>6, <3>1
    <3> QED
      BY <3>1, <3>2 DEF Grepping, GrepLabels
  <2>8. CASE r # 0
    <3>1. /\ pc' = IF Delivered(fd)[1] = Dot[1] THEN "grep_entry" ELSE "grep_open"
          /\ local' = [local EXCEPT !.fname = Delivered(fd)]
      BY <1>1, <1>4, <2>8
    <3>2. at + 1 \in DOMAIN Dentries /\ at \in Nat
      <4> HIDE DEF at, e
      <4> QED
        BY <2>2, <2>4, <2>5, <2>8
    <3> DEFINE name == Dentries[at + 1].file_name
    <3>3. Delivered(fd) = name
      <4> HIDE DEF at, e
      <4> QED
        BY <2>4, <2>5, <2>8, <3>2, NamesAreWhole DEF n
    <3>4. local'.fname = name /\ local'.fd = fd
      BY <1>2, <3>1, <3>3 DEF Locals
    <3>5. filed_array'[fd] = [e EXCEPT !.position = at + 1]
      BY <1>2, <2>2, <2>4 DEF Arrays
    <3>6. /\ filed_array'[fd].type = "dir" /\ filed_array'[fd].flags = 1
          /\ filed_array'[fd].position = at + 1
      BY <1>2, <2>2, <3>5 DEF Arrays, Entries, Descriptor
    <3> HIDE DEF at, e, name
    <3>7. at + 1 \in 0..Len(Dentries) /\ at + 1 # 0 /\ (at + 1) - 1 = at
          /\ at + 1 \in (at + 1)..Len(Dentries)
          /\ \A k \in ((at + 1) + 1)..Len(Dentries) : k \in (at + 1)..Len(Dentries)
      BY <2>5, <3>2
    <3>8. NotSearched(output, at + 1)
      BY <2>2, <3>7
    <3>9. CASE pc' = "grep_entry"
      <4>1. name[1] = Dot[1]
        BY <3>1, <3>3, <3>9
      <4>2. Searched(output, text, command.arg, at + 1)
        BY <4>1 DEF Searched, Searchable, name
      <4>3. InDirectory(pc', filed_array', local', output', text', command'.arg)
        BY <1>1, <2>2, <2>6, <3>4, <3>6, <3>7, <3>9, <4>2 DEF InDirectory
      <4> QED
        BY <3>9, <4>3 DEF Grepping
    <3>10. CASE pc' = "grep_open"
      <4>1. \A f : InFile("grep_open", f, local', output, text, command.arg, at + 1)
        BY <3>8 DEF InFile
      <4>2. local'.fname = Dentries[at + 1].file_name
        BY <3>4 DEF name
      <4>3. InDirectory(pc', filed_array', local', output', text', command'.arg)
        BY <1>1, <2>2, <2>6, <3>4, <3>6, <3>7, <3>10, <4>1, <4>2 DEF InDirectory
      <4> QED
        BY <3>10, <4>3 DEF Grepping
    <3> QED
      BY <3>1, <3>9, <3>10
  <2> QED
    BY <2>7, <2>8
<1> QED
  BY <1>3, <1>4

\* The file that is opened is the entry's, at a descriptor of its own.
LEMMA GrepOpenSearches ==
  ASSUME GrepInv, GrepOpen
  PROVE  Grepping'
<1> DEFINE fd == local.fd
           at == filed_array[fd].position
           file == result'.ret
<1>1. /\ pc = "grep_open" /\ Open(local.fname) /\ UNCHANGED <<text, command, output, taken>>
      /\ \/ pc' = "exit" /\ rval' = 3
         \/ /\ file # -1 /\ pc' = "grep_read"
            /\ local' = [local EXCEPT !.file = file, !.last = 0, !.data = NoLocals.data]
  BY DEF GrepOpen, Exit, Goto, Same
<1>2. TypeInv /\ filed_array \in Arrays /\ local \in Locals /\ text \in Texts /\ command \in Typed
  BY DEF GrepInv, ShowInv, ShellInv, TypeInv
<1>3. CASE taken \/ (pc' = "exit" /\ rval' = 3)
  BY <1>1, <1>3 DEF Grepping, GrepLabels
<1>4. CASE ~taken /\ file # -1 /\ pc' = "grep_read"
           /\ local' = [local EXCEPT !.file = file, !.last = 0, !.data = NoLocals.data]
  <2>1. InDirectory("grep_open", filed_array, local, output, text, command.arg)
    BY <1>1, <1>4 DEF GrepInv, Grepping, GrepLabels
  <2>2. /\ fd \in Fds /\ filed_array[fd].type = "dir" /\ filed_array[fd].flags = 1
        /\ at \in 0..Len(Dentries) /\ output \in Reports
        /\ \A k \in 1..(at - 1) : Searched(output, text, command.arg, k)
        /\ \A k \in (at + 1)..Len(Dentries) : NotSearched(output, k)
        /\ at # 0 /\ local.fname = Dentries[at].file_name /\ NotSearched(output, at)
    BY <2>1 DEF InDirectory, InFile
  <2>3. at \in DOMAIN Dentries
    <3> HIDE DEF at
    <3> QED
      BY <2>2, EntriesAre
  <2>4. PICK k \in First(local.fname) :
          /\ file \in Free
          /\ filed_array' = [filed_array EXCEPT ![file] = OpenEntry(file, Dentries[k])]
    BY <1>1, <1>2, <1>4, OpenGives DEF GrepInv, ShowInv, ShellInv
  <2>5. k = at
    BY <2>2, <2>3, FirstIs
  <2> DEFINE e == OpenEntry(file, Dentries[at])
             chars == TextAt(text, at)
  <2>6. /\ file \in Fds \ {fd} /\ filed_array'[file] = e /\ filed_array'[fd] = filed_array[fd]
    BY <1>2, <2>2, <2>4, <2>5 DEF Free, Arrays
  <2>7. /\ e.type = Dentries[at].file_type /\ e.position = 0
        /\ e.type = "file" => e.inode = Dentries[at].inode_index
    BY DEF OpenEntry
  <2>8. /\ local'.fd = fd /\ local'.file = file /\ local'.fname = local.fname
        /\ local'.last = 0 /\ local'.data = NoLocals.data
    BY <1>2, <1>4 DEF Locals
  <2> HIDE DEF e, at, fd, file
  <2>9. Reading(e, local', output, text, command.arg, at)
    <3>1. chars \in Seq(Byte) /\ Len(chars) \in Nat
      BY <1>2, <2>3, TextAtType
    <3> HIDE DEF chars
    <3>2. BUFSIZE \in Nat /\ 0 < BUFSIZE /\ NoLocals.data[BUFSIZE] = Junk
      BY UtilitiesAssumption DEF NoLocals
    <3>3. Buffered(chars, 0, NoLocals.data, 0, 0)
      BY <3>1, <3>2 DEF Buffered
    <3>4. Between(chars, 0)
      BY DEF Between
    <3>5. FoundTo(chars, command.arg, 0) = {}
      BY <3>1 DEF FoundTo, Found, LineStarts
    <3>6. SearchedTo(output, text, command.arg, at, 0)
      <4>1. Listed(output, Dentries[at].file_name, chars, {})
        BY <2>2, NothingListed DEF NotSearched
      <4> QED
        BY <3>5, <4>1 DEF SearchedTo, chars
    <3>7. e.position - local'.last = 0
      BY <2>7, <2>8
    <3> QED
      BY <2>7, <2>8, <3>2, <3>3, <3>4, <3>6, <3>7 DEF Reading, chars
  <2>10. InFile("grep_read", e, local', output, text, command.arg, at)
    BY <2>6, <2>7, <2>8, <2>9 DEF InFile, Searchable
  <2>11. InDirectory(pc', filed_array', local', output', text', command'.arg)
    BY <1>1, <1>4, <2>2, <2>6, <2>8, <2>10 DEF InDirectory, at
  <2> QED
    BY <1>4, <2>11 DEF Grepping
<1> QED
  BY <1>1, <1>3, <1>4

\* What is read goes behind the rest of a line that was kept.
Appended(filled, data, last, new) ==
  \A b \in 0..BUFSIZE : filled[b] = IF b - last + 1 \in DOMAIN new
                                    THEN new[b - last + 1] ELSE data[b]

LEMMA FillsUp ==
  ASSUME NEW chars \in Seq(Byte), NEW p \in Nat, NEW r \in Nat, p + r <= Len(chars),
         NEW data, NEW last \in Nat, Buffered(chars, p, data, 0, last), last + r <= BUFSIZE,
         NEW new \in Seq(Byte), Len(new) = r, \A i \in 1..r : new[i] = chars[p + i],
         NEW filled, Appended(filled, data, last, new)
  PROVE  Buffered(chars, p + r, filled, 0, last + r)
<1>1. BUFSIZE \in Nat /\ DOMAIN new = 1..r
  BY UtilitiesAssumption
<1>2. /\ p \in last..Len(chars) /\ data[BUFSIZE] \in {Junk, 0}
      /\ \A b \in 0..(last - 1) : data[b] = chars[p - last + b + 1]
  BY DEF Buffered
<1>3. \A b \in 0..BUFSIZE : filled[b] = IF b - last + 1 \in 1..r
                                        THEN new[b - last + 1] ELSE data[b]
  BY <1>1 DEF Appended
<1>4. ASSUME NEW b \in 0..((last + r) - 1)
      PROVE  filled[b] = chars[(p + r) - (last + r) + b + 1]
  <2>1. b \in 0..BUFSIZE /\ (p + r) - (last + r) + b + 1 = p - last + b + 1
    BY <1>1, <1>2
  <2>2. CASE b < last
    <3>1. ~(b - last + 1 \in 1..r) /\ b \in 0..(last - 1)
      BY <2>2
    <3> QED
      BY <1>2, <1>3, <2>1, <3>1
  <2>3. CASE ~(b < last)
    <3>1. b - last + 1 \in 1..r /\ p + (b - last + 1) = p - last + b + 1
      BY <1>2, <2>3
    <3>2. filled[b] = new[b - last + 1]
      BY <1>3, <2>1, <3>1
    <3>3. new[b - last + 1] = chars[p + (b - last + 1)]
      BY <3>1
    <3> QED
      BY <2>1, <3>1, <3>2, <3>3
  <2> QED
    BY <2>2, <2>3
<1>5. filled[BUFSIZE] \in {Junk, 0}
  <2>1. BUFSIZE \in 0..BUFSIZE /\ ~(BUFSIZE - last + 1 \in 1..r)
    BY <1>1
  <2> QED
    BY <1>2, <1>3, <2>1
<1>6. p + r \in (last + r)..Len(chars)
  BY <1>2
<1> QED
  BY <1>4, <1>5, <1>6 DEF Buffered

LEMMA GrepReadSearches ==
  ASSUME GrepInv, GrepRead
  PROVE  Grepping'
<1> DEFINE fd == local.fd
           at == filed_array[fd].position
           file == local.file
           e == filed_array[file]
           last == local.last
           room == BUFSIZE - last
           r == result'.ret
           new == Delivered(file)
           data == [b \in 0..BUFSIZE |-> IF b - last + 1 \in DOMAIN new
                                         THEN new[b - last + 1] ELSE local.data[b]]
<1>1. /\ pc = "grep_read" /\ Read(file, room) /\ UNCHANGED <<text, command, output, taken>>
      /\ \/ r = -1 /\ pc' = "exit" /\ rval' = 3
         \/ /\ r # -1 /\ pc' = "grep_line"
            /\ local' = [local EXCEPT !.cnt = Len(new), !.last = last + Len(new),
                                      !.line_start = 0, !.data = data]
  BY DEF GrepRead, Exit, Goto, Same
<1>2. TypeInv /\ filed_array \in Arrays /\ local \in Locals /\ text \in Texts /\ command \in Typed
  BY DEF GrepInv, ShowInv, ShellInv, TypeInv
<1>3. CASE taken \/ (pc' = "exit" /\ rval' = 3)
  BY <1>1, <1>3 DEF Grepping, GrepLabels
<1>4. CASE ~taken /\ r # -1 /\ pc' = "grep_line"
           /\ local' = [local EXCEPT !.cnt = Len(new), !.last = last + Len(new),
                                     !.line_start = 0, !.data = data]
  <2>1. InDirectory("grep_read", filed_array, local, output, text, command.arg)
    BY <1>1, <1>4 DEF GrepInv, Grepping, GrepLabels
  <2>2. /\ fd \in Fds /\ filed_array[fd].type = "dir" /\ filed_array[fd].flags = 1
        /\ at \in 0..Len(Dentries) /\ output \in Reports
        /\ \A k \in 1..(at - 1) : Searched(output, text, command.arg, k)
        /\ \A k \in (at + 1)..Len(Dentries) : NotSearched(output, k)
        /\ at # 0 /\ local.fname = Dentries[at].file_name
        /\ InFile("grep_read", e, local, output, text, command.arg, at)
    BY <2>1 DEF InDirectory
  <2>3. /\ file \in Fds \ {fd} /\ e.type = Dentries[at].file_type
        /\ Searchable(text, at) => /\ e.inode = Dentries[at].inode_index
                                   /\ Reading(e, local, output, text, command.arg, at)
    BY <2>2 DEF InFile
  <2>4. at \in DOMAIN Dentries
    <3> HIDE DEF at
    <3> QED
      BY <2>2, EntriesAre
  <2>5. /\ filed_array'[fd] = filed_array[fd]
        /\ filed_array'[file].type = e.type /\ filed_array'[file].inode = e.inode
    <3> HIDE DEF room
    <3> QED
      BY <1>1, <1>2, <2>2, <2>3, ReadMoves
  <2>6. local'.fd = fd /\ local'.file = file /\ local'.fname = local.fname
        /\ local'.cnt = Len(new) /\ local'.last = last + Len(new) /\ local'.line_start = 0
        /\ local'.data = data
    <3> HIDE DEF data, new, last
    <3> QED
      BY <1>2, <1>4 DEF Locals
  <2>7. ASSUME Searchable(text, at)
        PROVE  Searching(filed_array'[file], local', output, text, command.arg, at)
    <3> DEFINE chars == TextAt(text, at)
               p == e.position
    <3>1. /\ e.inode = Dentries[at].inode_index /\ last < BUFSIZE
          /\ Buffered(chars, p, local.data, 0, last)
          /\ Between(chars, p - last)
          /\ SearchedTo(output, text, command.arg, at, p - last)
      BY <2>3, <2>7 DEF Reading
    <3>2. last \in 0..BUFSIZE /\ BUFSIZE \in Nat
      BY <1>2, UtilitiesAssumption DEF Locals
    <3>3. room \in Nat \ {0} /\ room = BUFSIZE - last
      <4> HIDE DEF last
      <4> QED
        BY <3>1, <3>2
    <3> HIDE DEF room
    <3>4. FileRead(file, room)
      BY <1>1, <1>4, <2>3, <2>7 DEF Read, Fail, Return, DirectoryRead, RtcRead, Searchable
    <3>5. /\ p \in Nat /\ r \in Nat /\ p + r <= Inodes[e.inode].file_length
          /\ r < room => p + r = Inodes[e.inode].file_length
          /\ r <= room
          /\ new = SubSeq(CharsOf(text, e.inode), p + 1, p + r)
          /\ filed_array' = [filed_array EXCEPT ![file].position = p + r]
      BY <1>2, <1>4, <2>3, <3>3, <3>4, FileReadGives
    <3>6. /\ CharsOf(text, e.inode) = chars /\ chars \in Seq(Byte)
          /\ Inodes[e.inode].file_length = Len(chars) /\ Len(chars) \in Nat
      BY <1>2, <2>4, <3>1, TextAtType DEF TextAt
    <3>7. filed_array'[file].position = p + r
      BY <1>2, <2>3, <3>5 DEF Arrays, Entries, Descriptor
    <3> HIDE DEF chars, p, r, e, at
    <3>8. Len(new) = r /\ Buffered(chars, p + r, data, 0, last + r)
      <4>1. last + r <= BUFSIZE /\ last \in Nat
        <5> HIDE DEF last
        <5> QED
          BY <3>2, <3>3, <3>5
      <4>2. new = SubSeq(chars, p + 1, p + r) /\ p + r <= Len(chars)
        <5> HIDE DEF new
        <5> QED
          BY <3>5, <3>6
      <4> HIDE DEF new, last
      <4>3. p \in Nat /\ r \in Nat /\ chars \in Seq(Byte)
            /\ Buffered(chars, p, local.data, 0, last)
        BY <3>1, <3>5, <3>6
      <4>4. Appended(data, local.data, last, new)
        BY DEF Appended
      <4>5. /\ SubSeq(chars, p + 1, p + r) \in Seq(Byte)
            /\ Len(SubSeq(chars, p + 1, p + r)) = (p + r) - p
            /\ \A i \in 1..((p + r) - p) : SubSeq(chars, p + 1, p + r)[i] = chars[p + i]
        <5>1. p + r \in Nat /\ p <= p + r
          BY <4>3
        <5> QED
          BY <4>2, <4>3, <5>1, PieceOf
      <4>6. (p + r) - p = r
        BY <4>3
      <4>7. new \in Seq(Byte) /\ Len(new) = r /\ \A i \in 1..r : new[i] = chars[p + i]
        BY <4>2, <4>5, <4>6
      <4> HIDE DEF data
      <4> QED
        BY <4>1, <4>2, <4>3, <4>4, <4>7, FillsUp
    <3> HIDE DEF new, data, last
    <3>9. p - last \in Int /\ (p + r) - (last + r) + 0 = p - last
      BY <3>2, <3>5
    <3>10. Len(new) = 0 \/ last + r < BUFSIZE => p + r = Len(chars)
      <4>1. r \in Nat /\ room \in Nat \ {0} /\ Len(new) = r /\ (r < room => p + r = Len(chars))
        BY <3>3, <3>5, <3>6, <3>8
      <4>2. room = BUFSIZE - last /\ last \in Nat /\ BUFSIZE \in Nat
        BY <3>2, <3>3
      <4> QED
        BY <4>1, <4>2
    <3> QED
      BY <2>6, <3>1, <3>7, <3>8, <3>9, <3>10 DEF Searching, chars
  <2>8. InFile("grep_line", filed_array'[file], local', output, text, command.arg, at)
    <3> HIDE DEF fd, at, file, e
    <3> QED
      BY <2>3, <2>5, <2>6, <2>7 DEF InFile
  <2>9. InDirectory(pc', filed_array', local', output', text', command'.arg)
    BY <1>1, <1>4, <2>2, <2>5, <2>6, <2>8 DEF InDirectory
  <2> QED
    BY <1>4, <2>9 DEF Grepping
<1> QED
  BY <1>1, <1>3, <1>4

LEMMA GrepCloseSearches ==
  ASSUME GrepInv, GrepClose
  PROVE  Grepping'
<1> DEFINE fd == local.fd
           at == filed_array[fd].position
           file == local.file
<1>1. /\ pc = "grep_close" /\ Close(file)
      /\ UNCHANGED <<text, command, output, taken, local>>
      /\ \/ pc' = "exit" /\ rval' = 3
         \/ pc' = "grep_entry"
  BY DEF GrepClose, Exit, Goto, Same
<1>2. filed_array \in Arrays
  BY DEF GrepInv, ShowInv, ShellInv, TypeInv
<1>3. CASE taken \/ (pc' = "exit" /\ rval' = 3)
  BY <1>1, <1>3 DEF Grepping, GrepLabels
<1>4. CASE ~taken /\ pc' = "grep_entry"
  <2>1. InDirectory("grep_close", filed_array, local, output, text, command.arg)
    BY <1>1, <1>4 DEF GrepInv, Grepping, GrepLabels
  <2>2. /\ fd \in Fds /\ filed_array[fd].type = "dir" /\ filed_array[fd].flags = 1
        /\ at \in 0..Len(Dentries) /\ output \in Reports
        /\ \A k \in 1..(at - 1) : Searched(output, text, command.arg, k)
        /\ \A k \in (at + 1)..Len(Dentries) : NotSearched(output, k)
        /\ file \in Fds \ {fd}
        /\ Searchable(text, at) => SearchedTo(output, text, command.arg, at, Len(TextAt(text, at)))
    BY <2>1 DEF InDirectory, InFile
  <2>3. filed_array'[fd] = filed_array[fd]
    BY <1>1, <1>2, <2>2 DEF Close, Fail, Arrays
  <2>4. Searched(output, text, command.arg, at)
    BY <2>2 DEF Searched
  <2>5. InDirectory(pc', filed_array', local', output', text', command'.arg)
    BY <1>1, <1>4, <2>2, <2>3, <2>4 DEF InDirectory
  <2> QED
    BY <1>4, <2>5 DEF Grepping
<1> QED
  BY <1>1, <1>3, <1>4

------------------------------------------------------------------------------
(* A round of the inner loop                                               *)

\* A search reports under the name of the entry that is searched.
LEMMA SearchWrites ==
  ASSUME local \in Locals, local.line_start <= local.last, output \in Reports, Search,
         NEW at \in DOMAIN Dentries, local.fname = Dentries[at].file_name
  PROVE  /\ output' \in Reports
         /\ \A k \in DOMAIN Dentries \ {at} :
              /\ NotSearched(output, k) => NotSearched(output', k)
              /\ \A t, arg : Searched(output, t, arg, k) => Searched(output', t, arg, k)
<1> DEFINE line == String(Ended, local.line_start)
<1>1. line \in Seq(Chars)
  <2>1. /\ Ended \in Buffers /\ Ended[LineEnd] = 0
        /\ local.line_start \in 0..BUFSIZE /\ LineEnd \in local.line_start..BUFSIZE
    <3>1. LineEnd \in local.line_start..local.last /\ local.line_start \in 0..BUFSIZE
          /\ LineEnd \in 0..BUFSIZE
      BY LineEndIs DEF Locals
    <3> QED
      BY <3>1, EndedIs
  <2> QED
    BY <2>1, StringIs
<1>2. local.fname \in Seq(Byte)
  BY DEF Locals
<1>3. output' = output \/ output' = Append(output, <<local.fname, line>>)
  BY DEF Search
<1> HIDE DEF line
<1>4. CASE output' = output
  BY <1>4
<1>5. CASE output' = Append(output, <<local.fname, line>>)
  <2>1. output' \in Reports
    BY <1>1, <1>2, <1>5, AddReport
  <2>2. ASSUME NEW k \in DOMAIN Dentries \ {at}
        PROVE  /\ NotSearched(output, k) => NotSearched(output', k)
               /\ \A t, arg : Searched(output, t, arg, k) => Searched(output', t, arg, k)
    <3>1. Dentries[k].file_name # local.fname
      BY EntriesAre
    <3>2. /\ Unlisted(output, Dentries[k].file_name) => Unlisted(output', Dentries[k].file_name)
          /\ \A chars, places : Listed(output, Dentries[k].file_name, chars, places)
                                  => Listed(output', Dentries[k].file_name, chars, places)
      BY <1>1, <1>2, <1>5, <3>1, OtherReport
    <3> QED
      BY <3>2 DEF NotSearched, Searched, SearchedTo
  <2> QED
    BY <2>1, <2>2
<1> QED
  BY <1>3, <1>4, <1>5

\* The line in the buffer is a whole line of the text, unless the byte behind
\* the full buffer passed for a newline.
LEMMA WholeLine ==
  ASSUME local \in Locals, local.line_start <= local.last,
         NEW chars \in Seq(Byte), IsText(chars),
         NEW p \in Nat, Buffered(chars, p, local.data, local.line_start, local.last),
         local.cnt = 0 \/ local.last < BUFSIZE => p = Len(chars),
         Between(chars, p - local.last + local.line_start),
         ~(LineEnd = BUFSIZE /\ local.cnt # 0 /\ local.line_start # 0)
  PROVE  LET m == p - local.last + LineEnd
         IN  m = Len(chars) \/ chars[m + 1] = NL
<1> DEFINE from == local.line_start
           last == local.last
           n == p - last + from
           m == p - last + LineEnd
<1>1. /\ from \in 0..BUFSIZE /\ last \in 0..BUFSIZE /\ BUFSIZE \in Nat \ {0}
      /\ LineEnd \in from..last
  BY LineEndIs, UtilitiesAssumption DEF Locals
<1>2. /\ n \in Nat /\ m \in Nat /\ n <= m /\ m <= Len(chars)
      /\ Unbroken(chars, n + 1, m)
      /\ LineEnd < last => m < Len(chars) /\ chars[m + 1] = NL
      /\ LineEnd = last => m = p
  BY PieceIs DEF IsText
<1>3. CASE LineEnd < last
  BY <1>2, <1>3
<1>4. CASE LineEnd = last /\ (local.cnt = 0 \/ last < BUFSIZE)
  BY <1>2, <1>4
<1>5. CASE LineEnd = last /\ local.cnt # 0 /\ ~(last < BUFSIZE)
  <2>1. last = BUFSIZE /\ from = 0 /\ m = p
    BY <1>1, <1>2, <1>5
  <2>2. n = p - BUFSIZE /\ Between(chars, n)
    BY <1>1, <2>1
  <2> HIDE DEF n, m, from, last
  <2>3. n + 1 \in 1..Len(chars) /\ p \in (n + 1)..Len(chars) /\ Len(chars) \in Nat
        /\ (n + 1) - 1 = n /\ n < Len(chars)
    BY <1>1, <1>2, <2>1, <2>2
  <2>4. Unbroken(chars, n + 1, p)
    BY <1>2, <2>1
  <2>5. PICK e \in p..Len(chars) :
          /\ e = Len(chars) \/ chars[e + 1] = NL
          /\ LineAt(chars, n + 1) = SubSeq(chars, n + 1, e)
    BY <2>3, <2>4, LineGoesOn
  <2>6. n + 1 \in LineStarts(chars)
    <3>1. chars[n + 1] # NL
      BY <2>3, <2>4 DEF Unbroken
    <3>2. n = 0 \/ chars[n] = NL
      BY <2>2, <2>3, <3>1 DEF Between
    <3>3. n + 1 \in DOMAIN chars
      BY <2>3
    <3> QED
      BY <2>3, <3>2, <3>3 DEF LineStarts
  <2>7. Len(SubSeq(chars, n + 1, e)) = e - n
    <3>1. n \in Nat /\ e \in Nat /\ n <= e /\ e <= Len(chars)
      BY <1>2, <2>3
    <3> QED
      BY <3>1, PieceOf
  <2>8. e - n <= BUFSIZE
    BY <2>5, <2>6, <2>7 DEF IsText
  <2>9. e = p
    BY <1>1, <2>2, <2>3, <2>8
  <2>10. m = Len(chars) \/ chars[m + 1] = NL
    BY <2>1, <2>5, <2>9
  <2> QED
    BY <2>10 DEF m, last
<1> QED
  BY <1>1, <1>3, <1>4, <1>5

\* A search of a whole line takes the reports past it.
LEMMA SearchReports ==
  ASSUME local \in Locals, local.line_start <= local.last, output \in Reports, Search,
         NEW at \in DOMAIN Dentries, local.fname = Dentries[at].file_name,
         text \in Texts, command \in Typed, IsText(TextAt(text, at)),
         NEW p \in Nat,
         Buffered(TextAt(text, at), p, local.data, local.line_start, local.last),
         Between(TextAt(text, at), p - local.last + local.line_start),
         SearchedTo(output, text, command.arg, at, p - local.last + local.line_start),
         \/ p - local.last + LineEnd = Len(TextAt(text, at))
         \/ TextAt(text, at)[p - local.last + LineEnd + 1] = NL,
         NEW q \in (p - local.last + LineEnd)..(p - local.last + LineEnd + 1),
         q <= Len(TextAt(text, at))
  PROVE  SearchedTo(output', text, command.arg, at, q)
<1> DEFINE chars == TextAt(text, at)
           from == local.line_start
           n == p - local.last + from
           m == p - local.last + LineEnd
           line == String(Ended, from)
           name == Dentries[at].file_name
           arg == command.arg
<1>1. chars \in Seq(Byte) /\ arg \in Seq(Byte) /\ arg # <<>> /\ local.fname \in Seq(Byte)
  BY TextAtType, PatternType DEF Locals
<1>2. /\ n \in Nat /\ m \in Nat /\ n <= m /\ m <= Len(chars)
      /\ line = SubSeq(chars, n + 1, m) /\ line \in Seq(Chars)
      /\ SubSeq([k \in 1..BUFSIZE |-> Ended[k - 1]], from + 1, LineEnd)
           = SubSeq(chars, n + 1, m)
      /\ Unbroken(chars, n + 1, m)
  <2> HIDE DEF chars
  <2>1. \A j \in DOMAIN chars : chars[j] # 0
    BY DEF IsText, chars
  <2>2. Buffered(chars, p, local.data, local.line_start, local.last)
    BY DEF chars
  <2> QED
    BY <1>1, <2>1, <2>2, PieceIs
<1>3. output' = IF Occurs(arg, SubSeq(chars, n + 1, m))
                THEN Append(output, <<name, line>>) ELSE output
  BY <1>2 DEF Search
<1>4. /\ Between(chars, n) /\ (m = Len(chars) \/ chars[m + 1] = NL)
      /\ q \in m..(m + 1) /\ q <= Len(chars)
      /\ Listed(output, name, chars, FoundTo(chars, arg, n))
  BY DEF SearchedTo
<1> HIDE DEF chars, n, m, from, line, name, arg
<1>5. IF Occurs(arg, SubSeq(chars, n + 1, m))
      THEN /\ FoundTo(chars, arg, q) = FoundTo(chars, arg, n) \cup {n + 1}
           /\ LineAt(chars, n + 1) = SubSeq(chars, n + 1, m)
      ELSE FoundTo(chars, arg, q) = FoundTo(chars, arg, n)
  <2>1. m \in n..Len(chars)
    BY <1>1, <1>2
  <2> QED
    BY <1>1, <1>2, <1>4, <2>1, FoundGrows
<1>6. Listed(output', name, chars, FoundTo(chars, arg, q))
  <2>1. CASE Occurs(arg, SubSeq(chars, n + 1, m))
    <3>1. FoundTo(chars, arg, n) \in SUBSET Nat /\ n + 1 \in Nat
          /\ \A j \in FoundTo(chars, arg, n) : j < n + 1
      BY <1>1, <1>2 DEF FoundTo, Found, LineStarts
    <3>2. line = LineAt(chars, n + 1)
      BY <1>2, <1>5, <2>1
    <3>3. Listed(Append(output, <<name, line>>), name, chars, FoundTo(chars, arg, n) \cup {n + 1})
      <4>1. name \in Seq(Byte)
        BY <1>1 DEF name
      <4> QED
        BY <1>2, <1>4, <3>1, <3>2, <4>1, NextReport
    <3> QED
      BY <1>3, <1>5, <2>1, <3>3
  <2>2. CASE ~Occurs(arg, SubSeq(chars, n + 1, m))
    BY <1>3, <1>4, <1>5, <2>2
  <2> QED
    BY <2>1, <2>2
<1> QED
  BY <1>6 DEF SearchedTo, chars, name, arg

\* After a search the next line of the buffer is next, or the next read, or the
\* end of the file.
LEMMA NextLineSearches ==
  ASSUME local \in Locals, local.line_start <= local.last, output \in Reports, Search, NextLine,
         NEW at \in DOMAIN Dentries, local.fname = Dentries[at].file_name,
         text \in Texts, command \in Typed, IsText(TextAt(text, at)),
         NEW e, e.position \in Nat, Searching(e, local, output, text, command.arg, at),
         ~(LineEnd = BUFSIZE /\ local.cnt # 0 /\ local.line_start # 0)
  PROVE  /\ pc' = "grep_read" => Reading(e, local', output', text, command.arg, at)
         /\ pc' = "grep_line" => Searching(e, local', output', text, command.arg, at)
         /\ pc' = "grep_close" =>
              SearchedTo(output', text, command.arg, at, Len(TextAt(text, at)))
<1> DEFINE chars == TextAt(text, at)
           p == e.position
           last == local.last
           end == LineEnd
           m == p - last + end
           q == IF end < last THEN m + 1 ELSE m
<1>1. /\ local.line_start \in 0..BUFSIZE /\ last \in 0..BUFSIZE /\ BUFSIZE \in Nat \ {0}
      /\ end \in 0..last /\ end \in 0..BUFSIZE
  BY LineEndIs, UtilitiesAssumption DEF Locals
<1>2. /\ Buffered(chars, p, local.data, local.line_start, last)
      /\ local.cnt = 0 \/ last < BUFSIZE => p = Len(chars)
      /\ Between(chars, p - last + local.line_start)
      /\ SearchedTo(output, text, command.arg, at, p - last + local.line_start)
  BY DEF Searching
<1>3. chars \in Seq(Byte) /\ Len(chars) \in Nat
  BY TextAtType
<1>4. /\ m \in Nat /\ m <= Len(chars)
      /\ end < last => m < Len(chars) /\ chars[m + 1] = NL
      /\ end = last => m = p
  <2> HIDE DEF chars
  <2>1. \A j \in DOMAIN chars : chars[j] # 0
    BY DEF IsText, chars
  <2> QED
    BY <1>2, <1>3, <2>1, PieceIs
<1>5. m = Len(chars) \/ chars[m + 1] = NL
  <2> HIDE DEF chars
  <2>1. IsText(chars)
    BY DEF chars
  <2> QED
    BY <1>2, <1>3, <2>1, WholeLine
<1>6. q \in m..(m + 1) /\ q <= Len(chars)
  <2> HIDE DEF m, end, last, chars
  <2> QED
    BY <1>3, <1>4
<1>7. SearchedTo(output', text, command.arg, at, q)
  <2> HIDE DEF q
  <2> QED
    BY <1>2, <1>5, <1>6, SearchReports
<1>8. /\ Ended[BUFSIZE] \in {Junk, 0}
      /\ \A b \in 0..BUFSIZE : b # end => Ended[b] = local.data[b]
  <2>1. BUFSIZE \in 0..BUFSIZE
    BY <1>1
  <2> QED
    BY <1>2, <2>1, EndedIs DEF Buffered
<1>9. /\ p \in last..Len(chars)
      /\ \A b \in local.line_start..(last - 1) : local.data[b] = chars[p - last + b + 1]
  BY <1>2 DEF Buffered
<1>10. CASE end + 1 < last
  <2>1. /\ pc' = "grep_line" /\ local' = [local EXCEPT !.data = Ended, !.line_start = end + 1]
    BY <1>10 DEF NextLine, Goto
  <2>2. /\ local'.data = Ended /\ local'.line_start = end + 1 /\ local'.last = last
        /\ local'.cnt = local.cnt
    BY <2>1 DEF Locals
  <2>3. end \in local.line_start..last
    BY LineEndIs
  <2> HIDE DEF m, end, last, chars, p
  <2>4. Buffered(chars, p, Ended, end + 1, last)
    <3>1. ASSUME NEW b \in (end + 1)..(last - 1)
          PROVE  Ended[b] = chars[p - last + b + 1]
      <4>1. b \in local.line_start..(last - 1) /\ b \in 0..BUFSIZE /\ b # end
        BY <1>1, <2>3
      <4> QED
        BY <1>8, <1>9, <4>1
    <3> QED
      BY <1>8, <1>9, <3>1 DEF Buffered
  <2>5. q = m + 1 /\ p - last + (end + 1) = m + 1
    BY <1>1, <1>9, <1>10 DEF m
  <2>6. Between(chars, m + 1)
    BY <1>1, <1>4, <1>10 DEF Between
  <2>7. Searching(e, local', output', text, command.arg, at)
    <3>1. Buffered(TextAt(text, at), e.position, local'.data, local'.line_start, local'.last)
      BY <2>2, <2>4 DEF chars, p
    <3>2. e.position - local'.last + local'.line_start = m + 1
      BY <2>2, <2>5 DEF p
    <3>3. local'.cnt = 0 \/ local'.last < BUFSIZE => e.position = Len(TextAt(text, at))
      BY <1>2, <2>2 DEF chars, p
    <3>4. local'.line_start < local'.last
      BY <1>10, <2>2
    <3>5. Between(TextAt(text, at), m + 1) /\ SearchedTo(output', text, command.arg, at, m + 1)
      <4> HIDE DEF q
      <4> QED
        BY <1>7, <2>5, <2>6 DEF chars
    <3> QED
      BY <3>1, <3>2, <3>3, <3>4, <3>5 DEF Searching
  <2> QED
    BY <2>1, <2>7
<1>11. CASE ~(end + 1 < last)
  <2>1. /\ pc' = IF local.cnt = 0 THEN "grep_close" ELSE "grep_read"
        /\ local' = [local EXCEPT !.data = Ended, !.last = 0]
    BY <1>11 DEF NextLine, Goto
  <2>2. local'.data = Ended /\ local'.last = 0
    BY <2>1 DEF Locals
  <2> HIDE DEF end, last, chars, p, m
  <2>3. q = p
    <3>1. CASE end < last
      BY <1>1, <1>9, <1>11, <3>1 DEF m
    <3>2. CASE ~(end < last)
      BY <1>1, <1>4, <3>2
    <3> QED
      BY <3>1, <3>2
  <2>4. Between(chars, p)
    <3>1. CASE end < last
      <4>1. m + 1 = p
        BY <2>3, <3>1
      <4> QED
        BY <1>4, <3>1, <4>1 DEF Between
    <3>2. CASE ~(end < last)
      <4>1. m = p
        BY <2>3, <3>2
      <4> QED
        BY <1>5, <4>1 DEF Between
    <3> QED
      BY <3>1, <3>2
  <2> HIDE DEF q
  <2>5. SearchedTo(output', text, command.arg, at, p)
    BY <1>7, <2>3
  <2>6. Reading(e, local', output', text, command.arg, at)
    <3>1. Buffered(chars, p, Ended, 0, 0)
      <4>1. p \in 0..Len(chars)
        BY <1>1, <1>3, <1>9
      <4> QED
        BY <1>8, <4>1 DEF Buffered
    <3>2. p - 0 = p /\ 0 < BUFSIZE
      BY <1>1, <1>9, <1>3
    <3> QED
      BY <2>2, <2>4, <2>5, <3>1, <3>2 DEF Reading, chars, p
  <2>7. ASSUME local.cnt = 0
        PROVE  SearchedTo(output', text, command.arg, at, Len(chars))
    BY <1>2, <2>5, <2>7
  <2> QED
    BY <2>1, <2>6, <2>7 DEF chars
<1> QED
  BY <1>10, <1>11

\* The rest of a line that goes on in the file is kept, and where it is.
LEMMA KeepRestSearches ==
  ASSUME local \in Locals, local.line_start <= local.last, local.line_start # 0, KeepRest,
         LineEnd = local.last,
         NEW at \in DOMAIN Dentries, text \in Texts, IsText(TextAt(text, at)),
         NEW e, e.position \in Nat, Searching(e, local, output, text, command.arg, at)
  PROVE  Reading(e, local', output, text, command.arg, at)
<1> DEFINE chars == TextAt(text, at)
           p == e.position
           from == local.line_start
           last == local.last
           n == p - last + from
           rest == String(Ended, from)
           data == [b \in 0..BUFSIZE |-> IF b < Len(rest) THEN rest[b + 1]
                                         ELSE IF b = Len(rest) THEN 0 ELSE Ended[b]]
<1>1. /\ from \in 1..BUFSIZE /\ last \in 0..BUFSIZE /\ from <= last /\ BUFSIZE \in Nat
  BY UtilitiesAssumption DEF Locals
<1>2. /\ Buffered(chars, p, local.data, from, last)
      /\ Between(chars, n)
      /\ SearchedTo(output, text, command.arg, at, n)
  BY DEF Searching
<1>3. chars \in Seq(Byte) /\ Len(chars) \in Nat
  BY TextAtType
<1>4. /\ Len(rest) = last - from
      /\ \A i \in 1..(last - from) : rest[i] = chars[n + i]
  <2> HIDE DEF chars
  <2>1. \A j \in DOMAIN chars : chars[j] # 0
    BY DEF IsText, chars
  <2> QED
    BY <1>2, <1>3, <2>1, PieceIs
<1>5. /\ Ended[BUFSIZE] \in {Junk, 0} /\ p \in last..Len(chars)
  <2>1. BUFSIZE \in 0..BUFSIZE
    BY <1>1
  <2> QED
    BY <1>2, <2>1, EndedIs DEF Buffered
<1>6. local'.data = data /\ local'.last = last - from
  <2>1. local' = [local EXCEPT !.last = last - from, !.data = data]
    BY DEF KeepRest
  <2> HIDE DEF data, last, from
  <2> QED
    BY <2>1 DEF Locals
<1> HIDE DEF rest
<1>7. \A b \in 0..BUFSIZE : data[b] = IF b < Len(rest) THEN rest[b + 1]
                                      ELSE IF b = Len(rest) THEN 0 ELSE Ended[b]
  OBVIOUS
<1> HIDE DEF data, chars, p, from, last
<1>8. Buffered(chars, p, data, 0, last - from)
  <2>1. ASSUME NEW b \in 0..((last - from) - 1)
        PROVE  data[b] = chars[p - (last - from) + b + 1]
    <3>1. b \in 0..BUFSIZE /\ b < Len(rest) /\ b + 1 \in 1..(last - from)
          /\ n + (b + 1) = p - (last - from) + b + 1
      BY <1>1, <1>4, <1>5
    <3>2. data[b] = rest[b + 1]
      BY <1>7, <3>1
    <3>3. rest[b + 1] = chars[n + (b + 1)]
      BY <1>4, <3>1
    <3> HIDE DEF n
    <3> QED
      BY <3>1, <3>2, <3>3
  <2>2. data[BUFSIZE] \in {Junk, 0}
    <3>1. BUFSIZE \in 0..BUFSIZE /\ ~(BUFSIZE < Len(rest)) /\ BUFSIZE # Len(rest)
      BY <1>1, <1>4
    <3> QED
      BY <1>5, <1>7, <3>1
  <2>3. p \in (last - from)..Len(chars)
    BY <1>1, <1>3, <1>5
  <2> QED
    BY <2>1, <2>2, <2>3 DEF Buffered
<1>9. p - (last - from) = n /\ last - from < BUFSIZE
  BY <1>1, <1>5
<1> HIDE DEF n
<1> QED
  BY <1>2, <1>6, <1>8, <1>9 DEF Reading, chars, p

LEMMA GrepLineSearches ==
  ASSUME GrepInv, GrepLine
  PROVE  Grepping'
<1> DEFINE fd == local.fd
           at == filed_array[fd].position
           file == local.file
           e == filed_array[file]
<1>1. PICK newline \in EndsLine :
        /\ pc = "grep_line" /\ UNCHANGED <<filed_array, text, command>>
        /\ \/ /\ ~newline /\ local.cnt # 0 /\ local.line_start # 0
              /\ KeepRest
           \/ /\ ~(~newline /\ local.cnt # 0 /\ local.line_start # 0)
              /\ Search /\ NextLine
              /\ taken' = (taken \/ (newline /\ LineEnd = BUFSIZE /\ local.cnt # 0
                                       /\ local.line_start # 0))
  BY DEF GrepLine, files, Same
<1>2. filed_array \in Arrays /\ local \in Locals /\ local.line_start <= local.last
      /\ text \in Texts /\ command \in Typed
  BY <1>1 DEF GrepInv, ShowInv, ShellInv, TypeInv
<1>3. pc' \in {"grep_read", "grep_line", "grep_close"}
  BY <1>1 DEF KeepRest, NextLine, Goto
<1>4. CASE taken'
  BY <1>3, <1>4 DEF Grepping, GrepLabels
<1>5. CASE ~taken'
  <2>1. ~taken
    BY <1>1, <1>5 DEF KeepRest
  <2>2. InDirectory("grep_line", filed_array, local, output, text, command.arg)
    BY <1>1, <2>1 DEF GrepInv, Grepping, GrepLabels
  <2>3. /\ fd \in Fds /\ filed_array[fd].type = "dir" /\ filed_array[fd].flags = 1
        /\ at \in 0..Len(Dentries) /\ output \in Reports
        /\ \A k \in 1..(at - 1) : Searched(output, text, command.arg, k)
        /\ \A k \in (at + 1)..Len(Dentries) : NotSearched(output, k)
        /\ at # 0 /\ local.fname = Dentries[at].file_name
        /\ file \in Fds \ {fd} /\ e.type = Dentries[at].file_type
        /\ Searchable(text, at) => /\ e.inode = Dentries[at].inode_index
                                   /\ Searching(e, local, output, text, command.arg, at)
    BY <2>2 DEF InDirectory, InFile
  <2>4. at \in DOMAIN Dentries /\ Len(Dentries) \in Nat /\ DOMAIN Dentries = 1..Len(Dentries)
    <3> HIDE DEF at
    <3> QED
      BY <2>3, EntriesAre
  <2>5. local'.fd = fd /\ local'.file = file /\ local'.fname = local.fname
    <3>1. CASE KeepRest
      <4>1. \E last, data : local' = [local EXCEPT !.last = last, !.data = data]
        BY <3>1 DEF KeepRest
      <4> QED
        BY <1>2, <4>1 DEF Locals
    <3>2. CASE NextLine
      <4>1. \/ local' = [local EXCEPT !.data = Ended, !.line_start = LineEnd + 1]
            \/ local' = [local EXCEPT !.data = Ended, !.last = 0]
        BY <3>2 DEF NextLine
      <4> QED
        BY <1>2, <4>1 DEF Locals
    <3> QED
      BY <1>1, <3>1, <3>2
  <2>6. ASSUME Searchable(text, at)
        PROVE  e.position \in Nat /\ IsText(TextAt(text, at))
    <3>1. Buffered(TextAt(text, at), e.position, local.data, local.line_start, local.last)
      BY <2>3, <2>6 DEF Searching
    <3>2. Len(TextAt(text, at)) \in Nat /\ local.last \in Nat
      <4> HIDE DEF at
      <4>1. local.last \in 0..BUFSIZE
        BY <1>2 DEF Locals
      <4> QED
        BY <1>2, <2>4, <4>1, TextAtType
    <3> HIDE DEF at, e
    <3>3. e.position \in Nat
      BY <3>1, <3>2 DEF Buffered
    <3> QED
      BY <2>6, <3>3 DEF Searchable
  <2> HIDE DEF fd, at, file, e
  <2>7. CASE ~newline /\ local.cnt # 0 /\ local.line_start # 0 /\ KeepRest
    <3>1. output' = output /\ pc' = "grep_read"
      BY <2>7 DEF KeepRest, Goto
    <3>2. LineEnd = local.last
      <4> SUFFICES ASSUME LineEnd # local.last PROVE FALSE
        OBVIOUS
      <4>1. local.data[LineEnd] = NL /\ NL # Junk
        BY <1>2, LineEndIs DEF NL, Junk
      <4>2. EndsLine = {TRUE}
        BY <4>1 DEF EndsLine
      <4> QED
        BY <2>7, <4>2
    <3>3. Searchable(text, at) => Reading(e, local', output, text, command.arg, at)
      BY <1>2, <2>3, <2>4, <2>6, <2>7, <3>2, KeepRestSearches
    <3>4. InFile("grep_read", e, local', output, text, command.arg, at)
      BY <2>3, <2>5, <3>3 DEF InFile
    <3>5. InDirectory(pc', filed_array', local', output', text', command'.arg)
      BY <1>1, <2>3, <2>5, <3>1, <3>4 DEF InDirectory, fd, at, file, e
    <3> QED
      BY <3>1, <3>5 DEF Grepping
  <2>8. CASE /\ ~(~newline /\ local.cnt # 0 /\ local.line_start # 0)
             /\ Search /\ NextLine
             /\ taken' = (taken \/ (newline /\ LineEnd = BUFSIZE /\ local.cnt # 0
                                      /\ local.line_start # 0))
    <3>1. ~(LineEnd = BUFSIZE /\ local.cnt # 0 /\ local.line_start # 0)
      BY <1>5, <2>8
    <3>2. /\ output' \in Reports
          /\ \A k \in DOMAIN Dentries \ {at} :
               /\ NotSearched(output, k) => NotSearched(output', k)
               /\ \A t, arg : Searched(output, t, arg, k) => Searched(output', t, arg, k)
      BY <1>2, <2>3, <2>4, <2>8, SearchWrites
    <3>3. /\ \A k \in 1..(at - 1) : Searched(output', text, command.arg, k)
          /\ \A k \in (at + 1)..Len(Dentries) : NotSearched(output', k)
      <4>1. ASSUME NEW k \in 1..(at - 1)
            PROVE  Searched(output', text, command.arg, k)
        <5>1. k \in DOMAIN Dentries \ {at}
          BY <2>3, <2>4
        <5> QED
          BY <2>3, <3>2, <5>1
      <4>2. ASSUME NEW k \in (at + 1)..Len(Dentries)
            PROVE  NotSearched(output', k)
        <5>1. k \in DOMAIN Dentries \ {at}
          BY <2>3, <2>4
        <5> QED
          BY <2>3, <3>2, <5>1
      <4> QED
        BY <4>1, <4>2
    <3>4. Searchable(text, at) =>
            /\ pc' = "grep_read" => Reading(e, local', output', text, command.arg, at)
            /\ pc' = "grep_line" => Searching(e, local', output', text, command.arg, at)
            /\ pc' = "grep_close" =>
                 SearchedTo(output', text, command.arg, at, Len(TextAt(text, at)))
      BY <1>2, <2>3, <2>4, <2>6, <2>8, <3>1, NextLineSearches
    <3>5. InFile(pc', e, local', output', text, command.arg, at)
      BY <1>3, <2>3, <2>5, <3>4 DEF InFile
    <3>6. InDirectory(pc', filed_array', local', output', text', command'.arg)
      BY <1>1, <1>3, <2>3, <2>5, <3>2, <3>3, <3>5 DEF InDirectory, fd, at, file, e
    <3> QED
      BY <1>3, <3>6 DEF Grepping
  <2> QED
    BY <1>1, <2>7, <2>8
<1> QED
  BY <1>4, <1>5

LEMMA TypeSearches ==
  ASSUME GrepInv, Type
  PROVE  Grepping'
<1>1. /\ pc = "shell" /\ UNCHANGED output
      /\ \/ pc' = "shell"
         \/ /\ result'.ret # -1 /\ pc' = Main(command'.name)
            /\ command' \in Typed /\ Execute(command'.name)
  BY DEF Type
<1>2. output' = <<>>
  BY <1>1 DEF GrepInv, ShowInv, Shows
<1>3. pc' \notin GrepLabels \cup {"exit"}
  <2>1. CASE pc' = "shell"
    BY <2>1 DEF GrepLabels
  <2>2. CASE pc' # "shell"
    <3>1. command'.name \in Known
      BY <1>1, <2>2, ExecuteGives, UtilitiesAssumption DEF GrepInv, ShowInv, ShellInv
    <3>2. cat # ls /\ cat # grep /\ cat # syserr /\ ls # grep /\ ls # syserr /\ grep # syserr
      BY DEF cat, ls, grep, syserr
    <3>3. pc' \in {"cat", "ls", "grep", "syserr"}
      BY <1>1, <2>2, <3>1, <3>2 DEF Main, Known
    <3> QED
      BY <3>3 DEF GrepLabels
  <2> QED
    BY <2>1, <2>2
<1> QED
  BY <1>2, <1>3 DEF Grepping

\* What is not grep's.
LEMMA OthersSearch ==
  ASSUME GrepInv,
         \/ Finish \/ CatOpen \/ CatRead \/ LsOpen \/ LsRead \/ SyserrCall \/ SyserrEnd
  PROVE  Grepping'
<1>1. CASE Finish
  BY <1>1 DEF Finish, Grepping, GrepLabels
<1>2. CASE ~Finish
  <2>1. /\ pc \in {"cat", "cat_read", "ls", "ls_read", "syserr"} /\ UNCHANGED command
        /\ pc' \in {"cat_read", "ls_read", "syserr", "exit"}
    <3>1. CASE CatOpen
      BY <3>1 DEF CatOpen, Begin, Goto, Exit, Same
    <3>2. CASE CatRead
      BY <3>2 DEF CatRead, Goto, Exit, Same
    <3>3. CASE LsOpen
      BY <3>3 DEF LsOpen, Begin, Goto, Exit, Same
    <3>4. CASE LsRead
      BY <3>4 DEF LsRead, Goto, Exit, Same
    <3>5. CASE SyserrCall
      <4>1. pc = "syserr" /\ Same /\ Goto("syserr")
        BY <3>5 DEF SyserrCall
      <4> QED
        BY <4>1 DEF Goto, Same
    <3>6. CASE SyserrEnd
      BY <3>6 DEF SyserrEnd, Exit, Same
    <3> QED
      BY <1>2, <3>1, <3>2, <3>3, <3>4, <3>5, <3>6
  <2>2. Main(command.name) # "grep"
    BY <2>1 DEF GrepInv, ShowInv, Labelled
  <2> QED
    BY <2>1, <2>2 DEF Grepping, GrepLabels
<1> QED
  BY <1>1, <1>2

LEMMA StepGrepInv == GrepInv /\ [ShellNext]_shellVars => GrepInv'
<1> SUFFICES ASSUME GrepInv, [ShellNext]_shellVars PROVE GrepInv'
  OBVIOUS
<1>1. ShowInv'
  BY StepShowInv DEF GrepInv
<1>2. ASSUME UNCHANGED shellVars PROVE Grepping'
  BY <1>2 DEF GrepInv, Grepping, shellVars, files
<1>3. Grepping'
  BY <1>2, TypeSearches, OthersSearch, GrepStartSearches, GrepEntrySearches,
     GrepOpenSearches, GrepReadSearches, GrepLineSearches, GrepCloseSearches DEF ShellNext, Program
<1> QED
  BY <1>1, <1>3 DEF GrepInv

\* A grep that returns 0 has written, of every text in the directory, each line
\* the pattern occurs in, once and in order, wherever the buffer cut the text:
\* for texts, directories and buffers of any size; unless the byte behind the
\* full buffer happened to be a newline (do_one_file() of ece391grep.c).
THEOREM GrepReportsLines == ShellSpec => []GrepReports
<1>1. ShellInit => GrepInv
  <2> SUFFICES ASSUME ShellInit PROVE GrepInv
    OBVIOUS
  <2>1. pc = "shell"
    BY DEF ShellInit
  <2> QED
    BY <2>1, InitShowInv DEF GrepInv, Grepping, GrepLabels
<1> QED
  BY <1>1, StepGrepInv, GrepInvReports, PTL DEF ShellSpec

------------------------------------------------------------------------------
(* That commands succeed                                                   *)

\* The descriptor is open, and a file's position inside its file.
Readable(e) ==
  /\ e.flags = 1
  /\ e.type = "file" =>
       \E k \in DOMAIN Dentries :
         /\ Dentries[k].file_type = "file" /\ e.inode = Dentries[k].inode_index
         /\ e.position \in 0..Inodes[e.inode].file_length

\* Nothing has ended the bytes that the first n names have left behind.
Remembered(h, n) == \A j \in 1..n, b \in 6..8 : Stays(j, b, n) => h[b - 1] # 0

\* A read of it gives something, or nothing at the end.
LEMMA ReadSucceeds ==
  ASSUME TypeInv, HeaderServesFiles, NEW fd \in Served, Readable(filed_array[fd]),
         NEW n \in Nat, Read(fd, n)
  PROVE  result'.ret # -1 /\ Readable(filed_array'[fd])
<1> DEFINE e == filed_array[fd]
<1>1. fd \in Fds
  BY FileSystemAssumption DEF Served, Fds
<1>2. filed_array \in Arrays /\ e \in Entries /\ e.flags = 1
  BY <1>1 DEF TypeInv, Arrays, Readable
<1>3. /\ filed_array'[fd].type = e.type /\ filed_array'[fd].inode = e.inode
      /\ filed_array'[fd].flags = 1
  BY <1>1, <1>2, ReadMoves
<1>4. FileRead(fd, n) \/ DirectoryRead(fd, n) \/ RtcRead(fd, n)
  BY <1>2 DEF Read, IsOpen
<1>5. CASE FileRead(fd, n)
  <2> DEFINE inode == e.inode
             p == e.position
             len == Inodes[inode].file_length
             data == ReadData(inode, p, n)
             m == Least(n, len - p)
  <2>1. e.type = "file" /\ (Refuses(inode, p) \/ Deliver(fd, n, Len(data), data, Len(data)))
    BY <1>5 DEF FileRead, Deliver, Return
  <2>2. PICK k \in DOMAIN Dentries :
          /\ Dentries[k].file_type = "file" /\ inode = Dentries[k].inode_index
          /\ p \in 0..len
    BY <2>1 DEF Readable
  <2>3. inode \in DOMAIN Inodes /\ len \in Nat
    BY <1>2, <2>1, WholeType DEF Entries
  <2>4. inode <= inodes_num
    BY <2>2 DEF HeaderServesFiles
  <2>5. ~Refuses(inode, p)
    <3>1. inode \in Nat /\ inodes_num \in Int
      BY <2>2, NameType, WordType DEF TypeInv, inodes_num, Word
    <3> HIDE DEF inode, p
    <3> QED
      BY <2>2, <2>3, <2>4, <3>1 DEF Refuses
  <2>6. m \in Nat /\ Len(data) = m
    BY <2>2, <2>3, ReadDataIs
  <2>7. m <= len - p
    BY <2>2, <2>3, LeastIs
  <2> HIDE DEF m, data
  <2>8. result'.ret = m /\ filed_array' = [filed_array EXCEPT ![fd].position = p + m]
    BY <2>1, <2>5, <2>6 DEF Deliver, Return
  <2>9. filed_array'[fd].position = p + m
    BY <1>1, <1>2, <2>8 DEF Arrays, Entries, Descriptor
  <2>10. p + m \in 0..len
    <3> HIDE DEF p, len
    <3> QED
      BY <2>2, <2>3, <2>6, <2>7
  <2>11. Readable(filed_array'[fd])
    <3> HIDE DEF p, len, e
    <3>1. filed_array'[fd].position \in 0..Inodes[filed_array'[fd].inode].file_length
      BY <1>3, <2>9, <2>10 DEF len
    <3> QED
      BY <1>3, <2>2, <3>1 DEF Readable
  <2> QED
    BY <2>6, <2>8, <2>11
<1>6. CASE DirectoryRead(fd, n)
  <2> DEFINE name == NameAt(e.position)
             data == memcpy(name, 0, Least(n, Len(Cut(name))))
  <2>1. e.type = "dir" /\ Deliver(fd, n, Len(data), data, 1)
    BY <1>6 DEF DirectoryRead
  <2>2. Len(data) \in Nat
    <3>1. e.position \in Nat
      BY <1>2, <2>1 DEF Entries
    <3> QED
      BY <3>1, NameAtType
  <2> HIDE DEF data
  <2> QED
    BY <1>3, <2>1, <2>2 DEF Readable, Deliver, Return
<1>7. CASE RtcRead(fd, n)
  <2>1. e.type = "rtc" /\ result'.ret = 0
    BY <1>7 DEF RtcRead, Deliver, Return
  <2> QED
    BY <1>3, <2>1 DEF Readable
<1> QED
  BY <1>4, <1>5, <1>6, <1>7

\* What is in the directory can be opened at the first descriptor that is free.
LEMMA OpenSucceeds ==
  ASSUME TypeInv, Copied, NEW name, First(name) # {}, Open(name),
         NEW fd \in Free, \A other \in Free : fd <= other
  PROVE  /\ result'.ret = fd
         /\ \E k \in First(name) :
              /\ filed_array' = [filed_array EXCEPT ![fd] = OpenEntry(fd, Dentries[k])]
              /\ filed_array'[fd].type = Dentries[k].file_type
              /\ filed_array'[fd].position = 0
              /\ Readable(filed_array'[fd])
              /\ header' = IF Dentries[k].file_type = "file"
                           THEN StrCpy(Dentries[k].file_name) ELSE header
<1>1. Lookup(name) = {Dentries[k] : k \in First(name)}
  BY LookupFinds
<1>2. fd \in Fds /\ \A other \in Fds : other \in Int
  BY FileSystemAssumption DEF Free, Fds
<1>3. PICK d \in Lookup(name), low \in Free :
        /\ \A other \in Free : low <= other
        /\ filed_array' = [filed_array EXCEPT ![low] = OpenEntry(low, d)]
        /\ header' = IF d.file_type = "file" /\ \A k \in First(name) : Copies(k)
                     THEN StrCpy(d.file_name) ELSE header
        /\ Return(<<"open", name>>, low, <<>>)
  BY <1>1 DEF Open
<1>4. low = fd
  <2>1. low \in Int /\ fd \in Int /\ low <= fd /\ fd <= low
    BY <1>2, <1>3 DEF Free
  <2> QED
    BY <2>1
<1>5. PICK k \in First(name) : d = Dentries[k]
  BY <1>1
<1>6. k \in DOMAIN Dentries /\ \A l \in First(name) : Copies(l)
  BY FirstIn DEF Copied
<1>7. filed_array'[fd] = OpenEntry(fd, Dentries[k])
  BY <1>2, <1>3, <1>4, <1>5 DEF TypeInv, Arrays
<1>8. /\ filed_array'[fd].type = Dentries[k].file_type
      /\ filed_array'[fd].position = 0 /\ filed_array'[fd].flags = 1
      /\ Dentries[k].file_type = "file" =>
           filed_array'[fd].inode = Dentries[k].inode_index
  BY <1>7 DEF OpenEntry
<1>9. Readable(filed_array'[fd])
  <2>1. 0 \in 0..Inodes[Dentries[k].inode_index].file_length
    BY <1>6, EntriesAre, WholeType
  <2> QED
    BY <1>6, <1>8, <2>1 DEF Readable
<1>10. result'.ret = fd
  BY <1>3, <1>4 DEF Return
<1> QED
  BY <1>3, <1>4, <1>5, <1>6, <1>8, <1>9, <1>10

\* A name that leaves the boot block serving every file.
LEMMA CopyServes ==
  ASSUME TypeInv, HeaderServesFiles, NEW k \in DOMAIN Dentries,
         Dentries[k].file_type = "file", header' = StrCpy(Dentries[k].file_name),
         \/ KeepsInodes(Dentries[k].file_name)
         \/ Len(Dentries[k].file_name) = 4 /\ \E b \in 6..8 : header[b - 1] # 0
  PROVE  HeaderServesFiles'
<1> DEFINE name == Dentries[k].file_name
<1>1. Copied'
  BY CopyKeepsCount DEF HeaderServesFiles, Copied
<1>2. name \in Seq(Byte) /\ Len(name) \in Nat
  BY NameType
<1>3. header \in [0..7 -> Byte] /\ header' \in [0..7 -> Byte]
  BY <1>2, StrCpyType DEF TypeInv
<1>4. InodesNum \in Nat /\ InodesNum <= 255
  BY FileSystemAssumption DEF Byte
<1>5. inodes_num' \in Int /\ inodes_num' >= header'[4] /\ \A b \in 0..7 : header'[b] \in Nat
  <2>1. inodes_num' \in Int /\ inodes_num' >= header'[4]
    BY <1>3, WordType, WordAtLeast DEF inodes_num, Word
  <2>2. \A b \in 0..7 : header'[b] \in Nat
    BY <1>3 DEF Byte
  <2> QED
    BY <2>1, <2>2
<1> HIDE DEF name
<1>6. header' = StrCpy(name)
  BY DEF name
<1>7. inodes_num' = inodes_num \/ inodes_num' >= InodesNum
  <2>1. CASE Len(name) < 4
    <3>1. \A b \in 4..7 : b \in 0..7 /\ ~(b < Len(name)) /\ b # Len(name)
      BY <1>2, <2>1
    <3>2. \A b \in 4..7 : header'[b] = header[b]
      BY <1>6, <3>1 DEF StrCpy
    <3> QED
      BY <3>2 DEF inodes_num, Word
  <2>2. CASE Len(name) > 4 /\ name[5] >= InodesNum
    <3>1. header'[4] = name[5]
      BY <1>2, <1>6, <2>2 DEF StrCpy
    <3> QED
      BY <1>4, <1>5, <2>2, <3>1
  <2>3. CASE Len(name) = 4 /\ \E b \in 6..8 : header[b - 1] # 0
    <3>1. \A b \in 5..7 : b \in 0..7 /\ ~(b < Len(name)) /\ b # Len(name)
      BY <1>2, <2>3
    <3>2. \A b \in 5..7 : header'[b] = header[b]
      BY <1>6, <3>1 DEF StrCpy
    <3>3. header'[5] # 0 \/ header'[6] # 0 \/ header'[7] # 0
      BY <2>3, <3>2
    <3>4. inodes_num' = header'[4] + 256 * header'[5] + 65536 * header'[6] + 16777216 * header'[7]
      BY DEF inodes_num, Word
    <3>5. /\ header'[4] \in Nat /\ header'[5] \in Nat
          /\ header'[6] \in Nat /\ header'[7] \in Nat
      BY <1>5
    <3>6. inodes_num' >= 256
      <4> DEFINE a == header'[4]
                 b == header'[5]
                 c == header'[6]
                 d == header'[7]
      <4>1. a \in Nat /\ b \in Nat /\ c \in Nat /\ d \in Nat /\ (b # 0 \/ c # 0 \/ d # 0)
        BY <3>3, <3>5
      <4>2. inodes_num' = a + 256 * b + 65536 * c + 16777216 * d
        BY <3>4
      <4> HIDE DEF a, b, c, d
      <4> QED
        BY <4>1, <4>2
    <3> QED
      BY <1>4, <1>5, <3>6
  <2> QED
    BY <2>1, <2>2, <2>3 DEF KeepsInodes, name
<1>8. ASSUME NEW l \in DOMAIN Dentries, Dentries[l].file_type = "file"
      PROVE  Dentries[l].inode_index <= inodes_num'
  <2>1. Dentries[l].inode_index \in Nat /\ Dentries[l].inode_index <= InodesNum
    BY NameType
  <2>2. Dentries[l].inode_index <= inodes_num
    BY <1>8 DEF HeaderServesFiles
  <2> QED
    BY <1>4, <1>5, <1>7, <2>1, <2>2
<1> QED
  BY <1>1, <1>8 DEF HeaderServesFiles, Copied

\* One name more has been opened, or passed over.
LEMMA RememberNext ==
  ASSUME TypeInv, NEW n \in Nat, n + 1 \in DOMAIN Dentries, Remembered(header, n),
         \/ GrepOpens(n + 1) /\ header' = StrCpy(Dentries[n + 1].file_name)
         \/ ~GrepOpens(n + 1) /\ header' = header
  PROVE  Remembered(header', n + 1)
<1> DEFINE name == Dentries[n + 1].file_name
<1>1. name \in Seq(Byte \ {0}) /\ Len(name) \in Nat
  <2>1. Dentries[n + 1] \in Dentry
    BY FileSystemAssumption
  <2> QED
    BY <2>1 DEF Dentry
<1> HIDE DEF name
<1>2. SUFFICES ASSUME NEW j \in 1..(n + 1), NEW b \in 6..8, Stays(j, b, n + 1)
               PROVE  header'[b - 1] # 0
  BY DEF Remembered
<1>3. ASSUME GrepOpens(n + 1), b <= Len(name)
      PROVE  header'[b - 1] # 0
  <2>1. header' = StrCpy(name)
    BY <1>3 DEF name
  <2>2. b - 1 \in 0..7 /\ b - 1 < Len(name) /\ (b - 1) + 1 = b /\ b \in 1..Len(name)
    BY <1>1, <1>3
  <2>3. header'[b - 1] = name[b]
    BY <2>1, <2>2 DEF StrCpy
  <2> QED
    BY <1>1, <2>2, <2>3
<1>4. CASE j = n + 1
  <2>1. GrepOpens(n + 1) /\ b <= Len(name)
    <3>1. Stays(n + 1, b, n + 1)
      BY <1>2, <1>4
    <3> QED
      BY <3>1 DEF Stays, name
  <2> QED
    BY <1>3, <2>1
<1>5. CASE j \in 1..n
  <2>1. Stays(j, b, n)
    BY <1>2, <1>5 DEF Stays
  <2>2. header[b - 1] # 0
    BY <1>5, <2>1 DEF Remembered
  <2>3. CASE ~GrepOpens(n + 1)
    BY <2>2, <2>3
  <2>4. CASE GrepOpens(n + 1) /\ ~(b <= Len(name))
    <3>1. n + 1 \in (j + 1)..(n + 1) /\ Dentries[n + 1].file_type = "file"
      <4>1. n + 1 \in (j + 1)..(n + 1)
        BY <1>5
      <4> QED
        BY <2>4, <4>1 DEF GrepOpens
    <3>2. Len(name) # b - 1
      BY <1>2, <3>1 DEF Stays, name
    <3>3. header' = StrCpy(name)
      BY <2>4 DEF name
    <3>4. b - 1 \in 0..7 /\ ~(b - 1 < Len(name)) /\ b - 1 # Len(name)
      BY <1>1, <2>4, <3>2
    <3>5. header'[b - 1] = header[b - 1]
      BY <3>3, <3>4 DEF StrCpy
    <3> QED
      BY <2>2, <3>5
  <2> QED
    BY <1>3, <2>3, <2>4
<1> QED
  BY <1>4, <1>5

InTheFile == {"grep_read", "grep_line", "grep_close"}

\* What the programs have open: cat and ls what they show, grep the directory
\* and, in a file, that.
Going(label, f, l) ==
  /\ label \in {"cat", "ls", "grep"} => f = FreshArray
  /\ label \in {"cat_read", "ls_read"} \cup GrepLabels => l.fd = 2 /\ Readable(f[2])
  /\ label \in InTheFile => l.file = 3 /\ Readable(f[3])

\* grep has opened the directory's files in order, up to its position there.
Listing(label, h, f, l) ==
  LET at == f[2].position
  IN  label \in GrepLabels =>
        /\ f[2].type = "dir" /\ at \in 0..Len(Dentries)
        /\ \A fd \in Fds :
             f[fd].flags = IF fd < 3 \/ (fd = 3 /\ label \in InTheFile) THEN 1 ELSE 0
        /\ Remembered(h, IF label = "grep_open" THEN at - 1 ELSE at)
        /\ label = "grep_open" => /\ at # 0 /\ l.fname = Dentries[at].file_name
                                  /\ l.fname[1] # Dot[1]

Succeeding ==
  /\ HeaderServesFiles
  /\ pc # "shell" => First(command.name) # {} /\ command.name \in Known
  /\ Going(pc, filed_array, local)
  /\ Listing(pc, header, filed_array, local)
  /\ CommandsSucceed

\* The inductive invariant.
SucceedInv == TestInv /\ Succeeding

LEMMA ServesOn ==
  ASSUME HeaderServesFiles, UNCHANGED header
  PROVE  HeaderServesFiles'
BY DEF HeaderServesFiles, Copies, dentry_num, inodes_num, Word

LEMMA ServedIsCopied == HeaderServesFiles => Copied
BY DEF HeaderServesFiles, Copied

LEMMA StillSucceeds ==
  ASSUME CommandsSucceed, UNCHANGED <<command, verdict>>,
         pc' = "exit" /\ (Main(command.name) = "cat" => First(command.arg) # {})
           => rval' = 0
  PROVE  CommandsSucceed'
BY DEF CommandsSucceed

\* A program that exists is started.
LEMMA ExecuteSucceeds ==
  ASSUME TypeInv, HeaderServesFiles, NEW c \in Typed, First(c.name) # {}, Execute(c.name)
  PROVE  result'.ret # -1
<1>1. PICK k \in First(c.name) : TRUE
  OBVIOUS
<1>2. k \in DOMAIN Dentries /\ Dentries[k] \in Lookup(c.name)
  BY FirstIn, LookupFinds, ServedIsCopied
<1> DEFINE inode == Dentries[k].inode_index
<1>3. Dentries[k].file_type = "file" /\ inode \in Programs
  BY CommandsAssumption
<1>4. ~Refuses(inode, 0)
  <2>1. inode <= inodes_num
    BY <1>2, <1>3 DEF HeaderServesFiles
  <2>2. inode \in Nat /\ inodes_num \in Int /\ Inodes[inode].file_length \in Nat
    BY <1>2, EntriesAre, WholeType, NameType, WordType DEF TypeInv, inodes_num, Word
  <2> HIDE DEF inode
  <2> QED
    BY <2>1, <2>2 DEF Refuses
<1> QED
  BY <1>2, <1>3, <1>4 DEF Execute, Return

LEMMA TypeSucceeds ==
  ASSUME SucceedInv, Type
  PROVE  Succeeding'
<1>1. /\ pc = "shell" /\ command' \in Typed /\ Execute(command'.name)
      /\ \/ result'.ret = -1 /\ pc' = "shell"
         \/ result'.ret # -1 /\ pc' = Main(command'.name) /\ verdict' = "none"
  BY DEF Type
<1>2. TypeInv /\ Copied /\ HeaderServesFiles
  BY DEF SucceedInv, Succeeding, TestInv, ShowInv, ShellInv
<1>3. HeaderServesFiles'
  BY <1>1, <1>2, ExecuteGives, ServesOn
<1>4. CASE result'.ret = -1
  <2>1. First(command'.name) = {} /\ pc' = "shell"
    BY <1>1, <1>2, <1>4, ExecuteSucceeds
  <2>2. CommandsSucceed'
    BY <2>1 DEF CommandsSucceed
  <2> QED
    BY <1>3, <2>1, <2>2 DEF Succeeding, Going, Listing, GrepLabels, InTheFile
<1>5. CASE result'.ret # -1
  <2>1. First(command'.name) # {} /\ filed_array' = FreshArray
    BY <1>1, <1>2, <1>5, ExecuteGives
  <2>2. command'.name \in Known
    BY <1>1, <2>1, UtilitiesAssumption
  <2>3. cat # ls /\ cat # grep /\ cat # syserr /\ ls # grep /\ ls # syserr /\ grep # syserr
    BY DEF cat, ls, grep, syserr
  <2>4. pc' \in {"cat", "ls", "grep", "syserr"} /\ verdict' = "none"
    BY <1>1, <1>5, <2>2, <2>3 DEF Main, Known
  <2>5. CommandsSucceed'
    BY <2>4 DEF CommandsSucceed
  <2> QED
    BY <1>3, <2>1, <2>2, <2>4, <2>5 DEF Succeeding, Going, Listing, GrepLabels, InTheFile
<1> QED
  BY <1>4, <1>5

\* The shell has nothing to say of a program that returns 0.
LEMMA FinishSucceeds ==
  ASSUME SucceedInv, Finish
  PROVE  Succeeding'
<1>1. /\ pc = "exit" /\ Halt /\ pc' = "shell" /\ UNCHANGED command
      /\ verdict' = Says(Returned(rval))
  BY DEF Finish
<1>2. HeaderServesFiles'
  BY <1>1, ServesOn DEF SucceedInv, Succeeding, Halt
<1>3. Says(Returned(0)) = "none"
  <2>1. 0 % 256 = 0 /\ EXCEPTION_STATUS # 0
    BY CommandsAssumption
  <2> QED
    BY <2>1 DEF Says, Returned
<1>4. CommandsSucceed'
  BY <1>1, <1>3 DEF SucceedInv, Succeeding, CommandsSucceed
<1> QED
  BY <1>1, <1>2, <1>4 DEF Succeeding, Going, Listing, GrepLabels, InTheFile

\* What cat, ls and grep begin with.
LEMMA BeginSucceeds ==
  ASSUME SucceedInv, NEW label \in {"cat", "ls", "grep"}, NEW name, NEW next, next # "exit",
         Begin(label, name, next), First(name) # {},
         \A k \in First(name) : Dentries[k].file_type = "file"
                                  => KeepsInodes(Dentries[k].file_name)
  PROVE  /\ pc' = next /\ local'.fd = 2 /\ UNCHANGED <<text, command, verdict>>
         /\ HeaderServesFiles' /\ CommandsSucceed' /\ Readable(filed_array'[2])
         /\ \A fd \in Fds : filed_array'[fd].flags = IF fd < 3 THEN 1 ELSE 0
         /\ \E k \in First(name) : filed_array'[2].type = Dentries[k].file_type
         /\ filed_array'[2].position = 0
<1>1. /\ pc = label /\ Open(name) /\ UNCHANGED <<text, command, verdict>>
      /\ \/ result'.ret = -1
         \/ /\ result'.ret # -1 /\ pc' = next
            /\ local' = [local EXCEPT !.fd = result'.ret]
  BY DEF Begin, Goto, Same
<1>2. TypeInv /\ Copied /\ HeaderServesFiles /\ local \in Locals /\ CommandsSucceed
  BY DEF SucceedInv, Succeeding, TestInv, ShowInv, ShellInv
<1>3. filed_array = FreshArray
  BY <1>1 DEF SucceedInv, Succeeding, Going
<1>4. \A fd \in Fds : filed_array[fd].flags = IF fd < 2 THEN 1 ELSE 0
  BY <1>3 DEF FreshArray, Terminal, Unused
<1>5. 2 \in Free /\ \A other \in Free : 2 <= other
  BY <1>4, EightDescriptors DEF Free
<1>6. result'.ret = 2
  BY <1>1, <1>2, <1>5, OpenSucceeds
<1>7. PICK k \in First(name) :
        /\ filed_array' = [filed_array EXCEPT ![2] = OpenEntry(2, Dentries[k])]
        /\ filed_array'[2].type = Dentries[k].file_type
        /\ filed_array'[2].position = 0
        /\ Readable(filed_array'[2])
        /\ header' = IF Dentries[k].file_type = "file"
                     THEN StrCpy(Dentries[k].file_name) ELSE header
  BY <1>1, <1>2, <1>5, OpenSucceeds
<1>8. HeaderServesFiles'
  <2>1. CASE Dentries[k].file_type = "file"
    BY <1>2, <1>7, <2>1, FirstIn, CopyServes
  <2>2. CASE Dentries[k].file_type # "file"
    BY <1>2, <1>7, <2>2, ServesOn
  <2> QED
    BY <2>1, <2>2
<1>9. \A fd \in Fds : filed_array'[fd].flags = IF fd < 3 THEN 1 ELSE 0
  <2>1. \A fd \in Fds : fd # 2 => filed_array'[fd] = filed_array[fd]
    BY <1>2, <1>7 DEF TypeInv, Arrays
  <2>2. filed_array'[2].flags = 1
    BY <1>7 DEF Readable
  <2> QED
    BY <1>4, <2>1, <2>2, EightDescriptors
<1>10. pc' = next /\ local'.fd = 2
  BY <1>1, <1>2, <1>6 DEF Locals
<1>11. CommandsSucceed'
  BY <1>1, <1>2, <1>10, StillSucceeds
<1> QED
  BY <1>1, <1>7, <1>8, <1>9, <1>10, <1>11

\* A file that is not there is the only one cat does not open.
LEMMA CatOpenSucceeds ==
  ASSUME SucceedInv, CatOpen
  PROVE  Succeeding'
<1>1. /\ pc = "cat" /\ Begin("cat", command.arg, "cat_read")
      /\ UNCHANGED <<command, verdict>> /\ pc' \in {"exit", "cat_read"}
  BY DEF CatOpen, Begin, Goto, Exit, Same
<1>2. /\ First(command.name) # {} /\ command.name \in Known
      /\ First(command'.name) # {} /\ command'.name \in Known
      /\ CommandsSucceed /\ command \in Typed /\ Main(command.name) = "cat"
  BY <1>1 DEF SucceedInv, Succeeding, TestInv, ShowInv, ShellInv, Labelled
<1>3. CASE First(command.arg) = {}
  <2>1. HeaderServesFiles' /\ pc' = "exit"
    <3>1. TypeInv /\ Copied /\ HeaderServesFiles /\ Open(command.arg)
      BY <1>1 DEF SucceedInv, Succeeding, TestInv, ShowInv, ShellInv, Begin
    <3>2. Lookup(command.arg) = {}
      BY <1>3, <3>1, LookupFinds
    <3>3. UNCHANGED header /\ result'.ret = -1
      BY <3>1, <3>2 DEF Open, Fail, Return
    <3> QED
      BY <1>1, <3>1, <3>3, ServesOn DEF Begin, Exit
  <2>2. CommandsSucceed'
    BY <1>1, <1>2, <1>3, StillSucceeds
  <2> QED
    BY <1>2, <2>1, <2>2 DEF Succeeding, Going, Listing, GrepLabels, InTheFile
<1>4. CASE First(command.arg) # {}
  <2>1. command.name = cat
    <3>1. cat # ls /\ cat # grep /\ cat # syserr /\ ls # grep /\ ls # syserr /\ grep # syserr
      BY DEF cat, ls, grep, syserr
    <3> QED
      BY <1>2, <3>1 DEF Main, Known
  <2>2. \A k \in First(command.arg) : Dentries[k].file_type = "file"
                                        => KeepsInodes(Dentries[k].file_name)
    BY <1>2, <2>1, CommandsAssumption
  <2>3. /\ pc' = "cat_read" /\ local'.fd = 2 /\ HeaderServesFiles' /\ CommandsSucceed'
        /\ Readable(filed_array'[2])
    BY <1>1, <1>4, <2>2, BeginSucceeds
  <2> QED
    BY <1>2, <2>3 DEF Succeeding, Going, Listing, GrepLabels, InTheFile
<1> QED
  BY <1>3, <1>4

\* The directory is there, and its name is not copied.
LEMMA DirectoryOpens ==
  /\ First(Dot) # {}
  /\ \A k \in First(Dot) : Dentries[k].file_type = "dir"
BY UtilitiesAssumption, ErrorTestsAssumption

LEMMA LsOpenSucceeds ==
  ASSUME SucceedInv, LsOpen
  PROVE  Succeeding'
<1>1. pc = "ls" /\ Begin("ls", Dot, "ls_read") /\ UNCHANGED command
  BY DEF LsOpen, Begin, Same
<1>2. First(command'.name) # {} /\ command'.name \in Known
  BY <1>1 DEF SucceedInv, Succeeding
<1>3. /\ pc' = "ls_read" /\ local'.fd = 2 /\ HeaderServesFiles' /\ CommandsSucceed'
      /\ Readable(filed_array'[2])
  BY <1>1, DirectoryOpens, BeginSucceeds
<1> QED
  BY <1>2, <1>3 DEF Succeeding, Going, Listing, GrepLabels, InTheFile

LEMMA GrepStartSucceeds ==
  ASSUME SucceedInv, GrepStart
  PROVE  Succeeding'
<1>1. pc = "grep" /\ Begin("grep", Dot, "grep_entry") /\ UNCHANGED command
  BY DEF GrepStart, Begin, Same
<1>2. First(command'.name) # {} /\ command'.name \in Known
  BY <1>1 DEF SucceedInv, Succeeding
<1>3. /\ pc' = "grep_entry" /\ local'.fd = 2 /\ HeaderServesFiles' /\ CommandsSucceed'
      /\ Readable(filed_array'[2])
      /\ \A fd \in Fds : filed_array'[fd].flags = IF fd < 3 THEN 1 ELSE 0
      /\ filed_array'[2].type = "dir" /\ filed_array'[2].position = 0
  BY <1>1, DirectoryOpens, BeginSucceeds
<1>4. 0 \in 0..Len(Dentries) /\ \A j : j \notin 1..0
  BY EntriesAre
<1>5. Remembered(header', 0)
  BY <1>4 DEF Remembered
<1>6. Listing(pc', header', filed_array', local')
  BY <1>3, <1>4, <1>5 DEF Listing, InTheFile
<1>7. Going(pc', filed_array', local')
  BY <1>3 DEF Going, InTheFile
<1> QED
  BY <1>2, <1>3, <1>6, <1>7 DEF Succeeding

\* What the programs with an open descriptor have in common.
LEMMA ReadingOn ==
  ASSUME SucceedInv, NEW fd \in {2, 3}, Readable(filed_array[fd]), NEW n \in Nat, Read(fd, n)
  PROVE  /\ result'.ret # -1 /\ Readable(filed_array'[fd])
         /\ HeaderServesFiles' /\ UNCHANGED header
         /\ \A other \in Fds \ {fd} : filed_array'[other] = filed_array[other]
         /\ filed_array'[fd].type = filed_array[fd].type
         /\ filed_array'[fd].flags = filed_array[fd].flags
<1>1. TypeInv /\ HeaderServesFiles /\ text \in Texts
  BY DEF SucceedInv, Succeeding, TestInv, ShowInv, ShellInv
<1>2. fd \in Served /\ fd \in Fds /\ fd \in Int
  BY EightDescriptors
<1>3. UNCHANGED header
  BY <1>1, <1>2, ReadGives
<1> QED
  BY <1>1, <1>2, <1>3, ReadSucceeds, ReadMoves, ServesOn

LEMMA ShowsSucceed ==
  ASSUME SucceedInv, CatRead \/ LsRead
  PROVE  Succeeding'
<1>1. /\ pc \in {"cat_read", "ls_read"} /\ UNCHANGED <<local, command, verdict>>
      /\ \E n \in Nat : Read(local.fd, n)
      /\ result'.ret # -1 => \/ pc' = "exit" /\ rval' = 0
                             \/ pc' \in {"cat_read", "ls_read"}
  <2>1. BUFSIZE \in Nat /\ SBUFSIZE - 1 \in Nat
    BY UtilitiesAssumption
  <2>2. CASE CatRead
    BY <2>1, <2>2 DEF CatRead, Goto, Exit, Same
  <2>3. CASE LsRead
    BY <2>1, <2>3 DEF LsRead, Goto, Exit, Same
  <2> QED
    BY <2>2, <2>3
<1>2. /\ First(command'.name) # {} /\ command'.name \in Known /\ CommandsSucceed
      /\ local.fd = 2 /\ Readable(filed_array[2])
  BY <1>1 DEF SucceedInv, Succeeding, Going
<1>3. PICK n \in Nat : Read(2, n)
  BY <1>1, <1>2
<1>4. result'.ret # -1 /\ Readable(filed_array'[2]) /\ HeaderServesFiles'
  BY <1>2, <1>3, ReadingOn
<1>5. CommandsSucceed'
  BY <1>1, <1>2, <1>4, StillSucceeds
<1>6. Going(pc', filed_array', local')
  BY <1>1, <1>2, <1>4 DEF Going, GrepLabels, InTheFile
<1>7. Listing(pc', header', filed_array', local')
  BY <1>1, <1>4 DEF Listing, GrepLabels
<1> QED
  BY <1>2, <1>4, <1>5, <1>6, <1>7 DEF Succeeding

\* A step of grep that ends nothing.
LEMMA GrepGoesOn ==
  ASSUME SucceedInv, pc # "shell", pc' # "exit", UNCHANGED <<command, verdict>>,
         HeaderServesFiles', Going(pc', filed_array', local'),
         Listing(pc', header', filed_array', local')
  PROVE  Succeeding'
<1>1. First(command'.name) # {} /\ command'.name \in Known /\ CommandsSucceed
  BY DEF SucceedInv, Succeeding
<1>2. CommandsSucceed'
  BY <1>1, StillSucceeds
<1> QED
  BY <1>1, <1>2 DEF Succeeding

LEMMA GrepEntrySucceeds ==
  ASSUME SucceedInv, GrepEntry
  PROVE  Succeeding'
<1> DEFINE e == filed_array[2]
           at == e.position
           r == result'.ret
           n == SBUFSIZE - 1
<1>1. /\ pc = "grep_entry" /\ Read(local.fd, n) /\ UNCHANGED <<command, verdict>>
      /\ \/ r = 0 /\ pc' = "exit" /\ rval' = 0 /\ UNCHANGED local
         \/ r = -1
         \/ /\ r # 0 /\ r # -1
            /\ pc' = IF Delivered(local.fd)[1] = Dot[1] THEN "grep_entry" ELSE "grep_open"
            /\ local' = [local EXCEPT !.fname = Delivered(local.fd)]
  BY DEF GrepEntry, Exit, Goto, Same
<1>2. /\ TypeInv /\ n \in Nat \ {0} /\ local \in Locals /\ filed_array \in Arrays
      /\ CommandsSucceed /\ First(command'.name) # {} /\ command'.name \in Known
  BY <1>1, UtilitiesAssumption
     DEF SucceedInv, Succeeding, TestInv, ShowInv, ShellInv, TypeInv
<1>3. local.fd = 2 /\ Readable(e)
  BY <1>1 DEF SucceedInv, Succeeding, Going, GrepLabels
<1>4. /\ e.type = "dir" /\ at \in 0..Len(Dentries)
      /\ \A fd \in Fds : filed_array[fd].flags = IF fd < 3 THEN 1 ELSE 0
      /\ Remembered(header, at)
  BY <1>1 DEF SucceedInv, Succeeding, Listing, GrepLabels, InTheFile
<1>5. Read(2, n) /\ 2 \in Fds
  BY <1>1, <1>3, EightDescriptors
<1>6. /\ r # -1 /\ Readable(filed_array'[2]) /\ HeaderServesFiles' /\ UNCHANGED header
      /\ \A other \in Fds \ {2} : filed_array'[other] = filed_array[other]
      /\ filed_array'[2].type = e.type /\ filed_array'[2].flags = e.flags
  BY <1>2, <1>3, <1>5, ReadingOn
<1>7. CASE r = 0
  <2>1. pc' = "exit" /\ rval' = 0 /\ CommandsSucceed'
    BY <1>1, <1>2, <1>7, StillSucceeds
  <2> QED
    BY <1>2, <1>6, <2>1 DEF Succeeding, Going, Listing, GrepLabels, InTheFile
<1>8. CASE r # 0
  <2>1. DirectoryRead(2, n)
    BY <1>4, <1>5, <1>6 DEF Read, Fail, Return, FileRead, RtcRead
  <2>2. /\ at < Len(Dentries) => Delivered(2) = AllNames(n)[at + 1]
        /\ ~(at < Len(Dentries)) => r = 0
        /\ filed_array' = [filed_array EXCEPT ![2].position = at + 1]
    BY <1>2, <1>5, <2>1, NameReadGives
  <2>3. at + 1 \in DOMAIN Dentries /\ at \in Nat /\ at < Len(Dentries)
    <3> HIDE DEF at
    <3> QED
      BY <1>4, <1>8, <2>2, EntriesAre
  <2> DEFINE name == Dentries[at + 1].file_name
  <2>4. Delivered(2) = name
    BY <2>2, <2>3, NamesAreWhole
  <2>5. /\ pc' = IF name[1] = Dot[1] THEN "grep_entry" ELSE "grep_open"
        /\ local'.fname = name /\ local'.fd = 2
    BY <1>1, <1>2, <1>3, <1>6, <1>8, <2>4 DEF Locals
  <2>6. filed_array'[2].position = at + 1
    BY <1>2, <1>5, <2>2 DEF Arrays, Entries, Descriptor
  <2>7. \A fd \in Fds : filed_array'[fd].flags = IF fd < 3 THEN 1 ELSE 0
    BY <1>4, <1>6
  <2>8. Remembered(header', IF pc' = "grep_open" THEN (at + 1) - 1 ELSE at + 1)
    <3>1. CASE name[1] # Dot[1]
      <4> HIDE DEF at, name
      <4>1. (at + 1) - 1 = at /\ header' = header /\ pc' = "grep_open"
        BY <1>6, <2>3, <2>5, <3>1
      <4> QED
        BY <1>4, <4>1
    <3>2. CASE name[1] = Dot[1]
      <4>1. ~GrepOpens(at + 1)
        BY <3>2 DEF GrepOpens
      <4> HIDE DEF at
      <4>2. Remembered(header', at + 1)
        BY <1>2, <1>4, <1>6, <2>3, <4>1, RememberNext
      <4> QED
        BY <2>5, <3>2, <4>2
    <3> QED
      BY <3>1, <3>2
  <2>9. at + 1 \in 0..Len(Dentries) /\ at + 1 # 0
    <3> HIDE DEF at
    <3> QED
      BY <2>3, EntriesAre
  <2> HIDE DEF at, n, r, e
  <2>10. Listing(pc', header', filed_array', local')
    BY <1>4, <1>6, <2>5, <2>6, <2>7, <2>8, <2>9 DEF Listing, InTheFile, name
  <2>11. Going(pc', filed_array', local') /\ pc' # "exit"
    BY <1>6, <2>5 DEF Going, InTheFile
  <2> QED
    BY <1>1, <1>6, <2>10, <2>11, GrepGoesOn
<1> QED
  BY <1>7, <1>8

\* The name that is copied leaves its mark, or the mark of one before it stays.
LEMMA GrepOpenSucceeds ==
  ASSUME SucceedInv, GrepOpen
  PROVE  Succeeding'
<1> DEFINE at == filed_array[2].position
<1>1. /\ pc = "grep_open" /\ Open(local.fname) /\ UNCHANGED <<command, verdict>>
      /\ \/ result'.ret = -1
         \/ /\ result'.ret # -1 /\ pc' = "grep_read"
            /\ local' = [local EXCEPT !.file = result'.ret, !.last = 0, !.data = NoLocals.data]
  BY DEF GrepOpen, Goto, Same
<1>2. /\ TypeInv /\ Copied /\ HeaderServesFiles /\ local \in Locals /\ filed_array \in Arrays
      /\ local.fd = 2 /\ Readable(filed_array[2])
  BY <1>1 DEF SucceedInv, Succeeding, TestInv, ShowInv, ShellInv, TypeInv, Going, GrepLabels
<1>3. /\ filed_array[2].type = "dir" /\ at \in 0..Len(Dentries)
      /\ \A fd \in Fds : filed_array[fd].flags = IF fd < 3 THEN 1 ELSE 0
      /\ Remembered(header, at - 1)
      /\ at # 0 /\ local.fname = Dentries[at].file_name /\ local.fname[1] # Dot[1]
  BY <1>1 DEF SucceedInv, Succeeding, Listing, GrepLabels, InTheFile
<1> HIDE DEF at
<1>4. at \in DOMAIN Dentries /\ at - 1 \in Nat /\ (at - 1) + 1 = at
  BY <1>3, EntriesAre
<1>5. First(local.fname) = {at}
  BY <1>3, <1>4, FirstIs
<1>6. 3 \in Free /\ \A other \in Free : 3 <= other
  BY <1>3, EightDescriptors DEF Free
<1>7. /\ result'.ret = 3
      /\ filed_array' = [filed_array EXCEPT ![3] = OpenEntry(3, Dentries[at])]
      /\ Readable(filed_array'[3])
      /\ header' = IF Dentries[at].file_type = "file"
                   THEN StrCpy(Dentries[at].file_name) ELSE header
  BY <1>1, <1>2, <1>5, <1>6, OpenSucceeds
<1>8. HeaderServesFiles' /\ Remembered(header', at)
  <2>1. CASE Dentries[at].file_type = "file"
    <3>1. GrepOpens(at)
      BY <1>3, <2>1 DEF GrepOpens
    <3>2. ASSUME Len(Dentries[at].file_name) = 4,
                 NEW j \in 1..(at - 1), NEW b \in 6..8, Stays(j, b, at - 1)
          PROVE  header[b - 1] # 0
      BY <1>3, <3>2 DEF Remembered
    <3>3. \/ KeepsInodes(Dentries[at].file_name)
          \/ Len(Dentries[at].file_name) = 4 /\ \E b \in 6..8 : header[b - 1] # 0
      BY <1>4, <3>1, <3>2, CommandsAssumption
    <3>4. HeaderServesFiles'
      BY <1>2, <1>4, <1>7, <2>1, <3>3, CopyServes
    <3>5. Remembered(header', (at - 1) + 1)
      BY <1>2, <1>3, <1>4, <1>7, <2>1, <3>1, RememberNext
    <3> QED
      BY <1>4, <3>4, <3>5
  <2>2. CASE Dentries[at].file_type # "file"
    <3>1. ~GrepOpens(at) /\ header' = header
      BY <1>7, <2>2 DEF GrepOpens
    <3>2. Remembered(header', (at - 1) + 1)
      BY <1>2, <1>3, <1>4, <3>1, RememberNext
    <3> QED
      BY <1>2, <1>4, <3>1, <3>2, ServesOn
  <2> QED
    BY <2>1, <2>2
<1>9. /\ pc' = "grep_read" /\ local'.file = 3 /\ local'.fd = 2
      /\ filed_array'[2] = filed_array[2]
      /\ \A fd \in Fds : filed_array'[fd].flags = IF fd < 3 \/ fd = 3 THEN 1 ELSE 0
  <2>1. pc' = "grep_read" /\ local' = [local EXCEPT !.file = 3, !.last = 0, !.data = NoLocals.data]
    BY <1>1, <1>7
  <2>2. local'.file = 3 /\ local'.fd = 2
    BY <1>2, <2>1 DEF Locals
  <2>3. \A fd \in Fds : fd # 3 => filed_array'[fd] = filed_array[fd]
    BY <1>2, <1>7 DEF Arrays
  <2>4. filed_array'[3].flags = 1
    BY <1>7 DEF Readable
  <2> QED
    BY <1>3, <2>1, <2>2, <2>3, <2>4, EightDescriptors
<1>10. Going(pc', filed_array', local')
  BY <1>2, <1>7, <1>9 DEF Going
<1>11. Listing(pc', header', filed_array', local')
  BY <1>3, <1>8, <1>9 DEF Listing, InTheFile, at
<1> QED
  BY <1>1, <1>8, <1>9, <1>10, <1>11, GrepGoesOn

\* A round in the file leaves the directory where it is.
LEMMA InTheFileOn ==
  ASSUME SucceedInv, pc \in InTheFile, pc' \in InTheFile, UNCHANGED <<command, verdict, header>>,
         HeaderServesFiles', local'.fd = local.fd, local'.file = local.file,
         Readable(filed_array'[3]),
         \A other \in Fds \ {3} : filed_array'[other] = filed_array[other],
         filed_array'[3].flags = filed_array[3].flags
  PROVE  Succeeding'
<1>1. /\ local.fd = 2 /\ Readable(filed_array[2]) /\ local.file = 3
      /\ pc # "shell" /\ pc' # "exit" /\ pc # "grep_open" /\ pc' # "grep_open"
      /\ pc \in GrepLabels /\ pc' \in GrepLabels
  BY DEF SucceedInv, Succeeding, Going, GrepLabels, InTheFile
<1>2. filed_array'[2] = filed_array[2]
  BY EightDescriptors
<1>3. Going(pc', filed_array', local')
  BY <1>1, <1>2 DEF Going, InTheFile
<1>4. /\ filed_array[2].type = "dir" /\ filed_array[2].position \in 0..Len(Dentries)
      /\ \A fd \in Fds : filed_array[fd].flags = IF fd < 3 \/ fd = 3 THEN 1 ELSE 0
      /\ Remembered(header, filed_array[2].position)
  BY <1>1 DEF SucceedInv, Succeeding, Listing
<1>5. \A fd \in Fds : filed_array'[fd].flags = filed_array[fd].flags
  OBVIOUS
<1>6. Listing(pc', header', filed_array', local')
  BY <1>1, <1>2, <1>4, <1>5 DEF Listing
<1> QED
  BY <1>1, <1>3, <1>6, GrepGoesOn

LEMMA GrepReadSucceeds ==
  ASSUME SucceedInv, GrepRead
  PROVE  Succeeding'
<1> DEFINE n == BUFSIZE - local.last
<1>1. /\ pc = "grep_read" /\ Read(local.file, n) /\ UNCHANGED <<command, verdict>>
      /\ \/ result'.ret = -1
         \/ \E cnt, last, data :
              /\ pc' = "grep_line"
              /\ local' = [local EXCEPT !.cnt = cnt, !.last = last, !.line_start = 0,
                                        !.data = data]
  BY DEF GrepRead, Goto, Same
<1>2. local \in Locals /\ n \in Nat
  <2>1. local \in Locals
    BY DEF SucceedInv, TestInv, ShowInv, ShellInv
  <2> QED
    BY <2>1, UtilitiesAssumption DEF Locals
<1>3. local.file = 3 /\ Readable(filed_array[3]) /\ Read(3, n)
  BY <1>1 DEF SucceedInv, Succeeding, Going, InTheFile
<1> HIDE DEF n
<1>4. /\ result'.ret # -1 /\ Readable(filed_array'[3])
      /\ HeaderServesFiles' /\ UNCHANGED header
      /\ \A other \in Fds \ {3} : filed_array'[other] = filed_array[other]
      /\ filed_array'[3].flags = filed_array[3].flags
  BY <1>2, <1>3, ReadingOn
<1>5. pc' = "grep_line" /\ local'.fd = local.fd /\ local'.file = local.file
  BY <1>1, <1>2, <1>4 DEF Locals
<1> QED
  BY <1>1, <1>4, <1>5, InTheFileOn DEF InTheFile

LEMMA GrepLineSucceeds ==
  ASSUME SucceedInv, GrepLine
  PROVE  Succeeding'
<1>1. /\ pc = "grep_line" /\ UNCHANGED <<command, verdict, header, filed_array>>
      /\ KeepRest \/ NextLine
  BY DEF GrepLine, files, Same
<1>2. local \in Locals /\ HeaderServesFiles
  BY DEF SucceedInv, Succeeding, TestInv, ShowInv, ShellInv
<1>3. pc' \in InTheFile /\ local'.fd = local.fd /\ local'.file = local.file
  <2>1. CASE KeepRest
    BY <1>2, <2>1 DEF KeepRest, Goto, InTheFile, Locals
  <2>2. CASE NextLine
    BY <1>2, <2>2 DEF NextLine, Goto, InTheFile, Locals
  <2> QED
    BY <1>1, <2>1, <2>2
<1>4. Readable(filed_array[3]) /\ pc \in InTheFile
  BY <1>1 DEF SucceedInv, Succeeding, Going, InTheFile
<1> QED
  BY <1>1, <1>2, <1>3, <1>4, ServesOn, InTheFileOn

LEMMA GrepCloseSucceeds ==
  ASSUME SucceedInv, GrepClose
  PROVE  Succeeding'
<1>1. /\ pc = "grep_close" /\ Close(local.file) /\ UNCHANGED <<command, verdict, local>>
      /\ result'.ret # -1 => pc' = "grep_entry"
  BY DEF GrepClose, Exit, Goto, Same
<1>2. /\ local.fd = 2 /\ Readable(filed_array[2]) /\ local.file = 3 /\ Readable(filed_array[3])
      /\ filed_array \in Arrays /\ HeaderServesFiles
  BY <1>1 DEF SucceedInv, Succeeding, TestInv, ShowInv, ShellInv, TypeInv, Going, GrepLabels,
              InTheFile
<1>3. /\ filed_array[2].type = "dir" /\ filed_array[2].position \in 0..Len(Dentries)
      /\ \A fd \in Fds : filed_array[fd].flags = IF fd < 3 \/ fd = 3 THEN 1 ELSE 0
      /\ Remembered(header, filed_array[2].position)
  BY <1>1 DEF SucceedInv, Succeeding, Listing, GrepLabels, InTheFile
<1>4. IsOpen(3)
  BY <1>2, EightDescriptors DEF IsOpen, Readable
<1>5. /\ filed_array' = [filed_array EXCEPT ![3].flags = 0]
      /\ result'.ret = 0 /\ UNCHANGED header
  BY <1>1, <1>2, <1>4 DEF Close, Return
<1>6. pc' = "grep_entry" /\ HeaderServesFiles'
  BY <1>1, <1>2, <1>5, ServesOn
<1>7. /\ filed_array'[2] = filed_array[2]
      /\ \A fd \in Fds : filed_array'[fd].flags = IF fd < 3 THEN 1 ELSE 0
  <2>1. \A fd \in Fds : /\ fd # 3 => filed_array'[fd] = filed_array[fd]
                        /\ fd = 3 => filed_array'[fd].flags = 0
    BY <1>2, <1>5 DEF Arrays, Entries, Descriptor
  <2> QED
    BY <1>3, <2>1, EightDescriptors
<1>8. Going(pc', filed_array', local')
  BY <1>1, <1>2, <1>6, <1>7 DEF Going, InTheFile
<1>9. Listing(pc', header', filed_array', local')
  BY <1>3, <1>5, <1>6, <1>7 DEF Listing, InTheFile
<1> QED
  BY <1>1, <1>6, <1>8, <1>9, GrepGoesOn

\* syserr opens nothing that is copied.
LEMMA SyserrSucceeds ==
  ASSUME SucceedInv, SyserrCall
  PROVE  Succeeding'
<1> DEFINE c == Script[local.step]
<1>1. /\ pc = "syserr" /\ pc' = "syserr" /\ UNCHANGED <<command, verdict>>
      /\ local.step <= Len(Script) /\ SysCall(c[2], c[3])
  BY DEF SyserrCall, Goto, Same
<1>2. TypeInv /\ Copied /\ HeaderServesFiles /\ text \in Texts
  BY DEF SucceedInv, Succeeding, TestInv, ShowInv, ShellInv
<1>3. local.step \in 1..Len(Script)
  BY <1>1, ScriptCalls DEF SucceedInv, TestInv, ShowInv, ShellInv, Locals
<1>4. /\ c \in Asked
      /\ c[2] = "open" => c[3] \in NoNames \cup {Dot}
  <2>1. c \in Asked
    BY <1>3, ScriptCalls
  <2>2. c \in Wrong \/ c = <<3, "open", Dot>> \/ c[2] = "close"
    <3> DEFINE k == local.step
               n == IF Opens THEN k - 1 - Len(Before) ELSE -1
    <3> HIDE DEF n
    <3>1. /\ n \notin 0..12 => c \in Wrong
          /\ n \in 0..6 => c = <<3, "open", Dot>>
          /\ n \in 7..12 => c = <<0, "close", n - 5>>
      BY <1>3, CallIs DEF n
    <3>2. n \notin 0..12 \/ n \in 0..6 \/ n \in 7..12
      OBVIOUS
    <3> QED
      BY <3>1, <3>2
  <2> HIDE DEF c
  <2> QED
    BY <2>1, <2>2 DEF Wrong
<1> HIDE DEF c
<1>5. UNCHANGED header
  <2>1. CASE c[2] = "open"
    <3>1. Open(c[3]) /\ c[3] \in NoNames \cup {Dot}
      BY <1>1, <1>4, <2>1 DEF SysCall
    <3>2. \A k \in First(c[3]) : Dentries[k].file_type = "dir"
      BY <3>1, DirectoryOpens, ErrorTestsAssumption DEF NoNames
    <3>3. \A d \in Lookup(c[3]) : d.file_type = "dir"
      BY <1>2, <3>2, LookupFinds
    <3> QED
      BY <3>1, <3>3 DEF Open, Fail
  <2>2. CASE c[2] = "close"
    BY <1>1, <2>2 DEF SysCall, Close, Fail
  <2>3. CASE c[2] = "read"
    BY <1>1, <2>3 DEF SysCall, Read, FileRead, DirectoryRead, RtcRead, Deliver, Fail
  <2>4. CASE c[2] = "write"
    BY <1>1, <2>4 DEF SysCall, Write, Fail
  <2> QED
    BY <1>4, <2>1, <2>2, <2>3, <2>4 DEF Asked
<1>6. HeaderServesFiles'
  BY <1>2, <1>5, ServesOn
<1>7. Going(pc', filed_array', local') /\ Listing(pc', header', filed_array', local')
  BY <1>1 DEF Going, Listing, GrepLabels, InTheFile
<1> QED
  BY <1>1, <1>6, <1>7, GrepGoesOn

\* What it finds is that its tests have passed.
LEMMA SyserrEndSucceeds ==
  ASSUME SucceedInv, SyserrEnd
  PROVE  Succeeding'
<1>1. pc = "syserr" /\ pc' = "exit" /\ UNCHANGED <<header, command, verdict>>
  BY DEF SyserrEnd, Exit, files, Same
<1>2. /\ First(command'.name) # {} /\ command'.name \in Known /\ CommandsSucceed
      /\ HeaderServesFiles /\ Main(command.name) = "syserr"
  BY <1>1 DEF SucceedInv, Succeeding, TestInv, ShowInv, Labelled
<1>3. ErrorTestsPass'
  BY SyserrEndTested DEF SucceedInv
<1>4. rval' = 0
  BY <1>1, <1>2, <1>3 DEF ErrorTestsPass
<1>5. CommandsSucceed' /\ HeaderServesFiles'
  BY <1>1, <1>2, <1>4, StillSucceeds, ServesOn
<1> QED
  BY <1>1, <1>2, <1>5 DEF Succeeding, Going, Listing, GrepLabels, InTheFile

LEMMA StutterSucceeds ==
  ASSUME SucceedInv, UNCHANGED shellVars
  PROVE  Succeeding'
<1>1. UNCHANGED <<header, filed_array, command, pc, local, rval, verdict>>
  BY DEF shellVars, files
<1>2. HeaderServesFiles'
  BY <1>1, ServesOn DEF SucceedInv, Succeeding
<1> QED
  BY <1>1, <1>2 DEF SucceedInv, Succeeding, Going, Listing, CommandsSucceed

\* A command that names a program, and for cat a file, does what it is for: no
\* name that grep or cat opens ends what the shell, cat, ls, grep and syserr can
\* reach, in images where a longer name leaves its mark in the boot block before
\* one of four letters is opened (file_open(), ece391shell.c).
THEOREM AllCommandsSucceed == ShellSpec => []CommandsSucceed
<1>1. ShellInit => SucceedInv
  <2> SUFFICES ASSUME ShellInit PROVE SucceedInv
    OBVIOUS
  <2>1. pc = "shell" /\ local = NoLocals /\ verdict = "none" /\ Init
    BY DEF ShellInit
  <2>2. TestInv
    BY <2>1, InitShowInv DEF TestInv, Tested, ErrorTestsPass
  <2>3. HeaderServesFiles
    BY <2>1, InitHeaderInv DEF HeaderInv
  <2> QED
    BY <2>1, <2>2, <2>3
       DEF SucceedInv, Succeeding, Going, Listing, GrepLabels, InTheFile, CommandsSucceed
<1>2. SucceedInv /\ [ShellNext]_shellVars => SucceedInv'
  <2> SUFFICES ASSUME SucceedInv, [ShellNext]_shellVars PROVE SucceedInv'
    OBVIOUS
  <2>1. TestInv'
    BY StepTestInv DEF SucceedInv
  <2>2. Succeeding'
    BY TypeSucceeds, FinishSucceeds, CatOpenSucceeds, LsOpenSucceeds, ShowsSucceed,
       GrepStartSucceeds, GrepEntrySucceeds, GrepOpenSucceeds, GrepReadSucceeds,
       GrepLineSucceeds, GrepCloseSucceeds, SyserrSucceeds, SyserrEndSucceeds,
       StutterSucceeds DEF ShellNext, Program
  <2> QED
    BY <2>1, <2>2 DEF SucceedInv
<1>3. SucceedInv => CommandsSucceed
  BY DEF SucceedInv, Succeeding
<1> QED
  BY <1>1, <1>2, <1>3, PTL DEF ShellSpec

=============================================================================
