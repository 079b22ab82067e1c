--------------------------- MODULE FileSystemProofs ---------------------------
(***************************************************************************)
(* Files of every length in blocks of every size, read in pieces of every  *)
(* length through any number of descriptors, for images whose names do no  *)
(* harm to the boot block: file_open() writes them over its counters, and  *)
(* the boot block keeps serving every file; what read_data() puts together *)
(* block by block is what the file has; and FileSystem implements          *)
(* OpenFiles.                                                              *)
(***************************************************************************)
EXTENDS FileSystemOpenFiles, FiniteSetTheorems, SequenceTheorems, TLAPS

------------------------------------------------------------------------------
(* Induction over a set of numbers, without an operator for a parameter    *)

\* The intervals below the numbers of the set are finite sets, ordered by
\* inclusion, and that order is well-founded.
LEMMA LeastNumber ==
  ASSUME NEW S \in SUBSET Nat, S # {}
  PROVE  \E n \in S : \A m \in S : n <= m
<1> DEFINE Below == {0..n : n \in S}
           R == StrictSubsetOrdering(Nat)
           F == FiniteSubsetsOf(Nat)
<1>1. Below \subseteq F
  <2> SUFFICES ASSUME NEW n \in S PROVE 0..n \in F
    OBVIOUS
  <2>1. IsFiniteSet(0..n)
    <3>1. 0 \in Int /\ n \in Int
      OBVIOUS
    <3> QED
      BY <3>1, FS_Interval
  <2> QED
    BY <2>1 DEF FiniteSubsetsOf
<1>2. PICK b \in Below : \A c \in Below : <<c, b>> \notin R
  <2>1. Below # {}
    OBVIOUS
  <2>2. IsWellFoundedOn(R, F)
    BY FS_StrictSubsetOrderingWellFounded
  <2> HIDE DEF Below, R, F
  <2> QED
    BY <1>1, <2>1, <2>2, WFMin
<1>3. PICK n \in S : b = 0..n
  BY <1>2
<1>4. ASSUME NEW m \in S, m < n
      PROVE  FALSE
  <2>1. 0..m \in Below /\ 0..m \subseteq 0..n /\ 0..m # 0..n
    BY <1>4
  <2>2. <<0..m, b>> \in R
    BY <2>1, <1>3 DEF StrictSubsetOrdering
  <2> QED
    BY <1>2, <2>1, <2>2
<1> QED
  BY <1>4

LEMMA InductionFromZero ==
  ASSUME NEW S \in SUBSET Nat, 0 \in S, \A n \in S : n + 1 \in S
  PROVE  S = Nat
<1> SUFFICES ASSUME Nat \ S # {} PROVE FALSE
  OBVIOUS
<1>1. PICK n \in Nat \ S : \A m \in Nat \ S : n <= m
  BY LeastNumber
<1>2. n # 0 /\ n - 1 \in Nat /\ n - 1 \notin Nat \ S
  BY <1>1
<1> QED
  BY <1>1, <1>2

\* As far as a bound, from any number on.
LEMMA InductionWithin ==
  ASSUME NEW a \in Int, NEW b \in Int, NEW S, a <= b => a \in S,
         \A n \in a..(b - 1) : n \in S => n + 1 \in S
  PROVE  a..b \subseteq S
<1> DEFINE T == {n \in Nat : a + n <= b => a + n \in S}
<1>1. 0 \in T
  OBVIOUS
<1>2. ASSUME NEW n \in T
      PROVE  n + 1 \in T
  <2>1. CASE a + (n + 1) <= b
    <3>1. a + n \in a..(b - 1) /\ a + n \in S
      BY <2>1
    <3>2. (a + n) + 1 \in S /\ (a + n) + 1 = a + (n + 1)
      BY <3>1
    <3> QED
      BY <3>2
  <2>2. CASE ~(a + (n + 1) <= b)
    BY <2>2
  <2> QED
    BY <2>1, <2>2
<1>3. T = Nat
  <2> HIDE DEF T
  <2>1. T \in SUBSET Nat
    BY DEF T
  <2> QED
    BY <1>1, <1>2, <2>1, InductionFromZero
<1>4. ASSUME NEW n \in a..b
      PROVE  n \in S
  <2>1. n - a \in Nat /\ a + (n - a) = n /\ n <= b
    OBVIOUS
  <2>2. a + (n - a) <= b => a + (n - a) \in S
    BY <1>3, <2>1
  <2> QED
    BY <2>1, <2>2
<1> QED
  BY <1>4

------------------------------------------------------------------------------
(* The boot block                                                          *)

HeaderInv == header \in [0..7 -> Byte] /\ HeaderServesFiles

LEMMA NameType ==
  ASSUME NEW k \in DOMAIN Dentries
  PROVE  /\ k \in 1..Len(Dentries) /\ Len(Dentries) \in Nat
         /\ Dentries[k].file_name \in Seq(Byte)
         /\ Dentries[k].inode_index \in Nat
         /\ Dentries[k].inode_index <= InodesNum
<1>1. /\ Dentries \in Seq(Dentry)
      /\ DOMAIN Inodes \subseteq 0..InodesNum
      /\ InodesNum \in Nat
  <2>1. Dentries \in Seq(Dentry) /\ DOMAIN Inodes \subseteq 0..InodesNum
    BY FileSystemAssumption
  <2>2. InodesNum \in Byte
    BY FileSystemAssumption
  <2>3. InodesNum \in Nat
    BY <2>2 DEF Byte
  <2> QED
    BY <2>1, <2>3
<1>2. Dentries[k] \in Dentry /\ k \in 1..Len(Dentries) /\ Len(Dentries) \in Nat
  BY <1>1
<1>3. Dentries[k].file_name \in Seq(Byte)
  BY <1>2 DEF Dentry
<1>4. Dentries[k].inode_index \in 0..InodesNum
  BY <1>1, <1>2 DEF Dentry
<1>5. QED
  BY <1>1, <1>2, <1>3, <1>4

LEMMA NameFits ==
  ASSUME NEW k \in DOMAIN Dentries
  PROVE  /\ Dentries[k].file_name \in Seq(Byte)
         /\ Dentries[k].file_name # <<>>
         /\ Cut(Dentries[k].file_name) = Dentries[k].file_name
<1> DEFINE name == Dentries[k].file_name
<1>1. name \in Seq(Byte)
  BY NameType
<1>2. Len(name) \in Nat /\ Len(name) >= 1 /\ Len(name) <= FILE_NAME_LENGTH
  BY DirectoryAssumption, FileSystemAssumption
<1> HIDE DEF name
<1>3. Least(Len(name), FILE_NAME_LENGTH) = Len(name)
  BY <1>2, FileSystemAssumption DEF Least
<1>4. SubSeq(name, 1, Len(name)) = name
  BY <1>1
<1> QED
  BY <1>1, <1>2, <1>3, <1>4 DEF Cut, name

\* Each entry is found by its name, and only by its name.
LEMMA FirstIs ==
  /\ \A k \in DOMAIN Dentries : First(Dentries[k].file_name) = {k}
  /\ \A name \in Names : First(name) # {} =>
       \E k \in DOMAIN Dentries : name = Dentries[k].file_name
<1>1. ASSUME NEW k \in DOMAIN Dentries
      PROVE  Matches(Dentries[k].file_name) = {k}
  <2> DEFINE name == Dentries[k].file_name
  <2>1. k \in Matches(name)
    BY NameFits DEF Matches, strncmp
  <2>2. ASSUME NEW l \in Matches(name)
        PROVE  l = k
    <3> DEFINE entry == Dentries[l].file_name
    <3>1. l \in DOMAIN Dentries /\ Len(entry) = Len(name)
          /\ SubSeq(name, 1, Len(entry)) = SubSeq(entry, 1, Len(entry))
      BY <2>2, NameFits DEF Matches, strncmp
    <3>2. name \in Seq(Byte) /\ entry \in Seq(Byte)
      BY <3>1, NameFits
    <3> HIDE DEF name, entry
    <3>3. entry = name
      BY <3>1, <3>2
    <3> QED
      BY <3>1, <3>3, DirectoryAssumption DEF name, entry
  <2> QED
    BY <2>1, <2>2
<1>2. ASSUME NEW k \in DOMAIN Dentries
      PROVE  First(Dentries[k].file_name) = {k}
  <2>1. k \in Nat
    BY FileSystemAssumption
  <2> QED
    BY <1>1, <2>1 DEF First
<1>3. \A name \in Unknown : First(name) = {}
  BY DirectoryAssumption DEF First
<1> QED
  BY <1>2, <1>3 DEF Names

LEMMA LookupIs ==
  ASSUME HeaderServesFiles, NEW name \in Names
  PROVE  /\ \A d \in Lookup(name) : \E k \in DOMAIN Dentries :
              d = Dentries[k] /\ name = Dentries[k].file_name /\ First(name) = {k}
         /\ Lookup(name) = {} => \A k \in DOMAIN Dentries : name # Dentries[k].file_name
<1>1. ASSUME NEW d \in Lookup(name)
      PROVE  \E k \in DOMAIN Dentries :
               d = Dentries[k] /\ name = Dentries[k].file_name /\ First(name) = {k}
  <2>1. PICK l \in DOMAIN Dentries : d = Dentries[l] /\ \E f \in First(name) : l = f \/ ~Copies(f)
    BY DEF Lookup
  <2>2. PICK k \in DOMAIN Dentries : name = Dentries[k].file_name
    BY <2>1, FirstIs
  <2>3. First(name) = {k} /\ Copies(k)
    BY <2>2, FirstIs DEF HeaderServesFiles
  <2> QED
    BY <2>1, <2>2, <2>3
<1>2. ASSUME NEW k \in DOMAIN Dentries, name = Dentries[k].file_name
      PROVE  Dentries[k] \in Lookup(name)
  BY <1>2, FirstIs DEF Lookup
<1> QED
  BY <1>1, <1>2

\* What the four bytes of a counter stand for is at least the lowest.
LEMMA WordAtLeast ==
  ASSUME NEW h \in [0..7 -> Byte], NEW first \in {0, 4}
  PROVE  h[first] + 256 * h[first + 1] + 65536 * h[first + 2]
           + 16777216 * h[first + 3] >= h[first]
<1>1. /\ h[first] \in Nat /\ h[first + 1] \in Nat
      /\ h[first + 2] \in Nat /\ h[first + 3] \in Nat
  BY DEF Byte
<1>2. QED
  BY <1>1

LEMMA WordType ==
  ASSUME NEW h \in [0..7 -> Byte], NEW first \in {0, 4}
  PROVE  h[first] + 256 * h[first + 1] + 65536 * h[first + 2]
           + 16777216 * h[first + 3] \in Int
<1>1. /\ h[first] \in Nat /\ h[first + 1] \in Nat
      /\ h[first + 2] \in Nat /\ h[first + 3] \in Nat
  BY DEF Byte
<1>2. QED
  BY <1>1

\* A harmless name leaves both counters large enough.
LEMMA CopyIsHarmless ==
  ASSUME HeaderInv, NEW k \in FilesIn, Harmless(Dentries[k].file_name),
         header' = StrCpy(Dentries[k].file_name)
  PROVE  HeaderInv'
<1> DEFINE name == Dentries[k].file_name
<1>1. name \in Seq(Byte) /\ k \in DOMAIN Dentries
  BY NameType DEF FilesIn
<1>2. /\ Len(name) > 0 /\ Len(name) # 4
      /\ name[1] >= Len(Dentries)
      /\ Len(name) > 4 => \A l \in FilesIn : Dentries[l].inode_index <= name[5]
  BY DEF Harmless
<1>3. header' \in [0..7 -> Byte]
  <2>1. \A b \in 0..7 : b < Len(name) => name[b + 1] \in Byte
    BY <1>1
  <2>2. 0 \in Byte /\ header \in [0..7 -> Byte]
    BY DEF Byte, HeaderInv
  <2>3. QED
    BY <2>1, <2>2 DEF StrCpy
<1>4. /\ dentry_num' \in Int /\ dentry_num' >= header'[0]
      /\ inodes_num' \in Int /\ inodes_num' >= header'[4]
      /\ \A b \in 0..7 : header'[b] \in Nat
  <2>1. dentry_num' \in Int /\ dentry_num' >= header'[0]
    BY <1>3, WordType, WordAtLeast DEF dentry_num, Word
  <2>2. inodes_num' \in Int /\ inodes_num' >= header'[4]
    BY <1>3, WordType, WordAtLeast DEF inodes_num, Word
  <2>3. \A b \in 0..7 : header'[b] \in Nat
    BY <1>3 DEF Byte
  <2>4. QED
    BY <2>1, <2>2, <2>3
<1>5. dentry_num' >= Len(Dentries)
  <2>1. header'[0] = name[1]
    BY <1>1, <1>2 DEF StrCpy
  <2>2. Len(Dentries) \in Nat /\ header'[0] \in Nat
    BY <1>1, <1>4, NameType
  <2>3. QED
    BY <1>2, <1>4, <2>1, <2>2
<1>6. ASSUME NEW l \in FilesIn
      PROVE  Dentries[l].inode_index <= inodes_num'
  <2>1. CASE Len(name) < 4
    <3>1. \A b \in 4..7 : header'[b] = header[b]
      BY <1>1, <2>1 DEF StrCpy
    <3>2. inodes_num' = inodes_num
      BY <3>1 DEF inodes_num, Word
    <3>3. QED
      BY <3>2 DEF HeaderInv, HeaderServesFiles, FilesIn
  <2>2. CASE Len(name) > 4
    <3>1. header'[4] = name[5]
      BY <1>1, <2>2 DEF StrCpy
    <3>2. Dentries[l].inode_index \in Nat /\ header'[4] \in Nat
      BY <1>4, NameType DEF FilesIn
    <3>3. Dentries[l].inode_index <= name[5]
      BY <1>2, <2>2
    <3>4. QED
      BY <1>4, <3>1, <3>2, <3>3
  <2>3. Len(name) < 4 \/ Len(name) > 4
    <3>1. Len(name) \in Nat
      BY <1>1
    <3>2. Len(name) # 4
      BY <1>2
    <3>3. \A n \in Nat : n # 4 => n < 4 \/ n > 4
      OBVIOUS
    <3>4. QED
      BY <3>1, <3>2, <3>3
  <2>4. QED
    BY <2>1, <2>2, <2>3
<1>7. \A l \in DOMAIN Dentries : Copies(l)'
  BY <1>5, <1>4, NameType DEF Copies
<1>8. QED
  BY <1>3, <1>6, <1>7 DEF HeaderInv, HeaderServesFiles, FilesIn, Copies

LEMMA OpenIsHarmless ==
  ASSUME OpensHarmless, HeaderInv, NEW name \in Names, Open(name)
  PROVE  HeaderInv'
<1>1. CASE header' = header
  BY <1>1 DEF HeaderInv, HeaderServesFiles, Copies, dentry_num, inodes_num, Word
<1>2. CASE header' # header
  <2>1. PICK d \in Lookup(name) :
          /\ d.file_type = "file" /\ header' = StrCpy(d.file_name)
          /\ result'.call = <<"open", name>>
    BY <1>2 DEF Open, Fail, Return
  <2>2. PICK k \in DOMAIN Dentries : d = Dentries[k] /\ name = Dentries[k].file_name
    BY LookupIs DEF HeaderInv
  <2>3. k \in FilesIn /\ Harmless(Dentries[k].file_name)
    BY <2>1, <2>2 DEF FilesIn, OpensHarmless
  <2> QED
    BY <2>1, <2>2, <2>3, CopyIsHarmless
<1> QED
  BY <1>1, <1>2

\* Only open() writes to the boot block.
LEMMA StepKeepsHeader == HeaderInv /\ [Next /\ OpensHarmless]_vars => HeaderInv'
<1> SUFFICES ASSUME HeaderInv, [Next /\ OpensHarmless]_vars PROVE HeaderInv'
  OBVIOUS
<1>1. ASSUME OpensHarmless, NEW name \in Names, Open(name) PROVE HeaderInv'
  BY <1>1, OpenIsHarmless
<1>2. CASE header' = header
  BY <1>2 DEF HeaderInv, HeaderServesFiles, Copies, dentry_num, inodes_num, Word
<1>3. ASSUME NEW name \in Names, Execute(name) PROVE header' = header
  BY <1>3 DEF Execute, Fail
<1>4. ASSUME NEW fd, Close(fd) \/ Write(fd) PROVE header' = header
  BY <1>4 DEF Close, Write, Fail
<1>5. ASSUME NEW fd, NEW n, Read(fd, n) PROVE header' = header
  BY <1>5 DEF Read, FileRead, DirectoryRead, RtcRead, Deliver, Fail
<1>6. CASE UNCHANGED vars
  BY <1>2, <1>6 DEF vars
<1>7. CASE Next /\ OpensHarmless
  BY <1>1, <1>2, <1>3, <1>4, <1>5, <1>7 DEF Next, Halt
<1>8. QED
  BY <1>6, <1>7

LEMMA InitHeaderInv == Init => HeaderInv
<1> SUFFICES ASSUME Init PROVE HeaderInv
  OBVIOUS
<1>1. header \in [0..7 -> Byte] /\ dentry_num = Len(Dentries) /\ inodes_num = InodesNum
  <2>1. header = [b \in 0..7 |-> IF b = 0 THEN Len(Dentries)
                                 ELSE IF b = 4 THEN InodesNum ELSE 0]
    BY DEF Init
  <2>2. header \in [0..7 -> Byte]
    <3>1. Len(Dentries) \in Byte /\ InodesNum \in Byte /\ 0 \in Byte
      BY FileSystemAssumption DEF Byte
    <3>2. QED
      BY <2>1, <3>1
  <2>3. /\ header[0] = Len(Dentries) /\ header[4] = InodesNum
        /\ \A b \in {1, 2, 3, 5, 6, 7} : header[b] = 0
    BY <2>1
  <2>4. QED
    BY <2>2, <2>3, FileSystemAssumption DEF Byte, dentry_num, inodes_num, Word
<1>2. ASSUME NEW k \in DOMAIN Dentries
      PROVE  Copies(k) /\ Dentries[k].inode_index <= InodesNum
  BY <1>1, NameType DEF Copies, Byte
<1>3. QED
  BY <1>1, <1>2 DEF HeaderInv, HeaderServesFiles

\* As long as programs open files with harmless names only, every lookup and
\* read still finds its file (file_open(), read_dentry_by_index(), read_data()).
THEOREM FilesStayServed == Spec /\ [][OpensHarmless]_vars => []HeaderServesFiles
<1>1. HeaderInv => HeaderServesFiles
  BY DEF HeaderInv
<1>2. [Next]_vars /\ [OpensHarmless]_vars => [Next /\ OpensHarmless]_vars
  OBVIOUS
<1> QED
  BY <1>1, <1>2, InitHeaderInv, StepKeepsHeader, PTL DEF Spec

\* No name of the image does harm, so that programs open none that does.
LEMMA SafeOpens == SafeNames => OpensHarmless
BY DEF SafeNames, OpensHarmless

\* Whatever programs open, every lookup and read still finds its file, in
\* every image whose names are harmless to the boot block's counters.
THEOREM HeaderCorrect ==
  ASSUME SafeNames
  PROVE  Spec => []HeaderServesFiles
BY SafeOpens, FilesStayServed, PTL

------------------------------------------------------------------------------
(* Numbers and sequences                                                   *)

LEMMA Division ==
  ASSUME NEW p \in Nat, NEW B \in Nat \ {0}
  PROVE  /\ p \div B \in Nat /\ p % B \in Nat /\ p % B < B
         /\ p = B * (p \div B) + (p % B)
OBVIOUS

LEMMA Multiples ==
  ASSUME NEW B \in Nat, NEW n \in Int
  PROVE  /\ B * n \in Int /\ B * (n + 1) = B * n + B
         /\ \A k \in Int : k <= n => B * k <= B * n
<1>1. ASSUME NEW k \in Int, k <= n
      PROVE  B * k <= B * n
  <2>1. PICK e \in Nat : e = n - k
    BY <1>1
  <2>2. B * (k + e) = B * k + B * e /\ B * e \in Nat /\ B * k \in Int
    OBVIOUS
  <2>3. k + e = n
    BY <2>1
  <2> QED
    BY <2>2, <2>3
<1> QED
  BY <1>1

\* A function on 1..m is a sequence.
LEMMA SequenceOf ==
  ASSUME NEW m \in Nat, NEW S, NEW s \in [1..m -> S]
  PROVE  s \in Seq(S) /\ Len(s) = m
OBVIOUS

\* Byte p is in the block its quotient names.
LEMMA BlockOf ==
  ASSUME NEW p \in Nat, NEW n \in Nat, NEW r \in Nat, NEW B \in Nat \ {0},
         r < B, p = B * n + r
  PROVE  p \div B = n /\ p % B = r
<1>1. /\ p = B * (p \div B) + (p % B) /\ p % B \in 0..(B - 1) /\ p \div B \in Nat
  OBVIOUS
<1> DEFINE q == p \div B
<1>2. ~(q < n)
  <2> SUFFICES ASSUME q < n PROVE FALSE
    OBVIOUS
  <2>1. B * (n - q) >= B
    BY <1>1
  <2>2. B * n = B * q + B * (n - q)
    BY <1>1
  <2> QED
    BY <1>1, <2>1, <2>2
<1>3. ~(n < q)
  <2> SUFFICES ASSUME n < q PROVE FALSE
    OBVIOUS
  <2>1. B * (q - n) >= B
    BY <1>1
  <2>2. B * q = B * n + B * (q - n)
    BY <1>1
  <2> QED
    BY <1>1, <2>1, <2>2
<1> QED
  BY <1>1, <1>2, <1>3

\* Part of a part of a sequence.
LEMMA SubSeqOfRest ==
  ASSUME NEW S, NEW s \in Seq(S), NEW p \in 0..Len(s), NEW k \in Nat \ {0}, NEW l \in Nat,
         l <= Len(s) - p
  PROVE  /\ SubSeq(s, p + 1, Len(s)) \in Seq(S)
         /\ Len(SubSeq(s, p + 1, Len(s))) = Len(s) - p
         /\ SubSeq(SubSeq(s, p + 1, Len(s)), k, l) = SubSeq(s, p + k, p + l)
<1> DEFINE rest == SubSeq(s, p + 1, Len(s))
           a == SubSeq(rest, k, l)
           b == SubSeq(s, p + k, p + l)
<1>1. Len(s) \in Nat /\ \A j \in 1..Len(s) : s[j] \in S
  BY ElementOfSeq
<1>2. /\ rest \in Seq(S) /\ Len(rest) = Len(s) - p
      /\ \A j \in 1..(Len(s) - p) : rest[j] = s[p + j]
  <2>1. \A j \in (p + 1)..Len(s) : s[j] \in S
    BY <1>1
  <2>2. /\ rest \in Seq(S)
        /\ Len(rest) = IF p + 1 <= Len(s) THEN Len(s) - (p + 1) + 1 ELSE 0
        /\ \A j \in 1..(Len(s) - (p + 1) + 1) : rest[j] = s[(p + 1) + j - 1]
    <3> HIDE DEF rest
    <3>1. p + 1 \in Int /\ Len(s) \in Int
      BY <1>1
    <3> QED
      BY <2>1, <3>1, SubSeqProperties DEF rest
  <2>3. /\ Len(s) - (p + 1) + 1 = Len(s) - p
        /\ \A j \in 1..(Len(s) - p) : (p + 1) + j - 1 = p + j
        /\ ~(p + 1 <= Len(s)) => Len(s) - p = 0
    BY <1>1
  <2> HIDE DEF rest
  <2> QED
    BY <2>2, <2>3
<1> HIDE DEF rest
<1>3. \A j \in k..l : rest[j] \in S /\ j \in 1..(Len(s) - p)
  BY <1>1, <1>2, ElementOfSeq
<1>4. /\ a \in Seq(S) /\ Len(a) = IF k <= l THEN l - k + 1 ELSE 0
      /\ \A j \in 1..(l - k + 1) : a[j] = rest[k + j - 1]
  BY <1>3, SubSeqProperties
<1>5. \A j \in (p + k)..(p + l) : s[j] \in S
  BY <1>1
<1>6. /\ b \in Seq(S) /\ Len(b) = IF p + k <= p + l THEN (p + l) - (p + k) + 1 ELSE 0
      /\ \A j \in 1..((p + l) - (p + k) + 1) : b[j] = s[(p + k) + j - 1]
  <2>1. p + k \in Int /\ p + l \in Int
    OBVIOUS
  <2> QED
    BY <1>5, <2>1, SubSeqProperties
<1> HIDE DEF a, b
<1>7. Len(a) = Len(b)
  BY <1>4, <1>6
<1>8. ASSUME NEW j \in 1..Len(a)
      PROVE  a[j] = b[j]
  <2>1. /\ j \in 1..(l - k + 1) /\ j \in 1..((p + l) - (p + k) + 1)
        /\ k + j - 1 \in 1..(Len(s) - p)
        /\ p + (k + j - 1) = (p + k) + j - 1
    BY <1>1, <1>4
  <2> QED
    BY <1>2, <1>4, <1>6, <2>1
<1>9. a = b
  BY <1>4, <1>6, <1>7, <1>8, SeqEqual
<1> QED
  BY <1>2, <1>9 DEF a, b, rest

LEMMA LeastIs ==
  ASSUME NEW a \in Int, NEW b \in Int
  PROVE  /\ Least(a, b) \in {a, b} /\ Least(a, b) <= a /\ Least(a, b) <= b
BY DEF Least

------------------------------------------------------------------------------
(* The loop of read_data()                                                 *)

\* The byte of the image that byte p of a file is.
ByteAt(inode, p) ==
  BlockId(inode, p \div DATA_BLOCK_SIZE) * DATA_BLOCK_SIZE + (p % DATA_BLOCK_SIZE)

\* What the loop has copied after block n.
Part(inode, offset, length, n) ==
  [j \in 1..Least(length, DATA_BLOCK_SIZE * (n + 1) - offset) |->
     ByteAt(inode, offset + j - 1)]

LEMMA BlockIdType ==
  ASSUME NEW inode \in DOMAIN Inodes, NEW n
  PROVE  BlockId(inode, n) \in Nat
BY FileSystemAssumption DEF BlockId

LEMMA ByteAtType ==
  ASSUME NEW inode \in DOMAIN Inodes, NEW p \in Nat
  PROVE  ByteAt(inode, p) \in Nat
<1>1. BlockId(inode, p \div DATA_BLOCK_SIZE) \in Nat
  BY BlockIdType
<1>2. p % DATA_BLOCK_SIZE \in Nat /\ DATA_BLOCK_SIZE \in Nat
  BY FileSystemAssumption
<1> DEFINE b == BlockId(inode, p \div DATA_BLOCK_SIZE)
           r == p % DATA_BLOCK_SIZE
<1>3. b * DATA_BLOCK_SIZE + r \in Nat
  <2> HIDE DEF b, r
  <2>1. b \in Nat /\ r \in Nat
    BY <1>1, <1>2 DEF b, r
  <2> QED
    BY <2>1, <1>2
<1> QED
  BY <1>3 DEF ByteAt

\* m bytes of a block from its byte o on.
LEMMA PieceOfBlock ==
  ASSUME NEW inode \in DOMAIN Inodes, NEW n \in Nat, NEW o \in Nat, NEW m \in Nat,
         o + m <= DATA_BLOCK_SIZE
  PROVE  memcpy(Block(BlockId(inode, n)), o, m)
           = [j \in 1..m |-> ByteAt(inode, DATA_BLOCK_SIZE * n + o + j - 1)]
<1> DEFINE B == DATA_BLOCK_SIZE
           id == BlockId(inode, n)
           block == Block(id)
<1>1. B \in Nat \ {0} /\ id \in Nat
  BY FileSystemAssumption, BlockIdType
<1>2. block \in Seq(Int) /\ Len(block) = B
  <2>1. block = [j \in 1..B |-> id * B + j - 1]
    BY DEF Block
  <2> HIDE DEF block, id
  <2> QED
    BY <1>1, <2>1
<1>3. \A j \in 1..B : block[j] = id * B + j - 1
  BY DEF Block
<1>4. ASSUME NEW j \in 1..m
      PROVE  block[o + j] = ByteAt(inode, B * n + o + j - 1)
  <2>1. /\ o + j \in 1..B /\ o + j - 1 \in Nat /\ o + j - 1 < B
    BY <1>1
  <2>2. block[o + j] = id * B + (o + j) - 1
    BY <1>3, <2>1
  <2>3. /\ B * n + (o + j - 1) \in Nat
        /\ B * n + o + j - 1 = B * n + (o + j - 1)
    <3> HIDE DEF B
    <3>1. B * n \in Nat
      BY <1>1
    <3> QED
      BY <2>1, <3>1
  <2>4. /\ (B * n + o + j - 1) \div B = n
        /\ (B * n + o + j - 1) % B = o + j - 1
    <3> DEFINE p == B * n + (o + j - 1)
               r == o + j - 1
    <3> HIDE DEF B, p, r
    <3>1. p \in Nat /\ r \in Nat /\ r < B /\ p = B * n + r
      BY <2>1, <2>3 DEF p, r
    <3>2. p \div B = n /\ p % B = r
      BY <1>1, <3>1, BlockOf
    <3> QED
      BY <2>3, <3>2 DEF p, r
  <2>5. ByteAt(inode, B * n + o + j - 1) = id * B + (o + j - 1)
    BY <2>4 DEF ByteAt
  <2>6. id * B + (o + j) - 1 = id * B + (o + j - 1)
    <3> HIDE DEF B, id
    <3>1. id * B \in Nat
      BY <1>1
    <3> QED
      BY <3>1
  <2> QED
    BY <2>2, <2>5, <2>6
<1>5. SubSeq(block, o + 1, o + m) = [j \in 1..m |-> block[o + j]]
  <2> HIDE DEF B, block
  <2>1. SubSeq(block, o + 1, o + m) = [j \in 1..((o + m) - (o + 1) + 1) |-> block[(o + 1) + j - 1]]
    BY <1>1, <1>2, SubSeqProperties
  <2>2. (o + m) - (o + 1) + 1 = m /\ \A j \in 1..m : (o + 1) + j - 1 = o + j
    OBVIOUS
  <2> QED
    BY <2>1, <2>2
<1> QED
  BY <1>4, <1>5 DEF memcpy

\* The loop of read_data() copies the bytes that were asked for.
LEMMA CopyBlocksIs ==
  ASSUME NEW inode \in DOMAIN Inodes, NEW offset \in Nat, NEW length \in Nat
  PROVE  CopyBlocks(inode, offset, length)
           = [j \in 1..length |-> ByteAt(inode, offset + j - 1)]
<1> DEFINE B == DATA_BLOCK_SIZE
           starting == offset \div B
           ending == (offset + length) \div B
           off == offset - B * starting
           first == IF B > length + off THEN length ELSE B - off
           S == starting..ending
           Round(f, n) ==
             IF n = starting THEN memcpy(Block(BlockId(inode, n)), off, first)
             ELSE f[n - 1] \o memcpy(Block(BlockId(inode, n)), 0, Least(B, length - Len(f[n - 1])))
           copied == CHOOSE f : f = [n \in S |-> Round(f, n)]
           P(n) == Part(inode, offset, length, n)
<1>0. CopyBlocks(inode, offset, length) = copied[ending]
  BY DEF CopyBlocks
<1>1. /\ B \in Nat \ {0} /\ starting \in Nat /\ ending \in Nat
      /\ off \in Nat /\ off < B /\ offset = B * starting + off
      /\ B * ending <= offset + length
      /\ offset + length < B * (ending + 1)
  <2>1. B \in Nat \ {0}
    BY FileSystemAssumption
  <2> HIDE DEF B
  <2>2. /\ starting \in Nat /\ offset % B \in Nat /\ offset % B < B
        /\ offset = B * starting + (offset % B)
    BY <2>1, Division
  <2>3. /\ ending \in Nat /\ (offset + length) % B \in Nat /\ (offset + length) % B < B
        /\ offset + length = B * ending + ((offset + length) % B)
    <3>1. offset + length \in Nat
      OBVIOUS
    <3> QED
      BY <2>1, <3>1, Division
  <2> HIDE DEF starting, ending
  <2>4. B * (ending + 1) = B * ending + B /\ B * ending \in Nat /\ B * starting \in Nat
    BY <2>1, <2>2, <2>3
  <2> DEFINE r == offset % B
             q == (offset + length) % B
             u == B * starting
             v == B * ending
  <2> HIDE DEF r, q, u, v
  <2>5. /\ r \in Nat /\ r < B /\ offset = u + r /\ u \in Nat
        /\ q \in Nat /\ q < B /\ offset + length = v + q /\ v \in Nat
    BY <2>2, <2>3, <2>4 DEF r, q, u, v
  <2>6. /\ offset - u \in Nat /\ offset - u < B /\ offset = u + (offset - u)
        /\ v <= offset + length /\ offset + length < v + B
    BY <2>1, <2>5
  <2> QED
    BY <2>1, <2>2, <2>3, <2>4, <2>6 DEF u, v
<1>2. \A n \in Int : /\ B * n \in Int /\ B * (n + 1) = B * n + B
                     /\ \A k \in Int : k <= n => B * k <= B * n
  <2> HIDE DEF B
  <2> QED
    BY <1>1, Multiples
<1> HIDE DEF B, starting, ending
<1>3. starting <= ending
  <2> SUFFICES ASSUME ending < starting PROVE FALSE
    BY <1>1
  <2>1. B * (ending + 1) <= B * starting
    BY <1>1, <1>2
  <2> QED
    BY <1>1, <1>2, <2>1
<1>4. P(starting) = memcpy(Block(BlockId(inode, starting)), off, first)
  <2>1. first \in Nat /\ off + first <= B
    BY <1>1
  <2>2. Least(length, B * (starting + 1) - offset) = first
    <3>1. B * (starting + 1) - offset = B - off
      BY <1>1, <1>2
    <3> QED
      BY <1>1, <3>1 DEF Least
  <2>3. memcpy(Block(BlockId(inode, starting)), off, first)
          = [j \in 1..first |-> ByteAt(inode, B * starting + off + j - 1)]
    <3> HIDE DEF off, first
    <3> QED
      BY <1>1, <2>1, PieceOfBlock DEF B
  <2> QED
    BY <1>1, <2>2, <2>3 DEF Part, B
<1>5. ASSUME NEW n \in (starting + 1)..ending
      PROVE  P(n) = P(n - 1) \o memcpy(Block(BlockId(inode, n)), 0, Least(B, length - Len(P(n - 1))))
  <2> DEFINE d == B * n - offset
             len == Least(B, length - d)
             tail == memcpy(Block(BlockId(inode, n)), 0, len)
  <2>1. n \in Nat /\ d \in Nat /\ d <= length
    <3>1. B * (starting + 1) <= B * n /\ B * n <= B * ending
      BY <1>1, <1>2
    <3>2. B * n \in Int /\ B * ending \in Int /\ B * (starting + 1) = B * starting + B
      BY <1>1, <1>2
    <3> QED
      BY <1>1, <3>1, <3>2
  <2>2. B * ((n - 1) + 1) - offset = d
    BY <2>1
  <2>3. P(n - 1) = [j \in 1..d |-> ByteAt(inode, offset + j - 1)]
    <3>1. Least(length, d) = d
      BY <2>1 DEF Least
    <3> QED
      BY <2>2, <3>1 DEF Part, B
  <2>4. \A j \in 1..length : ByteAt(inode, offset + j - 1) \in Nat
    <3>1. \A j \in 1..length : offset + j - 1 \in Nat
      OBVIOUS
    <3> QED
      BY <3>1, ByteAtType
  <2> HIDE DEF P
  <2>5. P(n - 1) \in Seq(Nat) /\ Len(P(n - 1)) = d
    <3>1. \A j \in 1..d : j \in 1..length
      BY <2>1
    <3> HIDE DEF d
    <3>2. P(n - 1) \in [1..d -> Nat]
      BY <2>3, <2>4, <3>1
    <3> QED
      BY <2>1, <3>2, SequenceOf
  <2>6. len \in Nat /\ len <= B /\ d + len <= length
    BY <1>1, <2>1 DEF Least
  <2>7. tail = [j \in 1..len |-> ByteAt(inode, offset + (d + j) - 1)]
    <3>1. tail = [j \in 1..len |-> ByteAt(inode, B * n + 0 + j - 1)]
      <4> HIDE DEF len
      <4>1. 0 + len <= B
        BY <2>6
      <4> QED
        BY <2>1, <2>6, <4>1, PieceOfBlock DEF B
    <3>2. \A j \in 1..len : B * n + 0 + j - 1 = offset + (d + j) - 1
      BY <1>2, <2>1, <2>6
    <3> HIDE DEF tail, len
    <3> QED
      BY <3>1, <3>2
  <2>8. tail \in Seq(Nat) /\ Len(tail) = len
    <3> HIDE DEF tail, len, d
    <3>1. \A j \in 1..len : ByteAt(inode, offset + (d + j) - 1) \in Nat
      <4> SUFFICES ASSUME NEW j \in 1..len PROVE ByteAt(inode, offset + (d + j) - 1) \in Nat
        OBVIOUS
      <4>1. d + j \in 1..length
        BY <2>1, <2>6
      <4> QED
        BY <2>4, <4>1
    <3>2. tail \in [1..len -> Nat]
      BY <2>7, <3>1
    <3> QED
      BY <2>6, <3>2, SequenceOf
  <2>9. P(n) = [j \in 1..(d + len) |-> ByteAt(inode, offset + j - 1)]
    <3>1. B * (n + 1) - offset = d + B
      <4>1. B * (n + 1) = B * n + B /\ B * n \in Int
        BY <1>2, <2>1
      <4> QED
        BY <1>1, <4>1
    <3>2. Least(length, d + B) = d + len
      <4> HIDE DEF d
      <4> QED
        BY <1>1, <2>1 DEF Least
    <3> QED
      BY <3>1, <3>2 DEF P, Part, B
  <2>10. P(n) = P(n - 1) \o tail
    <3> DEFINE s == P(n - 1)
               b(j) == ByteAt(inode, offset + j - 1)
    <3>1. s = [j \in 1..d |-> b(j)] /\ tail = [j \in 1..len |-> b(d + j)]
      BY <2>3, <2>7
    <3>2. P(n) = [j \in 1..(d + len) |-> b(j)]
      BY <2>9
    <3> HIDE DEF s, b, tail, d, len
    <3>3. s \o tail = [j \in 1..(d + len) |-> IF j <= d THEN s[j] ELSE tail[j - d]]
      <4>1. s \in Seq(Nat) /\ Len(s) = d
        BY <2>5 DEF s
      <4>2. /\ s \o tail \in Seq(Nat) /\ Len(s \o tail) = d + len
            /\ \A j \in 1..(d + len) : (s \o tail)[j] = IF j <= d THEN s[j] ELSE tail[j - d]
        BY <2>8, <4>1, ConcatProperties
      <4>3. s \o tail \in [1..(d + len) -> Nat]
        BY <4>2, LenProperties
      <4> QED
        BY <4>2, <4>3
    <3>4. ASSUME NEW j \in 1..(d + len)
          PROVE  (IF j <= d THEN s[j] ELSE tail[j - d]) = b(j)
      <4>1. CASE j <= d
        BY <4>1, <3>1, <2>1, <2>6
      <4>2. CASE ~(j <= d)
        <5>1. j - d \in 1..len /\ d + (j - d) = j
          BY <4>2, <2>1, <2>6
        <5> QED
          BY <4>2, <5>1, <3>1
      <4> QED
        BY <4>1, <4>2
    <3>5. s \o tail = [j \in 1..(d + len) |-> b(j)]
      BY <3>3, <3>4
    <3> QED
      BY <3>2, <3>5 DEF s
  <2> QED
    BY <2>5, <2>10
<1> HIDE DEF P
<1>6. copied = [n \in S |-> Round(copied, n)]
  <2> DEFINE F == [n \in S |-> P(n)]
  <2>1. ASSUME NEW n \in S
        PROVE  F[n] = Round(F, n)
    <3>1. CASE n = starting
      BY <3>1, <1>4
    <3>2. CASE n # starting
      <4>1. n - 1 \in S /\ n \in (starting + 1)..ending
        BY <3>2, <1>1
      <4> QED
        BY <3>2, <4>1, <1>5
    <3> QED
      BY <3>1, <3>2
  <2>2. F = [n \in S |-> Round(F, n)]
    BY <2>1
  <2> HIDE DEF Round, F
  <2> QED
    BY <2>2
<1>7. ASSUME NEW n \in S
      PROVE  copied[n] = P(n)
  <2> DEFINE T == {k \in S : copied[k] = P(k)}
  <2> HIDE DEF copied
  <2>1. starting \in T
    <3>1. starting \in S
      BY <1>1, <1>3
    <3> QED
      BY <1>4, <1>6, <3>1
  <2>2. ASSUME NEW k \in starting..(ending - 1), k \in T
        PROVE  k + 1 \in T
    <3>1. k + 1 \in (starting + 1)..ending /\ k + 1 \in S /\ (k + 1) - 1 = k /\ k + 1 # starting
      BY <1>1
    <3>2. copied[k + 1] = Round(copied, k + 1)
      BY <1>6, <3>1
    <3>3. copied[(k + 1) - 1] = P((k + 1) - 1)
      BY <2>2, <3>1
    <3> QED
      BY <1>5, <3>1, <3>2, <3>3
  <2>3. starting..ending \subseteq T
    <3> HIDE DEF T
    <3> QED
      BY <1>1, <2>1, <2>2, InductionWithin
  <2> QED
    BY <2>3
<1>8. P(ending) = [j \in 1..length |-> ByteAt(inode, offset + j - 1)]
  <2>1. Least(length, B * (ending + 1) - offset) = length
    BY <1>1, <1>2 DEF Least
  <2> QED
    BY <2>1 DEF P, Part, B
<1> HIDE DEF copied
<1>9. ending \in S
  BY <1>1, <1>3
<1>10. copied[ending] = P(ending)
  BY <1>7, <1>9
<1> QED
  BY <1>0, <1>8, <1>10

\* The file an inode stands for.
LEMMA WholeType ==
  ASSUME NEW inode \in DOMAIN Inodes
  PROVE  /\ Inodes[inode].file_length \in Nat
         /\ Whole(inode) \in Seq(Nat)
         /\ Len(Whole(inode)) = Inodes[inode].file_length
         /\ \A p \in 1..Inodes[inode].file_length : Whole(inode)[p] = ByteAt(inode, p - 1)
<1> DEFINE m == Inodes[inode].file_length
<1>1. m \in Nat
  BY FileSystemAssumption
<1>2. ASSUME NEW p \in 1..m
      PROVE  Whole(inode)[p] = ByteAt(inode, p - 1) /\ ByteAt(inode, p - 1) \in Nat
  <2>1. p - 1 \in 0..(m - 1) /\ p - 1 \in Nat
    BY <1>1
  <2>2. (p - 1) \div DATA_BLOCK_SIZE \in DOMAIN Inodes[inode].data_blocks
    BY <2>1, FileSystemAssumption
  <2>3. ByteAt(inode, p - 1) \in Nat
    BY <2>1, ByteAtType
  <2> QED
    BY <2>2, <2>3 DEF Whole, ByteAt, BlockId
<1>3. Whole(inode) \in [1..m -> Nat]
  <2>1. Whole(inode) = [p \in 1..m |-> Whole(inode)[p]]
    BY DEF Whole
  <2> QED
    BY <1>2, <2>1
<1> QED
  BY <1>1, <1>2, <1>3, SequenceOf

\* What read_data() stores is what the file has from the offset on, as much as
\* was asked for and is there.
LEMMA ReadDataIs ==
  ASSUME NEW inode \in DOMAIN Inodes, NEW n \in Nat,
         NEW offset \in 0..Inodes[inode].file_length
  PROVE  LET m == Least(n, Inodes[inode].file_length - offset)
         IN  /\ m \in Nat
             /\ ReadData(inode, offset, n) \in Seq(Nat)
             /\ Len(ReadData(inode, offset, n)) = m
             /\ ReadData(inode, offset, n) = SubSeq(Whole(inode), offset + 1, offset + m)
<1> DEFINE rest == Inodes[inode].file_length - offset
           m == Least(n, rest)
           data == ReadData(inode, offset, n)
           part == SubSeq(Whole(inode), offset + 1, offset + m)
<1>1. rest \in Nat /\ m \in Nat /\ m <= rest /\ Inodes[inode].file_length \in Nat
  <2>1. Inodes[inode].file_length \in Nat
    BY WholeType
  <2>2. rest \in Nat
    BY <2>1
  <2> HIDE DEF rest
  <2>3. m \in {n, rest} /\ m <= rest
    BY <2>2, LeastIs
  <2> QED
    BY <2>1, <2>2, <2>3
<1>2. data = [j \in 1..m |-> ByteAt(inode, offset + j - 1)]
  <2>1. CASE rest = 0
    <3>1. m = 0
      BY <1>1, <2>1
    <3>2. data = <<>>
      BY <2>1 DEF ReadData
    <3> QED
      BY <3>1, <3>2
  <2>2. CASE rest # 0
    <3>1. data = CopyBlocks(inode, offset, m)
      BY <2>2 DEF ReadData
    <3> HIDE DEF m, data
    <3> QED
      BY <1>1, <3>1, CopyBlocksIs
  <2> QED
    BY <2>1, <2>2
<1> HIDE DEF rest, m, data
<1>3. rest = Inodes[inode].file_length - offset
  BY DEF rest
<1>4. ASSUME NEW j \in 1..m
      PROVE  /\ offset + j \in 1..Inodes[inode].file_length
             /\ data[j] = Whole(inode)[offset + j] /\ data[j] \in Nat
  <2>1. offset + j \in 1..Inodes[inode].file_length
    BY <1>1, <1>3
  <2>2. data[j] = ByteAt(inode, offset + j - 1)
    BY <1>2
  <2>3. Whole(inode)[offset + j] = ByteAt(inode, (offset + j) - 1)
    BY <2>1, WholeType
  <2>4. (offset + j) - 1 \in Nat /\ (offset + j) - 1 = offset + j - 1
    BY <2>1
  <2> QED
    BY <2>1, <2>2, <2>3, <2>4, ByteAtType
<1>5. data \in Seq(Nat) /\ Len(data) = m
  <2>1. data \in [1..m -> Nat]
    BY <1>2, <1>4
  <2> QED
    BY <1>1, <2>1, SequenceOf
<1>6. /\ part \in Seq(Nat) /\ Len(part) = m
      /\ \A j \in 1..m : part[j] = Whole(inode)[offset + j]
  <2>1. \A j \in (offset + 1)..(offset + m) : Whole(inode)[j] \in Nat
    <3> SUFFICES ASSUME NEW j \in (offset + 1)..(offset + m) PROVE Whole(inode)[j] \in Nat
      OBVIOUS
    <3>1. j - offset \in 1..m /\ offset + (j - offset) = j
      BY <1>1
    <3> QED
      BY <1>4, <3>1
  <2>2. offset + 1 \in Int /\ offset + m \in Int
    BY <1>1
  <2>3. /\ part \in Seq(Nat)
        /\ Len(part) = IF offset + 1 <= offset + m THEN (offset + m) - (offset + 1) + 1 ELSE 0
        /\ \A j \in 1..((offset + m) - (offset + 1) + 1) : part[j] = Whole(inode)[(offset + 1) + j - 1]
    BY <2>1, <2>2, SubSeqProperties
  <2>4. /\ (offset + m) - (offset + 1) + 1 = m
        /\ ~(offset + 1 <= offset + m) => m = 0
        /\ \A j \in 1..m : (offset + 1) + j - 1 = offset + j
    BY <1>1
  <2> HIDE DEF part
  <2> QED
    BY <2>3, <2>4
<1>7. data = part
  BY <1>4, <1>5, <1>6, SeqEqual
<1> QED
  BY <1>1, <1>5, <1>7 DEF data, m, rest

------------------------------------------------------------------------------
(* Types                                                                   *)

\* Descriptors the calls can serve: a file's has an inode of the image, a
\* directory's has a place in it or after it.
Entries ==
  {e \in Descriptor : /\ e.type = "file" => e.inode \in DOMAIN Inodes
                      /\ e.type = "dir" => e.position \in Nat}
Arrays == [Fds -> Entries]

\* The inductive invariant.
TypeInv ==
  /\ header \in [0..7 -> Byte]
  /\ filed_array \in Arrays
  /\ waiting \in Seq(Arrays) /\ Len(waiting) <= MaxDepth
  /\ result.ret \in Int

LEMMA TypeInvIsTyped == TypeInv => TypeOK
<1> SUFFICES ASSUME TypeInv PROVE TypeOK
  OBVIOUS
<1>1. Arrays \subseteq [Fds -> Descriptor]
  BY DEF Arrays, Entries
<1>2. waiting \in Seq([Fds -> Descriptor])
  BY <1>1, SeqMonotonic DEF TypeInv
<1> QED
  BY <1>1, <1>2 DEF TypeInv, TypeOK

LEMMA FreshType == FreshArray \in Arrays
<1>1. Terminal \in Entries /\ Unused \in Entries
  BY DEF Terminal, Unused, Entries, Descriptor, FileTypes
<1> QED
  BY <1>1 DEF FreshArray, Arrays

LEMMA DentryType ==
  ASSUME NEW name, NEW d \in Lookup(name)
  PROVE  /\ \E k \in DOMAIN Dentries : d = Dentries[k]
         /\ d.file_type \in FileTypes /\ d.inode_index \in DOMAIN Inodes
         /\ d.inode_index \in Nat /\ d.file_name \in Seq(Byte)
<1>1. PICK k \in DOMAIN Dentries : d = Dentries[k]
  BY DEF Lookup
<1>2. Dentries[k] \in Dentry
  BY FileSystemAssumption
<1>3. d.file_type \in FileTypes /\ d.inode_index \in DOMAIN Inodes
  BY <1>1, <1>2 DEF Dentry
<1> QED
  BY <1>1, <1>3, NameType

LEMMA OpenEntryType ==
  ASSUME NEW name, NEW d \in Lookup(name), NEW fd
  PROVE  OpenEntry(fd, d) \in Entries
<1>1. /\ d.file_type \in FileTypes /\ d.inode_index \in DOMAIN Inodes
      /\ d.inode_index \in Nat
  BY DentryType
<1> QED
  BY <1>1 DEF OpenEntry, Entries, Descriptor, FileTypes

LEMMA StrCpyType ==
  ASSUME header \in [0..7 -> Byte], NEW name \in Seq(Byte)
  PROVE  StrCpy(name) \in [0..7 -> Byte]
<1>1. \A b \in 0..7 : b < Len(name) => name[b + 1] \in Byte
  OBVIOUS
<1>2. 0 \in Byte
  BY DEF Byte
<1> QED
  BY <1>1, <1>2 DEF StrCpy

LEMMA Prefix ==
  ASSUME NEW S, NEW s \in Seq(S), NEW m \in Nat, m <= Len(s)
  PROVE  SubSeq(s, 1, m) \in Seq(S) /\ Len(SubSeq(s, 1, m)) = m
<1>1. \A j \in 1..m : s[j] \in S
  BY ElementOfSeq
<1>2. /\ SubSeq(s, 1, m) \in Seq(S)
      /\ Len(SubSeq(s, 1, m)) = IF 1 <= m THEN m - 1 + 1 ELSE 0
  BY <1>1, SubSeqProperties
<1> QED
  BY <1>2

\* What a read of the directory stores is the beginning of a name.
LEMMA NameAtType ==
  ASSUME NEW position \in Nat, NEW n \in Nat
  PROVE  LET name == NameAt(position)
             m == Least(n, Len(Cut(name)))
         IN  /\ name \in Seq(Byte)
             /\ Cut(name) \in Seq(Byte)
             /\ m \in Nat /\ m <= Len(name)
             /\ memcpy(name, 0, m) = SubSeq(name, 1, m)
             /\ memcpy(name, 0, m) \in Seq(Byte) /\ Len(memcpy(name, 0, m)) = m
<1> DEFINE name == NameAt(position)
           c == Least(Len(name), FILE_NAME_LENGTH)
           m == Least(n, Len(Cut(name)))
<1>1. name \in Seq(Byte) /\ Len(name) \in Nat
  <2>1. CASE position < Len(Dentries)
    <3>1. position + 1 \in DOMAIN Dentries
      BY <2>1, FileSystemAssumption
    <3>2. name = Dentries[position + 1].file_name
      BY <2>1 DEF NameAt
    <3>3. name \in Seq(Byte)
      BY <3>1, <3>2, NameType
    <3> QED
      BY <3>3, LenProperties
  <2>2. CASE ~(position < Len(Dentries))
    BY <2>2 DEF NameAt
  <2> QED
    BY <2>1, <2>2
<1> HIDE DEF name
<1>2. c \in Nat /\ c <= Len(name)
  BY <1>1, FileSystemAssumption, LeastIs
<1>3. Cut(name) \in Seq(Byte) /\ Len(Cut(name)) = c
  <2> HIDE DEF c
  <2>1. SubSeq(name, 1, c) \in Seq(Byte) /\ Len(SubSeq(name, 1, c)) = c
    BY <1>1, <1>2, Prefix
  <2> QED
    BY <2>1 DEF Cut, c
<1> HIDE DEF c
<1>4. m \in Nat /\ m <= Len(name)
  BY <1>1, <1>2, <1>3, LeastIs
<1> HIDE DEF m
<1>5. memcpy(name, 0, m) = SubSeq(name, 1, m)
  BY <1>4 DEF memcpy
<1>6. memcpy(name, 0, m) \in Seq(Byte) /\ Len(memcpy(name, 0, m)) = m
  BY <1>1, <1>4, <1>5, Prefix
<1> QED
  BY <1>1, <1>3, <1>4, <1>5, <1>6 DEF name, m

LEMMA InitTypeInv == Init => TypeInv
<1> SUFFICES ASSUME Init PROVE TypeInv
  OBVIOUS
<1>1. header \in [0..7 -> Byte]
  <2>1. header = [b \in 0..7 |-> IF b = 0 THEN Len(Dentries)
                                 ELSE IF b = 4 THEN InodesNum ELSE 0]
    BY DEF Init
  <2>2. Len(Dentries) \in Byte /\ InodesNum \in Byte /\ 0 \in Byte
    BY FileSystemAssumption DEF Byte
  <2> QED
    BY <2>1, <2>2
<1>2. waiting \in Seq(Arrays) /\ Len(waiting) <= MaxDepth
  BY FileSystemAssumption DEF Init
<1> QED
  BY <1>1, <1>2, FreshType DEF Init, TypeInv

LEMMA OpenTypeInv ==
  ASSUME TypeInv, NEW name, Open(name)
  PROVE  TypeInv'
<1>1. CASE Fail(<<"open", name>>)
  BY <1>1 DEF Fail, Return, TypeInv
<1>2. CASE ~Fail(<<"open", name>>)
  <2>1. PICK d \in Lookup(name), fd \in Free :
          /\ filed_array' = [filed_array EXCEPT ![fd] = OpenEntry(fd, d)]
          /\ header' \in {StrCpy(d.file_name), header}
          /\ Return(<<"open", name>>, fd, <<>>)
          /\ UNCHANGED waiting
    BY <1>2 DEF Open
  <2>2. fd \in Fds /\ fd \in Int
    BY FileSystemAssumption DEF Free, Fds
  <2>3. filed_array' \in Arrays
    BY <2>1, OpenEntryType DEF TypeInv, Arrays
  <2>4. header' \in [0..7 -> Byte]
    BY <2>1, DentryType, StrCpyType DEF TypeInv
  <2>5. result'.ret = fd
    BY <2>1 DEF Return
  <2> QED
    BY <2>1, <2>2, <2>3, <2>4, <2>5 DEF TypeInv
<1> QED
  BY <1>1, <1>2

LEMMA CloseTypeInv ==
  ASSUME TypeInv, NEW fd, Close(fd)
  PROVE  TypeInv'
<1>1. CASE Fail(<<"close", fd>>)
  BY <1>1 DEF Fail, Return, TypeInv
<1>2. CASE ~Fail(<<"close", fd>>)
  <2>1. /\ filed_array' = [filed_array EXCEPT ![fd].flags = 0]
        /\ result' = [call |-> <<"close", fd>>, ret |-> 0, data |-> <<>>]
        /\ UNCHANGED <<header, waiting>>
    BY <1>2 DEF Close, Return
  <2>2. \A e \in Entries : [e EXCEPT !.flags = 0] \in Entries
    BY DEF Entries, Descriptor
  <2>3. filed_array' \in Arrays
    BY <2>1, <2>2 DEF TypeInv, Arrays
  <2> QED
    BY <2>1, <2>3 DEF TypeInv
<1> QED
  BY <1>1, <1>2

\* A read moves a position, a directory's upwards.
LEMMA DeliverTypeInv ==
  ASSUME TypeInv, NEW fd \in Fds, NEW n, NEW ret \in Int, NEW data, NEW step \in Int,
         filed_array[fd].type = "dir" => step \in Nat,
         Deliver(fd, n, ret, data, step)
  PROVE  TypeInv'
<1> DEFINE e == filed_array[fd]
<1>1. e \in Entries /\ e.position \in Int
  BY DEF TypeInv, Arrays, Entries, Descriptor
<1>2. [e EXCEPT !.position = e.position + step] \in Entries
  <2>1. e.position + step \in Int /\ (e.type = "dir" => e.position + step \in Nat)
    BY <1>1 DEF Entries
  <2> QED
    BY <1>1, <2>1 DEF Entries, Descriptor
<1>3. filed_array' = [filed_array EXCEPT ![fd] = [e EXCEPT !.position = e.position + step]]
  BY DEF Deliver
<1>4. filed_array' \in Arrays
  BY <1>2, <1>3 DEF TypeInv, Arrays
<1>5. result'.ret = ret /\ UNCHANGED <<header, waiting>>
  BY DEF Deliver, Return
<1> QED
  BY <1>4, <1>5 DEF TypeInv

LEMMA ReadTypeInv ==
  ASSUME TypeInv, NEW fd \in Int, NEW n \in Nat, Read(fd, n)
  PROVE  TypeInv'
<1>1. CASE Fail(<<"read", fd, n>>)
  BY <1>1 DEF Fail, Return, TypeInv
<1>2. CASE IsOpen(fd) /\ FileRead(fd, n)
  <2>1. fd \in Fds /\ filed_array[fd].type = "file"
    BY <1>2, FileSystemAssumption DEF IsOpen, Served, Fds, FileRead
  <2> DEFINE inode == filed_array[fd].inode
             position == filed_array[fd].position
  <2>2. inode \in DOMAIN Inodes /\ position \in Int
    BY <2>1 DEF TypeInv, Arrays, Entries, Descriptor
  <2>3. CASE Deliver(fd, n, -1, <<>>, -1)
    BY <2>1, <2>3, DeliverTypeInv
  <2>4. CASE ~Refuses(inode, position)
             /\ Deliver(fd, n, Len(ReadData(inode, position, n)), ReadData(inode, position, n),
                        Len(ReadData(inode, position, n)))
    <3>1. position \in 0..Inodes[inode].file_length
      BY <2>2, <2>4, WholeType DEF Refuses
    <3>2. Len(ReadData(inode, position, n)) \in Nat
      BY <2>2, <3>1, ReadDataIs
    <3> HIDE DEF inode, position
    <3> QED
      BY <2>1, <2>4, <3>2, DeliverTypeInv
  <2> QED
    BY <1>2, <2>3, <2>4 DEF FileRead
<1>3. CASE IsOpen(fd) /\ DirectoryRead(fd, n)
  <2>1. fd \in Fds /\ filed_array[fd].type = "dir"
    BY <1>3, FileSystemAssumption DEF IsOpen, Served, Fds, DirectoryRead
  <2> DEFINE name == NameAt(filed_array[fd].position)
             data == memcpy(name, 0, Least(n, Len(Cut(name))))
  <2>2. Deliver(fd, n, Len(data), data, 1)
    BY <1>3 DEF DirectoryRead
  <2>3. filed_array[fd].position \in Nat
    BY <2>1 DEF TypeInv, Arrays, Entries
  <2>4. Len(data) \in Int
    BY <2>3, NameAtType
  <2> HIDE DEF data
  <2> QED
    BY <2>1, <2>2, <2>4, DeliverTypeInv
<1>4. CASE IsOpen(fd) /\ RtcRead(fd, n)
  <2>1. fd \in Fds /\ Deliver(fd, n, 0, <<>>, 0)
    BY <1>4, FileSystemAssumption DEF IsOpen, Served, Fds, RtcRead
  <2> QED
    BY <2>1, DeliverTypeInv
<1> QED
  BY <1>1, <1>2, <1>3, <1>4 DEF Read

LEMMA WriteTypeInv ==
  ASSUME TypeInv, NEW fd, Write(fd)
  PROVE  TypeInv'
BY DEF Write, Fail, Return, TypeInv

LEMMA ExecuteTypeInv ==
  ASSUME TypeInv, NEW name, Execute(name)
  PROVE  TypeInv'
<1>1. CASE Fail(<<"execute", name>>)
  BY <1>1 DEF Fail, Return, TypeInv
<1>2. CASE ~Fail(<<"execute", name>>)
  <2>1. /\ Len(waiting) < MaxDepth
        /\ waiting' = Append(waiting, filed_array)
        /\ filed_array' = FreshArray
        /\ result' = [call |-> <<"execute", name>>, ret |-> 0, data |-> <<>>]
        /\ UNCHANGED header
    BY <1>2 DEF Execute, Return
  <2>2. waiting' \in Seq(Arrays) /\ Len(waiting') = Len(waiting) + 1
    BY <2>1 DEF TypeInv
  <2>3. Len(waiting) \in Nat /\ MaxDepth \in Nat
    BY FileSystemAssumption DEF TypeInv
  <2> QED
    BY <2>1, <2>2, <2>3, FreshType DEF TypeInv
<1> QED
  BY <1>1, <1>2

LEMMA HaltTypeInv ==
  ASSUME TypeInv, Halt
  PROVE  TypeInv'
<1>1. Len(waiting) \in Nat \ {0}
  BY EmptySeq DEF TypeInv, Halt
<1>2. waiting[Len(waiting)] \in Arrays
  BY <1>1 DEF TypeInv
<1>3. waiting' \in Seq(Arrays) /\ Len(waiting') = Len(waiting) - 1
  <2>1. Len(waiting) - 1 \in Nat
    BY <1>1
  <2>2. waiting' = SubSeq(waiting, 1, Len(waiting) - 1)
    BY DEF Halt
  <2>3. waiting \in Seq(Arrays) /\ Len(waiting) - 1 <= Len(waiting)
    BY <1>1 DEF TypeInv
  <2>4. /\ SubSeq(waiting, 1, Len(waiting) - 1) \in Seq(Arrays)
        /\ Len(SubSeq(waiting, 1, Len(waiting) - 1)) = Len(waiting) - 1
    <3> HIDE DEF Arrays
    <3> QED
      BY <2>1, <2>3, Prefix
  <2> QED
    BY <2>2, <2>4
<1>4. Len(waiting') <= MaxDepth
  BY <1>1, <1>3, FileSystemAssumption DEF TypeInv
<1> QED
  BY <1>2, <1>3, <1>4 DEF Halt, Return, TypeInv

LEMMA StepTypeInv == TypeInv /\ [Next]_vars => TypeInv'
<1> SUFFICES ASSUME TypeInv, [Next]_vars PROVE TypeInv'
  OBVIOUS
<1>1. CASE \E name \in Names : Open(name) \/ Execute(name)
  BY <1>1, OpenTypeInv, ExecuteTypeInv
<1>2. CASE \E fd \in 2..FDARRAY_MAX : Close(fd) \/ Write(fd)
  BY <1>2, CloseTypeInv, WriteTypeInv
<1>3. CASE \E fd \in 2..FDARRAY_MAX, n \in 0..MaxRequest : Read(fd, n)
  BY <1>3, ReadTypeInv, FileSystemAssumption
<1>4. CASE Halt
  BY <1>4, HaltTypeInv
<1>5. CASE UNCHANGED vars
  BY <1>5 DEF vars, TypeInv
<1> QED
  BY <1>1, <1>2, <1>3, <1>4, <1>5 DEF Next

\* Whatever is opened, read, closed and run, in an image of any size, the
\* descriptors of the program that runs and of those that wait, and the boot
\* block that file_open() writes to, keep their types (scall.c, filesystem.c).
THEOREM DescriptorsTyped == Spec => []TypeOK
BY InitTypeInv, StepTypeInv, TypeInvIsTyped, PTL DEF Spec

------------------------------------------------------------------------------
(* What descriptors stand for                                              *)

\* An entry was opened for entry k of the directory, and has a place in it.
OpenedFor(e, k) ==
  /\ e.type = Dentries[k].file_type
  /\ e.type = "file" => /\ e.inode = Dentries[k].inode_index
                        /\ e.position \in 0..Inodes[e.inode].file_length
  /\ e.type = "rtc" => e.position = 0

\* Of a program's descriptors the first two stay open.
Opened(array) ==
  /\ array[0].flags = 1 /\ array[1].flags = 1
  /\ \A fd \in 2..(FDARRAY_MAX - 1) :
       array[fd].flags = 1 => \E k \in DOMAIN Dentries : OpenedFor(array[fd], k)

AllOpened == Opened(filed_array) /\ \A k \in 1..Len(waiting) : Opened(waiting[k])

\* The inductive invariant of the refinement.
FilesInv == TypeInv /\ HeaderInv /\ AllOpened

Frames == [k \in 1..(Len(waiting) + 1) |->
             View(IF k <= Len(waiting) THEN waiting[k] ELSE filed_array)]

\* What a program still has of a descriptor.
Shown(e) == IF e.flags = 0 THEN [file |-> <<>>, rest |-> <<>>]
            ELSE [file |-> FileNames[Entry(e)],
                  rest |-> From(Contents[Entry(e)], e.position + 1)]

LEMMA ViewIs ==
  ASSUME NEW array
  PROVE  View(array) = [fd \in 2..(FDARRAY_MAX - 1) |-> Shown(array[fd])]
BY DEF View, Shown

LEMMA EntryIs ==
  ASSUME NEW e, NEW k \in DOMAIN Dentries, OpenedFor(e, k)
  PROVE  Entry(e) = k
<1>1. /\ k \in DOMAIN Dentries /\ Dentries[k].file_type = e.type
      /\ e.type = "file" => Dentries[k].inode_index = e.inode
  BY DEF OpenedFor
<1>2. ASSUME NEW l \in DOMAIN Dentries, Dentries[l].file_type = e.type,
             e.type = "file" => Dentries[l].inode_index = e.inode
      PROVE  l = k
  BY <1>1, <1>2, DirectoryAssumption
<1> QED
  BY <1>1, <1>2 DEF Entry

\* What is behind the entries, by number and by name.
LEMMA ContentsAre ==
  ASSUME NEW k \in DOMAIN Dentries
  PROVE  /\ Dentries[k].file_type = "file" =>
              Contents[k] = Whole(Dentries[k].inode_index)
         /\ Dentries[k].file_type = "dir" => Contents[k] = FileNames
         /\ Dentries[k].file_type = "rtc" => Contents[k] = <<>>
         /\ Dentries[k].file_name \in DOMAIN ContentByName
         /\ ContentByName[Dentries[k].file_name] = Contents[k]
         /\ Dentries[k].file_name \in Directories <=> Dentries[k].file_type = "dir"
         /\ Dentries[k].file_name \in Clocks <=> Dentries[k].file_type = "rtc"
<1>1. /\ Dentries[k].file_name \in DOMAIN ContentByName
      /\ ContentByName[Dentries[k].file_name] = Contents[k]
  <2>1. (CHOOSE l \in First(Dentries[k].file_name) : TRUE) = k
    BY FirstIs
  <2> QED
    BY <2>1 DEF ContentByName, FileNames
<1>2. ASSUME NEW type, Dentries[k].file_name \in NamesOf(type)
      PROVE  Dentries[k].file_type = type
  <2>1. PICK l \in DOMAIN Dentries : /\ Dentries[l].file_type = type
                                    /\ Dentries[l].file_name = Dentries[k].file_name
    BY <1>2 DEF NamesOf, FileNames
  <2> QED
    BY <2>1, DirectoryAssumption
<1>3. Dentries[k].file_name \in NamesOf(Dentries[k].file_type)
  BY DEF NamesOf, FileNames
<1>4. /\ Dentries[k].file_name \in Directories <=> Dentries[k].file_type = "dir"
      /\ Dentries[k].file_name \in Clocks <=> Dentries[k].file_type = "rtc"
  BY <1>2, <1>3 DEF Directories, Clocks
<1>5. /\ Dentries[k].file_type = "file" => Contents[k] = Whole(Dentries[k].inode_index)
      /\ Dentries[k].file_type = "dir" => Contents[k] = FileNames
      /\ Dentries[k].file_type = "rtc" => Contents[k] = <<>>
  BY DEF Contents
<1> QED
  BY <1>1, <1>4, <1>5

LEMMA NamesAreSeq ==
  /\ FileNames \in Seq(Seq(Byte)) /\ Len(FileNames) = Len(Dentries)
  /\ \A k \in 1..Len(Dentries) : FileNames[k] = Dentries[k].file_name
<1>1. Len(Dentries) \in Nat /\ DOMAIN Dentries = 1..Len(Dentries)
  BY FileSystemAssumption
<1>2. FileNames \in [1..Len(Dentries) -> Seq(Byte)]
  BY <1>1, NameType DEF FileNames
<1> QED
  BY <1>1, <1>2, SequenceOf DEF FileNames

LEMMA ShownIs ==
  ASSUME NEW e, e.flags = 1, NEW k \in DOMAIN Dentries, OpenedFor(e, k)
  PROVE  /\ Shown(e) = [file |-> Dentries[k].file_name,
                        rest |-> From(Contents[k], e.position + 1)]
         /\ Shown(e) # [file |-> <<>>, rest |-> <<>>]
<1>1. Shown(e) = [file |-> Dentries[k].file_name,
                  rest |-> From(Contents[k], e.position + 1)]
  BY EntryIs DEF Shown, FileNames
<1>2. Shown(e).file = Dentries[k].file_name
  BY <1>1
<1> QED
  BY <1>1, <1>2, NameFits

------------------------------------------------------------------------------
(* The calls are calls of OpenFiles                                        *)

LEMMA NothingLeft == \A first \in Nat \ {0} : From(<<>>, first) = <<>>
BY SubSeqEmpty DEF From

LEMMA HeldIs ==
  ASSUME TypeInv
  PROVE  /\ Open_Files!Top = Len(waiting) + 1
         /\ \A fd \in 2..(FDARRAY_MAX - 1) : Open_Files!Held(fd) = Shown(filed_array[fd])
<1>1. Len(waiting) \in Nat
  BY DEF TypeInv
<1>2. Len(Frames) = Len(waiting) + 1 /\ Frames[Len(waiting) + 1] = View(filed_array)
  BY <1>1 DEF Frames
<1> QED
  BY <1>2, ViewIs DEF Open_Files!Top, Open_Files!Held, Frames

LEMMA FramesKept ==
  ASSUME UNCHANGED <<filed_array, waiting>>
  PROVE  Frames' = Frames
BY DEF Frames, View, Entry, Contents, Whole, FileNames, From

\* A refused call leaves what programs have.
LEMMA FailRefuses ==
  ASSUME NEW call, Fail(call)
  PROVE  Open_Files!Refuse(call)
<1>1. Frames' = Frames
  BY FramesKept DEF Fail
<1> QED
  BY <1>1 DEF Fail, Return, Open_Files!Refuse, Open_Files!Answer, Frames

LEMMA SetIs ==
  ASSUME TypeInv, NEW fd \in 2..(FDARRAY_MAX - 1), NEW e,
         filed_array' = [filed_array EXCEPT ![fd] = e], UNCHANGED waiting
  PROVE  Open_Files!Set(fd, Shown(e))
<1> DEFINE top == Len(waiting) + 1
<1>1. Len(waiting) \in Nat
  BY DEF TypeInv
<1>2. View(filed_array') = [View(filed_array) EXCEPT ![fd] = Shown(e)]
  <2>1. \A f \in 2..(FDARRAY_MAX - 1) :
          filed_array'[f] = IF f = fd THEN e ELSE filed_array[f]
    BY FileSystemAssumption DEF TypeInv, Arrays, Fds
  <2>2. /\ View(filed_array') = [f \in 2..(FDARRAY_MAX - 1) |-> Shown(filed_array'[f])]
        /\ View(filed_array) = [f \in 2..(FDARRAY_MAX - 1) |-> Shown(filed_array[f])]
    BY ViewIs
  <2>3. \A f \in 2..(FDARRAY_MAX - 1) :
          Shown(filed_array'[f]) = IF f = fd THEN Shown(e) ELSE Shown(filed_array[f])
    BY <2>1
  <2> DEFINE v == View(filed_array)
             w == View(filed_array')
             x == Shown(e)
             D == 2..(FDARRAY_MAX - 1)
  <2>4. /\ v = [f \in D |-> v[f]] /\ w = [f \in D |-> w[f]]
        /\ \A f \in D : w[f] = IF f = fd THEN x ELSE v[f]
    <3>1. v = [f \in D |-> v[f]]
      BY <2>2
    <3>2. w = [f \in D |-> w[f]]
      BY <2>2
    <3>3. \A f \in D : v[f] = Shown(filed_array[f]) /\ w[f] = Shown(filed_array'[f])
      BY <2>2
    <3>4. \A f \in D : w[f] = IF f = fd THEN x ELSE v[f]
      <4> HIDE DEF v, w
      <4> QED
        BY <3>3, <2>3
    <3> QED
      BY <3>1, <3>2, <3>4
  <2> HIDE DEF v, w, x, D
  <2>5. w = [v EXCEPT ![fd] = x]
    BY <2>4
  <2> QED
    BY <2>5 DEF v, w, x
<1>3. Frames' = [k \in 1..top |-> View(IF k <= Len(waiting) THEN waiting[k] ELSE filed_array')]
  BY DEF Frames, View, Entry, Contents, Whole, FileNames, From
<1>4. Frames' = [Frames EXCEPT ![top] = View(filed_array')]
  <2>1. \A k \in 1..top : k <= Len(waiting) \/ k = top
    BY <1>1
  <2>2. ~(top <= Len(waiting)) /\ top \in 1..top
    BY <1>1
  <2> QED
    BY <1>3, <2>1, <2>2 DEF Frames
<1>5. Frames[top] = View(filed_array)
  BY <1>1 DEF Frames
<1>6. Frames' = [Frames EXCEPT ![top][fd] = Shown(e)]
  BY <1>2, <1>4, <1>5
<1> QED
  BY <1>6, HeldIs DEF Open_Files!Set, Frames

\* A call that changes one entry leaves the others as they were.
LEMMA SetKeeps ==
  ASSUME FilesInv, NEW fd \in 2..(FDARRAY_MAX - 1), NEW e,
         e.flags = 1 => \E k \in DOMAIN Dentries : OpenedFor(e, k),
         filed_array' = [filed_array EXCEPT ![fd] = e], UNCHANGED waiting
  PROVE  AllOpened'
<1>1. /\ \A f \in 2..(FDARRAY_MAX - 1) :
           filed_array'[f] = IF f = fd THEN e ELSE filed_array[f]
      /\ filed_array'[0] = filed_array[0] /\ filed_array'[1] = filed_array[1]
  BY FileSystemAssumption DEF FilesInv, TypeInv, Arrays, Fds
<1>2. Opened(filed_array')
  BY <1>1 DEF FilesInv, AllOpened, Opened
<1> QED
  BY <1>2 DEF FilesInv, AllOpened

LEMMA SameKeeps ==
  ASSUME FilesInv, UNCHANGED <<filed_array, waiting>>
  PROVE  AllOpened'
BY DEF FilesInv, AllOpened

LEMMA OpenIs ==
  ASSUME FilesInv
  PROVE  /\ \A fd \in 2..(FDARRAY_MAX - 1) :
              Shown(filed_array[fd]) = [file |-> <<>>, rest |-> <<>>]
                <=> filed_array[fd].flags = 0
         /\ \A fd \in Int : Open_Files!IsOpen(fd) <=> IsOpen(fd)
<1>1. ASSUME NEW fd \in 2..(FDARRAY_MAX - 1)
      PROVE  /\ filed_array[fd].flags \in {0, 1}
             /\ Shown(filed_array[fd]) = [file |-> <<>>, rest |-> <<>>]
                  <=> filed_array[fd].flags = 0
  <2>1. fd \in Fds
    BY FileSystemAssumption DEF Fds
  <2>2. filed_array[fd].flags \in {0, 1}
    BY <2>1 DEF FilesInv, TypeInv, Arrays, Entries, Descriptor
  <2>3. CASE filed_array[fd].flags = 0
    BY <2>3 DEF Shown
  <2>4. CASE filed_array[fd].flags = 1
    <3>1. PICK k \in DOMAIN Dentries : OpenedFor(filed_array[fd], k)
      BY <2>4 DEF FilesInv, AllOpened, Opened
    <3> QED
      BY <2>4, <3>1, ShownIs
  <2> QED
    BY <2>2, <2>3, <2>4
<1>2. ASSUME NEW fd \in Int
      PROVE  Open_Files!IsOpen(fd) <=> IsOpen(fd)
  <2>1. CASE fd \in Served
    <3>1. fd \in 2..(FDARRAY_MAX - 1)
      BY <2>1, FileSystemAssumption DEF Served
    <3> QED
      BY <1>1, <2>1, <3>1, HeldIs DEF Open_Files!IsOpen, Open_Files!Closed, IsOpen, FilesInv
  <2>2. CASE fd \notin Served
    BY <2>2 DEF Open_Files!IsOpen, IsOpen
  <2> QED
    BY <2>1, <2>2
<1> QED
  BY <1>1, <1>2

LEMMA InitImplements == Init => Open_Files!Init
<1> SUFFICES ASSUME Init PROVE Open_Files!Init
  OBVIOUS
<1>1. View(FreshArray) = Open_Files!Nothing
  <2>1. \A fd \in 2..(FDARRAY_MAX - 1) : FreshArray[fd].flags = 0
    BY FileSystemAssumption DEF FreshArray, Fds, Unused
  <2> QED
    BY <2>1 DEF View, Open_Files!Nothing, Open_Files!Closed
<1>2. Frames = <<View(FreshArray)>>
  BY DEF Init, Frames
<1> QED
  BY <1>1, <1>2 DEF Init, Open_Files!Init, Frames

LEMMA OpenImplements ==
  ASSUME FilesInv, NEW name \in Names, Open(name)
  PROVE  /\ Open_Files!Open(name) \/ Open_Files!OpenFails(name)
         /\ AllOpened'
<1>0. TypeInv /\ HeaderServesFiles
  BY DEF FilesInv, HeaderInv
<1>1. CASE (Lookup(name) = {} \/ Free = {}) /\ Fail(<<"open", name>>)
  <2>1. Open_Files!Refuse(<<"open", name>>)
    BY <1>1, FailRefuses
  <2>4. AllOpened'
    BY <1>1, SameKeeps DEF Fail
  <2>2. CASE Lookup(name) = {}
    <3>1. name \notin DOMAIN ContentByName
      BY <1>0, <2>2, LookupIs DEF ContentByName, FileNames
    <3> QED
      BY <2>1, <2>4, <3>1 DEF Open_Files!OpenFails
  <2>3. CASE Free = {}
    <3>1. \A fd \in 2..(FDARRAY_MAX - 1) : filed_array[fd].flags # 0
      BY <2>3, FileSystemAssumption DEF Free, Fds
    <3> QED
      BY <1>0, <2>1, <2>4, <3>1, HeldIs, OpenIs DEF Open_Files!OpenFails, Open_Files!Closed
  <2> QED
    BY <1>1, <2>2, <2>3, <2>4
<1>2. CASE ~((Lookup(name) = {} \/ Free = {}) /\ Fail(<<"open", name>>))
  <2>1. PICK d \in Lookup(name), fd \in Free :
          /\ filed_array' = [filed_array EXCEPT ![fd] = OpenEntry(fd, d)]
          /\ Return(<<"open", name>>, fd, <<>>)
          /\ UNCHANGED waiting
    BY <1>2 DEF Open
  <2>2. fd \in 2..(FDARRAY_MAX - 1) /\ filed_array[fd].flags = 0
    BY FileSystemAssumption DEF Free, Fds, FilesInv, AllOpened, Opened
  <2>3. PICK k \in DOMAIN Dentries : d = Dentries[k] /\ name = Dentries[k].file_name
    BY <1>0, LookupIs
  <2> DEFINE e == OpenEntry(fd, d)
  <2>4. OpenedFor(e, k) /\ e.flags = 1 /\ e.position = 0
    BY <2>3, DentryType, WholeType DEF OpenEntry, OpenedFor, FileTypes
  <2> HIDE DEF e
  <2>5. Shown(e) = [file |-> name, rest |-> From(Contents[k], 1)]
    <3>1. Shown(e) = [file |-> name, rest |-> From(Contents[k], e.position + 1)]
      BY <2>3, <2>4, ShownIs
    <3> QED
      BY <2>4, <3>1
  <2>6. From(Contents[k], 1) = Contents[k]
    <3>1. d.file_type \in {"file", "dir", "rtc"} /\ d.inode_index \in DOMAIN Inodes
      BY DentryType DEF FileTypes
    <3>2. CASE d.file_type = "file"
      <4>1. Contents[k] \in Seq(Nat)
        BY <2>3, <3>1, <3>2, ContentsAre, WholeType
      <4> QED
        BY <4>1 DEF From
    <3>3. CASE d.file_type = "dir"
      <4>1. Contents[k] \in Seq(Seq(Byte))
        BY <2>3, <3>3, ContentsAre, NamesAreSeq
      <4> QED
        BY <4>1 DEF From
    <3>4. CASE d.file_type = "rtc"
      BY <2>3, <3>4, ContentsAre, NothingLeft
    <3> QED
      BY <3>1, <3>2, <3>3, <3>4
  <2>7. Open_Files!Set(fd, [file |-> name, rest |-> ContentByName[name]])
    <3>1. Shown(e) = [file |-> name, rest |-> ContentByName[name]]
      BY <2>3, <2>5, <2>6, ContentsAre
    <3>2. filed_array' = [filed_array EXCEPT ![fd] = e]
      BY <2>1 DEF e
    <3>3. Open_Files!Set(fd, Shown(e))
      BY <1>0, <2>1, <2>2, <3>2, SetIs
    <3> QED
      BY <3>1, <3>3
  <2>8. name \in DOMAIN ContentByName
    BY <2>3, ContentsAre
  <2>9. Open_Files!Held(fd) = Open_Files!Closed
    BY <1>0, <2>2, HeldIs, OpenIs DEF Open_Files!Closed
  <2>10. Open_Files!Answer(<<"open", name>>, fd, <<>>)
    BY <2>1 DEF Return, Open_Files!Answer
  <2>11. AllOpened'
    BY <2>1, <2>2, <2>4, SetKeeps DEF e
  <2> QED
    BY <2>2, <2>7, <2>8, <2>9, <2>10, <2>11 DEF Open_Files!Open
<1> QED
  BY <1>1, <1>2

LEMMA CloseImplements ==
  ASSUME FilesInv, NEW fd \in 2..FDARRAY_MAX, Close(fd)
  PROVE  /\ \/ fd \in 2..(FDARRAY_MAX - 1) /\ Open_Files!Close(fd)
            \/ Open_Files!Denied(fd)
         /\ AllOpened'
<1>0. fd \in Int
  BY FileSystemAssumption
<1>1. CASE ~IsOpen(fd) /\ Fail(<<"close", fd>>)
  <2>1. Open_Files!Refuse(<<"close", fd>>)
    BY <1>1, FailRefuses
  <2> QED
    BY <1>0, <1>1, <2>1, OpenIs, SameKeeps DEF Open_Files!Denied, Fail
<1>2. CASE ~(~IsOpen(fd) /\ Fail(<<"close", fd>>))
  <2> DEFINE e == [filed_array[fd] EXCEPT !.flags = 0]
  <2>1. /\ IsOpen(fd)
        /\ filed_array' = [filed_array EXCEPT ![fd] = e]
        /\ Return(<<"close", fd>>, 0, <<>>)
        /\ UNCHANGED <<header, waiting>>
    BY <1>2 DEF Close
  <2>2. fd \in 2..(FDARRAY_MAX - 1) /\ fd \in Fds
    BY <2>1, FileSystemAssumption DEF IsOpen, Served, Fds
  <2>0. e.flags = 0
    BY <2>2 DEF FilesInv, TypeInv, Arrays, Entries, Descriptor
  <2>3. Shown(e) = Open_Files!Closed
    BY <2>0 DEF Shown, Open_Files!Closed
  <2> HIDE DEF e
  <2>4. Open_Files!Set(fd, Open_Files!Closed)
    <3>1. Open_Files!Set(fd, Shown(e))
      BY <2>1, <2>2, SetIs DEF FilesInv
    <3> QED
      BY <2>3, <3>1
  <2>5. Open_Files!Answer(<<"close", fd>>, 0, <<>>)
    BY <2>1 DEF Return, Open_Files!Answer
  <2> QED
    <3>1. AllOpened'
      <4>1. e.flags = 1 => \E k \in DOMAIN Dentries : OpenedFor(e, k)
        BY <2>0
      <4> QED
        BY <2>1, <2>2, <4>1, SetKeeps
    <3> QED
      BY <1>0, <2>1, <2>2, <2>4, <2>5, <3>1, OpenIs DEF Open_Files!Close
<1> QED
  BY <1>1, <1>2

\* What a program has of entry k when its place is position p.
Remaining(k, p) == [file |-> Dentries[k].file_name, rest |-> From(Contents[k], p + 1)]

\* A piece of a file is what read_data() copies.
LEMMA FilePiece ==
  ASSUME NEW k \in DOMAIN Dentries, Dentries[k].file_type = "file",
         NEW p \in 0..Inodes[Dentries[k].inode_index].file_length, NEW n \in Nat
  PROVE  LET data == ReadData(Dentries[k].inode_index, p, n)
             d == Remaining(k, p)
         IN  /\ Len(data) \in Nat
             /\ p + Len(data) \in 0..Inodes[Dentries[k].inode_index].file_length
             /\ Open_Files!Piece(d, n) = data
             /\ Open_Files!After(d, n) = From(Contents[k], p + Len(data) + 1)
<1> DEFINE inode == Dentries[k].inode_index
           file == Whole(inode)
           length == Inodes[inode].file_length
           data == ReadData(inode, p, n)
           rest == From(file, p + 1)
           m == Least(n, length - p)
           d == Remaining(k, p)
<1>1. inode \in DOMAIN Inodes
  <2>1. Dentries[k] \in Dentry
    BY FileSystemAssumption
  <2> QED
    BY <2>1 DEF Dentry
<1>2. length \in Nat /\ file \in Seq(Nat) /\ Len(file) = length
  BY <1>1, WholeType
<1>3. /\ m \in Nat /\ Len(data) = m /\ data = SubSeq(file, p + 1, p + m)
  BY <1>1, ReadDataIs
<1>4. m <= length - p
  <2>1. length - p \in Int
    BY <1>2
  <2> QED
    BY <2>1, LeastIs
<1> HIDE DEF file, length, data, m
<1>5. p \in 0..Len(file)
  BY <1>2 DEF length
<1>6. /\ rest \in Seq(Nat) /\ Len(rest) = length - p
      /\ SubSeq(rest, 1, m) = data
      /\ SubSeq(rest, m + 1, Len(rest)) = From(file, p + m + 1)
  <2>1. rest = SubSeq(file, p + 1, Len(file))
    BY DEF From
  <2> HIDE DEF rest
  <2>2. rest \in Seq(Nat) /\ Len(rest) = length - p /\ SubSeq(rest, 1, m) = SubSeq(file, p + 1, p + m)
    BY <1>2, <1>3, <1>4, <1>5, <2>1, SubSeqOfRest
  <2>3. SubSeq(rest, m + 1, length - p) = SubSeq(file, p + (m + 1), p + (length - p))
    <3> DEFINE k1 == m + 1
               l1 == length - p
    <3>1. k1 \in Nat \ {0} /\ l1 \in Nat /\ l1 <= Len(file) - p
      BY <1>2, <1>3, <1>5
    <3> HIDE DEF k1, l1
    <3>2. SubSeq(rest, k1, l1) = SubSeq(file, p + k1, p + l1)
      BY <1>2, <1>5, <2>1, <3>1, SubSeqOfRest
    <3> QED
      BY <3>2 DEF k1, l1
  <2>4. p + (m + 1) = p + m + 1 /\ p + (length - p) = Len(file)
    BY <1>2, <1>3, <1>5
  <2> QED
    BY <1>3, <2>2, <2>3, <2>4 DEF From
<1> HIDE DEF rest
<1>7. d = [file |-> Dentries[k].file_name, rest |-> rest]
  BY ContentsAre DEF Remaining, rest, file
<1>8. d.rest = rest /\ d.file \notin Directories
  BY <1>7, ContentsAre
<1> HIDE DEF d
<1>9. Open_Files!Item(d) = rest
  BY <1>8 DEF Open_Files!Item
<1>10. Open_Files!Least(n, Len(rest)) = m
  BY <1>6 DEF Open_Files!Least, Least, m
<1>11. Open_Files!Piece(d, n) = data
  BY <1>6, <1>9, <1>10 DEF Open_Files!Piece
<1>12. Open_Files!After(d, n) = From(file, p + m + 1)
  BY <1>3, <1>6, <1>8, <1>11 DEF Open_Files!After, Open_Files!From
<1>13. Contents[k] = file
  BY ContentsAre DEF file
<1>14. p + m \in 0..length
  BY <1>2, <1>3, <1>4
<1> QED
  BY <1>3, <1>11, <1>12, <1>13, <1>14 DEF data, d, length

\* A piece of a directory is the beginning of the next name.
LEMMA DirectoryPiece ==
  ASSUME NEW k \in DOMAIN Dentries, Dentries[k].file_type = "dir",
         NEW p \in Nat, NEW n \in Nat
  PROVE  LET data == memcpy(NameAt(p), 0, Least(n, Len(Cut(NameAt(p)))))
             d == Remaining(k, p)
         IN  /\ Open_Files!Piece(d, n) = data
             /\ Open_Files!After(d, n) = From(Contents[k], p + 1 + 1)
<1> DEFINE name == NameAt(p)
           m == Least(n, Len(Cut(name)))
           data == memcpy(name, 0, m)
           rest == From(FileNames, p + 1)
           d == Remaining(k, p)
<1>1. /\ FileNames \in Seq(Seq(Byte)) /\ Len(FileNames) = Len(Dentries)
      /\ Len(Dentries) \in Nat
  BY NamesAreSeq, NameType
<1>2. /\ name \in Seq(Byte) /\ m \in Nat /\ data = SubSeq(name, 1, m)
  BY NameAtType
<1>3. Cut(name) = name
  <2>1. CASE p < Len(Dentries)
    <3>1. p + 1 \in DOMAIN Dentries
      BY <2>1, FileSystemAssumption
    <3>2. name = Dentries[p + 1].file_name
      BY <2>1 DEF NameAt
    <3> QED
      BY <3>1, <3>2, NameFits
  <2>2. CASE ~(p < Len(Dentries))
    <3>1. name = <<>>
      BY <2>2 DEF NameAt
    <3>2. Least(0, FILE_NAME_LENGTH) = 0
      BY FileSystemAssumption DEF Least
    <3>3. SubSeq(<<>>, 1, 0) = <<>> /\ Len(<<>>) = 0
      BY SubSeqEmpty
    <3> QED
      BY <3>1, <3>2, <3>3 DEF Cut
  <2> QED
    BY <2>1, <2>2
<1> HIDE DEF rest
<1>4. CASE p < Len(Dentries)
  <2>1. /\ rest \in Seq(Seq(Byte)) /\ Len(rest) = Len(Dentries) - p
        /\ SubSeq(rest, 2, Len(rest)) = From(FileNames, p + 1 + 1)
        /\ SubSeq(rest, 1, 1) = SubSeq(FileNames, p + 1, p + 1)
    <3>1. rest = SubSeq(FileNames, p + 1, Len(FileNames)) /\ p \in 0..Len(FileNames)
      BY <1>1, <1>4 DEF rest, From
    <3>2. rest \in Seq(Seq(Byte)) /\ Len(rest) = Len(Dentries) - p
          /\ SubSeq(rest, 1, 1) = SubSeq(FileNames, p + 1, p + 1)
      <4>1. 1 <= Len(FileNames) - p
        BY <1>1, <1>4
      <4> QED
        BY <1>1, <3>1, <4>1, SubSeqOfRest
    <3>3. SubSeq(rest, 2, Len(FileNames) - p) = SubSeq(FileNames, p + 2, p + (Len(FileNames) - p))
      <4>1. Len(FileNames) - p \in Nat
        BY <1>1, <1>4
      <4> QED
        BY <1>1, <3>1, <4>1, SubSeqOfRest
    <3>4. p + (Len(FileNames) - p) = Len(FileNames) /\ p + 2 = p + 1 + 1
      BY <1>1
    <3> QED
      BY <1>1, <3>2, <3>3, <3>4 DEF From
  <2>2. Head(rest) = name /\ rest # <<>>
    <3>1. p + 1 \in 1..Len(Dentries)
      BY <1>1, <1>4
    <3>2. rest # <<>> /\ Len(rest) >= 1
      BY <1>1, <1>4, <2>1
    <3>3. rest[1] = FileNames[p + 1]
      <4>1. \A j \in (p + 1)..Len(FileNames) : FileNames[j] \in Seq(Byte)
        BY <1>1, ElementOfSeq
      <4>2. p + 1 \in Int /\ Len(FileNames) \in Int /\ 1 \in 1..(Len(FileNames) - (p + 1) + 1)
        BY <1>1, <1>4
      <4>3. SubSeq(FileNames, p + 1, Len(FileNames))[1] = FileNames[(p + 1) + 1 - 1]
        BY <4>1, <4>2, SubSeqProperties
      <4> QED
        <5>1. (p + 1) + 1 - 1 = p + 1
          OBVIOUS
        <5> QED
          BY <4>3, <5>1 DEF rest, From
    <3>4. name = Dentries[p + 1].file_name
      BY <1>4 DEF NameAt
    <3> QED
      BY <2>1, <3>1, <3>2, <3>3, <3>4, NamesAreSeq
  <2>3. d.rest = rest /\ d.file \in Directories
    BY ContentsAre DEF Remaining, rest
  <2>4. Open_Files!Item(d) = name
    BY <2>2, <2>3 DEF Open_Files!Item
  <2>5. Open_Files!Least(n, Len(name)) = m
    BY <1>3 DEF Open_Files!Least, Least
  <2> QED
    BY <1>2, <2>1, <2>3, <2>4, <2>5, ContentsAre
       DEF Open_Files!Piece, Open_Files!After, Open_Files!From
<1>5. CASE ~(p < Len(Dentries))
  <2>1. name = <<>> /\ Len(name) = 0
    BY <1>5 DEF NameAt
  <2>2. rest = <<>> /\ From(FileNames, p + 1 + 1) = <<>>
    <3>1. Len(FileNames) < p + 1 /\ Len(FileNames) < p + 1 + 1
          /\ p + 1 \in Int /\ p + 1 + 1 \in Int /\ Len(FileNames) \in Int
      BY <1>1, <1>5
    <3> QED
      BY <3>1, SubSeqEmpty DEF rest, From
  <2>3. d.rest = <<>> /\ d.file \in Directories
    BY <2>2, ContentsAre DEF Remaining, rest
  <2>4. Open_Files!Item(d) = name
    BY <2>1, <2>3 DEF Open_Files!Item
  <2>5. Open_Files!Least(n, Len(name)) = m
    BY <1>3 DEF Open_Files!Least, Least
  <2>6. SubSeq(<<>>, 2, 0) = <<>> /\ Len(<<>>) = 0
    BY SubSeqEmpty
  <2> QED
    BY <1>2, <2>2, <2>3, <2>4, <2>5, <2>6, ContentsAre
       DEF Open_Files!Piece, Open_Files!After, Open_Files!From
<1> QED
  BY <1>4, <1>5

\* The clock has nothing to give.
LEMMA ClockPiece ==
  ASSUME NEW k \in DOMAIN Dentries, Dentries[k].file_type = "rtc", NEW n \in Nat
  PROVE  /\ Open_Files!Piece(Remaining(k, 0), n) = <<>>
         /\ Open_Files!After(Remaining(k, 0), n) = From(Contents[k], 0 + 0 + 1)
<1> DEFINE d == Remaining(k, 0)
<1>1. Contents[k] = <<>> /\ From(<<>>, 1) = <<>> /\ Len(<<>>) = 0
      /\ SubSeq(<<>>, 1, 0) = <<>>
  BY ContentsAre, NothingLeft, SubSeqEmpty
<1>2. d.rest = <<>> /\ d.file \notin Directories
  BY <1>1, ContentsAre DEF Remaining
<1>3. Open_Files!Item(d) = <<>> /\ Open_Files!Least(n, 0) = 0
  BY <1>2 DEF Open_Files!Item, Open_Files!Least
<1>4. Open_Files!Piece(d, n) = <<>>
  BY <1>1, <1>3 DEF Open_Files!Piece
<1>5. Open_Files!After(d, n) = SubSeq(<<>>, 1, 0)
  BY <1>1, <1>2, <1>4 DEF Open_Files!After, Open_Files!From
<1>6. From(Contents[k], 0 + 0 + 1) = <<>>
  BY <1>1
<1> QED
  BY <1>1, <1>4, <1>5, <1>6

\* A read that gives the next piece of what is left, and moves on behind it.
LEMMA DeliverImplements ==
  ASSUME FilesInv, NEW fd \in Int, IsOpen(fd), NEW n, NEW data, NEW step \in Int,
         NEW k \in DOMAIN Dentries, OpenedFor(filed_array[fd], k),
         OpenedFor([filed_array[fd] EXCEPT !.position = filed_array[fd].position + step], k),
         Open_Files!Piece(Remaining(k, filed_array[fd].position), n) = data,
         Open_Files!After(Remaining(k, filed_array[fd].position), n)
           = From(Contents[k], filed_array[fd].position + step + 1),
         Deliver(fd, n, Len(data), data, step)
  PROVE  fd \in 2..(FDARRAY_MAX - 1) /\ Open_Files!Read(fd, n) /\ AllOpened'
<1> DEFINE e == filed_array[fd]
           f == [e EXCEPT !.position = e.position + step]
           d == Remaining(k, e.position)
<1>1. fd \in 2..(FDARRAY_MAX - 1) /\ fd \in Fds /\ e.flags = 1
  BY FileSystemAssumption DEF IsOpen, Served, Fds
<1>2. e \in Entries
  BY <1>1 DEF FilesInv, TypeInv, Arrays
<1>3. /\ filed_array' = [filed_array EXCEPT ![fd] = f]
      /\ UNCHANGED waiting
      /\ Open_Files!Answer(<<"read", fd, n>>, Len(data), data)
  BY DEF Deliver, Return, Open_Files!Answer
<1>4. f.flags = 1 /\ f.position = e.position + step /\ OpenedFor(f, k)
  BY <1>1, <1>2 DEF Entries, Descriptor
<1>5. Open_Files!Held(fd) = d
  <2>1. Open_Files!Held(fd) = Shown(e)
    BY <1>1, HeldIs DEF FilesInv
  <2>2. Shown(e) = d
    BY <1>1, ShownIs DEF Remaining
  <2> QED
    BY <2>1, <2>2
<1>6. Shown(f) = [d EXCEPT !.rest = Open_Files!After(d, n)]
  <2>1. Shown(f) = [file |-> Dentries[k].file_name, rest |-> From(Contents[k], f.position + 1)]
    BY <1>4, ShownIs
  <2>2. From(Contents[k], f.position + 1) = Open_Files!After(d, n)
    BY <1>4
  <2> QED
    BY <2>1, <2>2 DEF Remaining
<1> HIDE DEF e, f, d
<1>7. Open_Files!Set(fd, Shown(f)) /\ AllOpened'
  <2>1. f.flags = 1 => \E l \in DOMAIN Dentries : OpenedFor(f, l)
    BY <1>4
  <2>2. TypeInv
    BY DEF FilesInv
  <2>3. Open_Files!Set(fd, Shown(f))
    BY <1>1, <1>3, <2>2, SetIs
  <2>4. AllOpened'
    BY <1>1, <1>3, <2>1, SetKeeps
  <2> QED
    BY <2>3, <2>4
<1>8. Open_Files!IsOpen(fd)
  BY OpenIs
<1>9. Open_Files!Piece(d, n) = data
  BY DEF d, e
<1> QED
  BY <1>1, <1>3, <1>5, <1>6, <1>7, <1>8, <1>9 DEF Open_Files!Read

LEMMA ReadImplements ==
  ASSUME FilesInv, NEW fd \in 2..FDARRAY_MAX, NEW n \in 0..MaxRequest, Read(fd, n)
  PROVE  /\ \/ fd \in 2..(FDARRAY_MAX - 1) /\ Open_Files!Read(fd, n)
            \/ Open_Files!Denied(fd)
         /\ AllOpened'
<1>0. fd \in Int /\ n \in Nat
  BY FileSystemAssumption
<1> DEFINE e == filed_array[fd]
<1>1. CASE ~IsOpen(fd) /\ Fail(<<"read", fd, n>>)
  <2>1. Open_Files!Refuse(<<"read", fd, n>>)
    BY <1>1, FailRefuses
  <2> QED
    BY <1>0, <1>1, <2>1, OpenIs, SameKeeps DEF Open_Files!Denied, Fail
<1>2. ASSUME IsOpen(fd)
      PROVE  e \in Entries /\ \E k \in DOMAIN Dentries : OpenedFor(e, k)
  <2>1. fd \in 2..(FDARRAY_MAX - 1) /\ fd \in Fds /\ e.flags = 1
    BY <1>2, FileSystemAssumption DEF IsOpen, Served, Fds
  <2> QED
    BY <2>1 DEF FilesInv, TypeInv, Arrays, AllOpened, Opened
<1>3. CASE IsOpen(fd) /\ FileRead(fd, n)
  <2>1. PICK k \in DOMAIN Dentries : OpenedFor(e, k)
    BY <1>2, <1>3
  <2> DEFINE inode == e.inode
             data == ReadData(inode, e.position, n)
  <2>2. /\ e.type = "file" /\ Dentries[k].file_type = "file"
        /\ inode = Dentries[k].inode_index /\ inode \in DOMAIN Inodes
        /\ e.position \in 0..Inodes[inode].file_length /\ e.position \in Int
    BY <1>2, <1>3, <2>1 DEF FileRead, OpenedFor, Entries, Descriptor
  <2>3. ~Refuses(inode, e.position)
    <3>1. inode <= inodes_num
      BY <2>2 DEF FilesInv, HeaderInv, HeaderServesFiles
    <3>2. /\ inode \in Nat /\ inodes_num \in Int
      <4>1. inode \in Nat
        BY <2>2, NameType
      <4>2. inodes_num \in Int
        BY WordType DEF FilesInv, TypeInv, inodes_num, Word
      <4> QED
        BY <4>1, <4>2
    <3>3. ~(inode > inodes_num) /\ ~(e.position < 0) /\ ~(e.position > Inodes[inode].file_length)
      BY <2>2, <3>1, <3>2, WholeType
    <3> QED
      BY <3>3 DEF Refuses
  <2>4. Deliver(fd, n, Len(data), data, Len(data))
    BY <1>3, <2>3 DEF FileRead
  <2>5. /\ Len(data) \in Nat
        /\ e.position + Len(data) \in 0..Inodes[inode].file_length
        /\ Open_Files!Piece(Remaining(k, e.position), n) = data
        /\ Open_Files!After(Remaining(k, e.position), n)
             = From(Contents[k], e.position + Len(data) + 1)
    BY <1>0, <2>2, FilePiece
  <2> HIDE DEF data
  <2>6. OpenedFor([e EXCEPT !.position = e.position + Len(data)], k)
    BY <1>2, <1>3, <2>1, <2>2, <2>5 DEF OpenedFor, Entries, Descriptor
  <2> QED
    BY <1>0, <1>3, <2>1, <2>4, <2>5, <2>6, DeliverImplements
<1>4. CASE IsOpen(fd) /\ DirectoryRead(fd, n)
  <2>1. PICK k \in DOMAIN Dentries : OpenedFor(e, k)
    BY <1>2, <1>4
  <2> DEFINE data == memcpy(NameAt(e.position), 0, Least(n, Len(Cut(NameAt(e.position)))))
  <2>2. e.type = "dir" /\ Dentries[k].file_type = "dir" /\ e.position \in Nat
    BY <1>2, <1>4, <2>1 DEF DirectoryRead, OpenedFor, Entries
  <2>3. Deliver(fd, n, Len(data), data, 1)
    BY <1>4 DEF DirectoryRead
  <2>4. /\ Open_Files!Piece(Remaining(k, e.position), n) = data
        /\ Open_Files!After(Remaining(k, e.position), n) = From(Contents[k], e.position + 1 + 1)
    BY <1>0, <2>2, DirectoryPiece
  <2> HIDE DEF data
  <2>5. OpenedFor([e EXCEPT !.position = e.position + 1], k)
    BY <1>2, <1>4, <2>1, <2>2 DEF OpenedFor, Entries, Descriptor
  <2> QED
    BY <1>0, <1>4, <2>1, <2>3, <2>4, <2>5, DeliverImplements
<1>5. CASE IsOpen(fd) /\ RtcRead(fd, n)
  <2>1. PICK k \in DOMAIN Dentries : OpenedFor(e, k)
    BY <1>2, <1>5
  <2>2. /\ e.type = "rtc" /\ Dentries[k].file_type = "rtc" /\ e.position = 0
        /\ Deliver(fd, n, 0, <<>>, 0)
    BY <1>5, <2>1 DEF RtcRead, OpenedFor
  <2>3. /\ Open_Files!Piece(Remaining(k, e.position), n) = <<>>
        /\ Open_Files!After(Remaining(k, e.position), n) = From(Contents[k], e.position + 0 + 1)
    BY <1>0, <2>2, ClockPiece
  <2>4. OpenedFor([e EXCEPT !.position = e.position + 0], k)
    BY <1>2, <1>5, <2>1, <2>2 DEF OpenedFor, Entries, Descriptor
  <2>5. Deliver(fd, n, Len(<<>>), <<>>, 0)
    BY <2>2
  <2> QED
    BY <1>0, <1>5, <2>1, <2>3, <2>4, <2>5, DeliverImplements
<1> QED
  BY <1>1, <1>3, <1>4, <1>5 DEF Read

LEMMA WriteImplements ==
  ASSUME FilesInv, NEW fd \in 2..FDARRAY_MAX, Write(fd)
  PROVE  /\ \/ fd \in 2..(FDARRAY_MAX - 1) /\ Open_Files!Write(fd)
            \/ Open_Files!Denied(fd)
         /\ AllOpened'
<1>0. fd \in Int
  BY FileSystemAssumption
<1> DEFINE e == filed_array[fd]
<1>1. ASSUME IsOpen(fd)
      PROVE  /\ fd \in 2..(FDARRAY_MAX - 1)
             /\ Open_Files!Held(fd).file \in Clocks <=> e.type = "rtc"
  <2>1. fd \in 2..(FDARRAY_MAX - 1) /\ e.flags = 1
    BY <1>1, FileSystemAssumption DEF IsOpen, Served
  <2>2. PICK k \in DOMAIN Dentries : OpenedFor(e, k)
    BY <2>1 DEF FilesInv, AllOpened, Opened
  <2>3. Open_Files!Held(fd).file = Dentries[k].file_name
    BY <2>1, <2>2, HeldIs, ShownIs DEF FilesInv
  <2> QED
    BY <2>1, <2>2, <2>3, ContentsAre DEF OpenedFor
<1>2. CASE (IsOpen(fd) => e.type # "rtc") /\ Fail(<<"write", fd>>)
  <2>1. Open_Files!Refuse(<<"write", fd>>)
    BY <1>2, FailRefuses
  <2>2. ~(Open_Files!IsOpen(fd) /\ Open_Files!Held(fd).file \in Clocks)
    BY <1>0, <1>1, <1>2, OpenIs
  <2> QED
    BY <1>2, <2>1, <2>2, SameKeeps DEF Open_Files!Denied, Fail
<1>3. CASE ~((IsOpen(fd) => e.type # "rtc") /\ Fail(<<"write", fd>>))
  <2>1. /\ IsOpen(fd) /\ e.type = "rtc"
        /\ Return(<<"write", fd>>, 0, <<>>)
        /\ UNCHANGED <<header, filed_array, waiting>>
    BY <1>3 DEF Write
  <2>2. Frames' = Frames
    BY <2>1, FramesKept
  <2>3. Open_Files!IsOpen(fd)
    BY <1>0, <2>1, OpenIs
  <2> QED
    BY <1>1, <2>1, <2>2, <2>3, SameKeeps
       DEF Open_Files!Write, Open_Files!Answer, Return, Frames
<1> QED
  BY <1>2, <1>3

LEMMA ExecuteImplements ==
  ASSUME FilesInv, NEW name \in Names, Execute(name)
  PROVE  Open_Files!Execute(name) /\ AllOpened'
<1>1. CASE Fail(<<"execute", name>>)
  BY <1>1, FailRefuses, SameKeeps DEF Open_Files!Execute, Fail
<1>2. CASE ~Fail(<<"execute", name>>)
  <2>1. PICK d \in Lookup(name) :
          /\ waiting' = Append(waiting, filed_array)
          /\ filed_array' = FreshArray
          /\ Return(<<"execute", name>>, 0, <<>>)
    BY <1>2 DEF Execute
  <2>2. name \in DOMAIN ContentByName
    <3>1. PICK k \in DOMAIN Dentries : name = Dentries[k].file_name
      BY LookupIs DEF FilesInv, HeaderInv
    <3> QED
      BY <3>1, ContentsAre
  <2> DEFINE top == Len(waiting) + 1
  <2>3. /\ waiting \in Seq(Arrays) /\ filed_array \in Arrays /\ Len(waiting) \in Nat
        /\ Len(waiting') = top
        /\ \A k \in 1..top : waiting'[k] = IF k <= Len(waiting) THEN waiting[k] ELSE filed_array
    <3>1. waiting \in Seq(Arrays) /\ filed_array \in Arrays
      BY DEF FilesInv, TypeInv
    <3> HIDE DEF Arrays
    <3> QED
      BY <2>1, <3>1
  <2>4. View(FreshArray) = Open_Files!Nothing /\ Opened(FreshArray)
    <3>1. /\ \A fd \in 2..(FDARRAY_MAX - 1) : FreshArray[fd].flags = 0
          /\ FreshArray[0].flags = 1 /\ FreshArray[1].flags = 1
      BY FileSystemAssumption DEF FreshArray, Fds, Unused, Terminal
    <3> QED
      BY <3>1 DEF View, Open_Files!Nothing, Open_Files!Closed, Opened
  <2>5. Frames' = Append(Frames, Open_Files!Nothing)
    <3>1. Frames' = [k \in 1..(top + 1) |-> View(IF k <= top THEN waiting'[k] ELSE FreshArray)]
      BY <2>1, <2>3 DEF Frames, View, Entry, Contents, Whole, FileNames, From
    <3>2. Frames = [k \in 1..top |-> View(IF k <= Len(waiting) THEN waiting[k] ELSE filed_array)]
      BY DEF Frames
    <3>3. \A k \in 1..(top + 1) :
            View(IF k <= top THEN waiting'[k] ELSE FreshArray)
              = IF k <= top THEN Frames[k] ELSE Open_Files!Nothing
      <4> SUFFICES ASSUME NEW k \in 1..(top + 1)
                   PROVE  View(IF k <= top THEN waiting'[k] ELSE FreshArray)
                            = IF k <= top THEN Frames[k] ELSE Open_Files!Nothing
        OBVIOUS
      <4>1. CASE k <= top
        <5>1. k \in 1..top
          BY <2>3, <4>1
        <5>2. waiting'[k] = IF k <= Len(waiting) THEN waiting[k] ELSE filed_array
          BY <2>3, <5>1
        <5> QED
          BY <3>2, <4>1, <5>1, <5>2
      <4>2. CASE ~(k <= top)
        BY <2>4, <4>2
      <4> QED
        BY <4>1, <4>2
    <3> DEFINE F == Frames
               G == Frames'
    <3>4. /\ F = [k \in 1..top |-> F[k]]
          /\ G = [k \in 1..(top + 1) |-> IF k <= top THEN F[k] ELSE Open_Files!Nothing]
      BY <3>1, <3>2, <3>3
    <3> HIDE DEF F, G
    <3>5. F \in Seq({F[k] : k \in 1..top}) /\ Len(F) = top
      BY <2>3, <3>4
    <3>6. G = Append(F, Open_Files!Nothing)
      BY <2>3, <3>4, <3>5
    <3> QED
      BY <3>6 DEF F, G
  <2>6. AllOpened'
    <3>1. \A k \in 1..Len(waiting') : Opened(waiting'[k])
      BY <2>3 DEF FilesInv, AllOpened
    <3> QED
      BY <2>1, <2>4, <3>1 DEF AllOpened
  <2> QED
    BY <2>1, <2>2, <2>5, <2>6 DEF Open_Files!Execute, Open_Files!Answer, Return, Frames
<1> QED
  BY <1>1, <1>2

LEMMA HaltImplements ==
  ASSUME FilesInv, Halt
  PROVE  Open_Files!Halt /\ AllOpened'
<1> DEFINE n == Len(waiting)
<1>1. /\ waiting \in Seq(Arrays) /\ n \in Nat \ {0}
      /\ waiting' = SubSeq(waiting, 1, n - 1) /\ filed_array' = waiting[n]
  BY EmptySeq DEF FilesInv, TypeInv, Halt
<1>2. Len(waiting') = n - 1 /\ \A k \in 1..(n - 1) : waiting'[k] = waiting[k]
  <2>1. \A k \in 1..(n - 1) : waiting[k] \in Arrays
    BY <1>1, ElementOfSeq
  <2> HIDE DEF Arrays, n
  <2>2. n - 1 \in Int /\ 1 \in Int /\ \A k \in 1..(n - 1) : 1 + k - 1 = k
    BY <1>1
  <2>3. /\ Len(waiting') = IF 1 <= n - 1 THEN n - 1 - 1 + 1 ELSE 0
        /\ \A k \in 1..(n - 1 - 1 + 1) : waiting'[k] = waiting[1 + k - 1]
    BY <1>1, <2>1, <2>2, SubSeqProperties
  <2> QED
    BY <1>1, <2>2, <2>3
<1> HIDE DEF n
<1>3. Frames' = [k \in 1..n |-> Frames[k]]
  <2>1. Frames' = [k \in 1..((n - 1) + 1) |-> View(IF k <= n - 1 THEN waiting'[k] ELSE filed_array')]
    BY <1>2 DEF Frames, View, Entry, Contents, Whole, FileNames, From
  <2>2. Frames = [k \in 1..(n + 1) |-> View(IF k <= n THEN waiting[k] ELSE filed_array)]
    BY DEF Frames, n
  <2>3. ASSUME NEW k \in 1..n
        PROVE  View(IF k <= n - 1 THEN waiting'[k] ELSE filed_array') = Frames[k]
    <3>1. Frames[k] = View(waiting[k])
      BY <1>1, <2>2
    <3>2. (IF k <= n - 1 THEN waiting'[k] ELSE filed_array') = waiting[k]
      BY <1>1, <1>2
    <3> QED
      BY <3>1, <3>2
  <2>4. (n - 1) + 1 = n
    BY <1>1
  <2> QED
    BY <2>1, <2>3, <2>4
<1>4. Frames' = SubSeq(Frames, 1, Len(Frames) - 1) /\ Len(Frames) = n + 1
  <2> DEFINE F == Frames
             G == Frames'
  <2>1. F = [k \in 1..(n + 1) |-> F[k]] /\ G = [k \in 1..n |-> F[k]]
    BY <1>3 DEF Frames, n
  <2> HIDE DEF F, G
  <2>2. F \in Seq({F[k] : k \in 1..(n + 1)}) /\ Len(F) = n + 1
    <3>1. F \in [1..(n + 1) -> {F[k] : k \in 1..(n + 1)}] /\ n + 1 \in Nat
      BY <1>1, <2>1
    <3> QED
      BY <3>1, SequenceOf
  <2>3. G = SubSeq(F, 1, n)
    BY <1>1, <2>1, <2>2
  <2> QED
    BY <1>1, <2>2, <2>3 DEF F, G
<1>5. AllOpened'
  <2>1. Opened(filed_array')
    BY <1>1 DEF FilesInv, AllOpened, n
  <2>2. \A k \in 1..Len(waiting') : Opened(waiting'[k])
    BY <1>1, <1>2 DEF FilesInv, AllOpened, n
  <2> QED
    BY <2>1, <2>2 DEF AllOpened
<1>6. Open_Files!Top = n + 1 /\ n + 1 > 1
  BY <1>1, <1>4 DEF Open_Files!Top, Frames
<1> QED
  BY <1>4, <1>5, <1>6 DEF Open_Files!Halt, Open_Files!Answer, Halt, Return, Frames

\* Every call is one of OpenFiles and keeps the invariant.
LEMMA StepImplements ==
  FilesInv /\ [Next /\ OpensHarmless]_vars
    => FilesInv' /\ [Open_Files!Next]_(Open_Files!vars)
<1> SUFFICES ASSUME FilesInv, [Next /\ OpensHarmless]_vars
             PROVE  AllOpened' /\ (Open_Files!Next \/ (Frames' = Frames /\ result' = result))
  BY StepTypeInv, StepKeepsHeader DEF FilesInv, Open_Files!vars, Frames
<1>1. CASE \E name \in Names : Open(name) \/ Execute(name)
  BY <1>1, OpenImplements, ExecuteImplements DEF Open_Files!Next
<1>2. CASE \E fd \in 2..FDARRAY_MAX : Close(fd) \/ Write(fd)
  BY <1>2, CloseImplements, WriteImplements DEF Open_Files!Next
<1>3. CASE \E fd \in 2..FDARRAY_MAX, n \in 0..MaxRequest : Read(fd, n)
  BY <1>3, ReadImplements DEF Open_Files!Next
<1>4. CASE Halt
  BY <1>4, HaltImplements DEF Open_Files!Next
<1>5. CASE UNCHANGED vars
  BY <1>5, FramesKept, SameKeeps DEF vars
<1> QED
  BY <1>1, <1>2, <1>3, <1>4, <1>5 DEF Next

LEMMA InitFilesInv == Init => FilesInv
<1> SUFFICES ASSUME Init PROVE FilesInv
  OBVIOUS
<1>1. Opened(filed_array) /\ waiting = <<>>
  BY FileSystemAssumption DEF Init, FreshArray, Fds, Unused, Terminal, Opened
<1> QED
  BY <1>1, InitTypeInv, InitHeaderInv DEF FilesInv, AllOpened

\* Whatever programs open, read in pieces of any length, close, run and come
\* back from, each descriptor gives the file it was opened for, byte after byte
\* and block after block, a directory entry by entry, and a call is refused only
\* for a reason (open(), close(), read(), write(), read_data(), halt()), as long
\* as the files they open have harmless names.
THEOREM HarmlessOpensGiveFiles == Spec /\ [][OpensHarmless]_vars => ImplementsOpenFiles
<1>1. [Next]_vars /\ [OpensHarmless]_vars => [Next /\ OpensHarmless]_vars
  OBVIOUS
<1> QED
  BY <1>1, InitFilesInv, InitImplements, StepImplements, PTL
     DEF Spec, ImplementsOpenFiles, Open_Files!Spec

\* Descriptors give their files whatever programs open, in every image whose
\* names are harmless to the boot block's counters (open(), read(), file_open()).
THEOREM DescriptorsGiveFiles ==
  ASSUME SafeNames
  PROVE  Spec => ImplementsOpenFiles
BY SafeOpens, HarmlessOpensGiveFiles, PTL
==============================================================================
