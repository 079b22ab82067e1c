---------------------------- MODULE CommandsProofs ----------------------------
(***************************************************************************)
(* Commands of every length and names of every size: the three loops of    *)
(* execute() over the command end where its words do, and an argument      *)
(* comes back from the PCB as it was typed.                                *)
(***************************************************************************)
EXTENDS Commands, FiniteSetTheorems, SequenceTheorems, TLAPS

Command == Seq(Chars \cup {Space})

------------------------------------------------------------------------------
(* The first of some places                                                *)

\* The intervals below the numbers of the set are finite sets, ordered by
\* inclusion, and that order is well-founded.
LEMMA LeastNumber ==
  ASSUME NEW S \in SUBSET Nat, S # {}
  PROVE  \E n \in S : \A m \in S : n <= m
<1> DEFINE Below == {0..n : n \in S}
           R == StrictSubsetOrdering(Nat)
           F == FiniteSubsetsOf(Nat)
<1>1. Below \subseteq F
  <2> SUFFICES ASSUME NEW n \in S PROVE 0..n \in F
    OBVIOUS
  <2>1. IsFiniteSet(0..n)
    <3>1. 0 \in Int /\ n \in Int
      OBVIOUS
    <3> QED
      BY <3>1, FS_Interval
  <2> QED
    BY <2>1 DEF FiniteSubsetsOf
<1>2. PICK b \in Below : \A c \in Below : <<c, b>> \notin R
  <2>1. Below # {}
    OBVIOUS
  <2>2. IsWellFoundedOn(R, F)
    BY FS_StrictSubsetOrderingWellFounded
  <2> HIDE DEF Below, R, F
  <2> QED
    BY <1>1, <2>1, <2>2, WFMin
<1>3. PICK n \in S : b = 0..n
  BY <1>2
<1>4. ASSUME NEW m \in S, m < n
      PROVE  FALSE
  <2>1. 0..m \in Below /\ 0..m \subseteq 0..n /\ 0..m # 0..n
    BY <1>4
  <2>2. <<0..m, b>> \in R
    BY <2>1, <1>3 DEF StrictSubsetOrdering
  <2> QED
    BY <1>2, <2>1, <2>2
<1> QED
  BY <1>4

------------------------------------------------------------------------------
(* Splitting                                                               *)

\* Where the command has a blank (= is) from i on, or its end.
Stops(command, i, blank) ==
  {j \in i..(Len(command) + 1) : j <= Len(command) => (command[j] = Space) = blank}

\* A loop of execute() stops at the first of its places.
LEMMA StepStops ==
  ASSUME NEW command \in Command, NEW i \in 1..(Len(command) + 1), NEW blank \in BOOLEAN
  PROVE  /\ Step(command, i, blank) \in i..(Len(command) + 1)
         /\ \A k \in i..(Step(command, i, blank) - 1) : (command[k] = Space) # blank
         /\ Step(command, i, blank) <= Len(command) =>
              (command[Step(command, i, blank)] = Space) = blank
<1> DEFINE S == Stops(command, i, blank)
<1>1. Len(command) \in Nat
  BY DEF Command
<1>2. PICK j \in S : \A k \in S : j <= k
  <2>1. S \in SUBSET Nat
    BY <1>1 DEF Stops
  <2>2. Len(command) + 1 \in S
    BY <1>1 DEF Stops
  <2> HIDE DEF S
  <2> QED
    BY <2>1, <2>2, LeastNumber
<1>3. j \in i..(Len(command) + 1) /\ (j <= Len(command) => (command[j] = Space) = blank)
  BY <1>2 DEF Stops
<1>4. ASSUME NEW k \in i..(j - 1)
      PROVE  (command[k] = Space) # blank
  <2>1. k \notin S
    BY <1>1, <1>2, <1>3
  <2>2. k \in i..(Len(command) + 1)
    BY <1>1, <1>3
  <2> QED
    BY <2>1, <2>2 DEF Stops
<1> QED
  BY <1>3, <1>4 DEF Step

\* The three places: where the word begins, where it ends, where the rest begins.
LEMMA WordsOf ==
  ASSUME NEW command \in Command
  PROVE  \E i, j, k \in 1..(Len(command) + 1) :
           /\ i <= j /\ j <= k
           /\ File(command) = SubSeq(command, i, j - 1)
           /\ Arg(command) = SubSeq(command, k, Len(command))
           /\ \A l \in 1..(i - 1) : command[l] = Space
           /\ \A l \in i..(j - 1) : command[l] # Space
           /\ \A l \in j..(k - 1) : command[l] = Space
           /\ k <= Len(command) => i < j /\ j < k /\ command[k] # Space
<1> DEFINE i == Step(command, 1, FALSE)
           j == Step(command, i, TRUE)
           k == Step(command, j, FALSE)
<1>1. Len(command) \in Nat
  BY DEF Command
<1>2. /\ i \in 1..(Len(command) + 1)
      /\ \A l \in 1..(i - 1) : command[l] = Space
      /\ i <= Len(command) => command[i] # Space
  <2>1. 1 \in 1..(Len(command) + 1)
    BY <1>1
  <2> QED
    BY <2>1, StepStops
<1>3. /\ j \in i..(Len(command) + 1)
      /\ \A l \in i..(j - 1) : command[l] # Space
      /\ j <= Len(command) => command[j] = Space
  <2> HIDE DEF i
  <2> QED
    BY <1>2, StepStops
<1>4. /\ k \in j..(Len(command) + 1)
      /\ \A l \in j..(k - 1) : command[l] = Space
      /\ k <= Len(command) => command[k] # Space
  <2> HIDE DEF i, j
  <2>1. j \in 1..(Len(command) + 1)
    BY <1>1, <1>2, <1>3
  <2> QED
    BY <2>1, StepStops
<1>5. File(command) = SubSeq(command, i, j - 1) /\ Arg(command) = SubSeq(command, k, Len(command))
  BY DEF File, Arg
<1> HIDE DEF i, j, k
<1>6. /\ i \in 1..(Len(command) + 1) /\ j \in 1..(Len(command) + 1) /\ k \in 1..(Len(command) + 1)
      /\ i <= j /\ j <= k
  BY <1>1, <1>2, <1>3, <1>4
<1>7. k <= Len(command) => i < j /\ j < k /\ command[k] # Space
  <2> SUFFICES ASSUME k <= Len(command) PROVE i < j /\ j < k /\ command[k] # Space
    OBVIOUS
  <2>1. i <= Len(command) /\ j <= Len(command)
    BY <1>1, <1>6
  <2>2. i # j /\ j # k
    BY <2>1, <1>2, <1>3, <1>4
  <2> QED
    BY <2>2, <1>4, <1>6
<1> QED
  BY <1>2, <1>3, <1>4, <1>5, <1>6, <1>7

LEMMA PartsOf ==
  ASSUME NEW command \in Command
  PROVE  /\ File(command) \in Seq(Chars)
         /\ Arg(command) \in Command
         /\ [word |-> File(command), rest |-> Arg(command)] \in Reading(command)
<1>1. command \in [1..Len(command) -> Chars \cup {Space}] /\ Len(command) \in Nat
  BY LenProperties DEF Command
<1>2. PICK i, j, k \in 1..(Len(command) + 1) :
        /\ i <= j /\ j <= k
        /\ File(command) = SubSeq(command, i, j - 1)
        /\ Arg(command) = SubSeq(command, k, Len(command))
        /\ \A l \in 1..(i - 1) : command[l] = Space
        /\ \A l \in i..(j - 1) : command[l] # Space
        /\ \A l \in j..(k - 1) : command[l] = Space
        /\ k <= Len(command) => i < j /\ j < k /\ command[k] # Space
  BY WordsOf
<1>3. File(command) \in Seq(Chars)
  <2>1. \A l \in i..(j - 1) : command[l] \in Chars
    BY <1>1, <1>2
  <2> QED
    BY <1>1, <1>2, <2>1, SubSeqProperties
<1>4. Arg(command) \in Command
  <2>1. \A l \in k..Len(command) : command[l] \in Chars \cup {Space}
    BY <1>1
  <2> QED
    BY <1>1, <1>2, <2>1, SubSeqProperties DEF Command
<1> DEFINE cut == <<i - 1, j - 1, k - 1>>
<1>5. cut \in Cuts(command)
  <2>1. i - 1 \in 0..Len(command) /\ j - 1 \in 0..Len(command) /\ k - 1 \in 0..Len(command)
    BY <1>1
  <2>2. Blank(SubSeq(command, 1, cut[1]))
    <3>1. \A l \in 1..(i - 1) : command[l] \in {Space}
      BY <1>2
    <3>2. SubSeq(command, 1, i - 1) \in Seq({Space})
      BY <3>1, <1>1, SubSeqProperties
    <3> QED
      BY <3>2 DEF Blank
  <2>3. Blank(SubSeq(command, cut[2] + 1, cut[3]))
    <3>1. \A l \in j..(k - 1) : command[l] \in {Space}
      BY <1>2
    <3>2. SubSeq(command, j, k - 1) \in Seq({Space})
      BY <3>1, <1>1, SubSeqProperties
    <3>3. cut[2] + 1 = j /\ cut[3] = k - 1
      BY <1>1
    <3> QED
      BY <3>2, <3>3 DEF Blank
  <2>4. /\ cut[1] <= cut[2] /\ cut[2] <= cut[3]
        /\ \A l \in (cut[1] + 1)..cut[2] : command[l] # Space
        /\ cut[3] < Len(command) =>
             cut[1] < cut[2] /\ cut[2] < cut[3] /\ command[cut[3] + 1] # Space
    <3>1. cut[1] + 1 = i /\ cut[2] = j - 1 /\ cut[3] + 1 = k
      BY <1>1
    <3>2. cut[3] < Len(command) => k <= Len(command)
      BY <1>1
    <3> QED
      BY <1>1, <1>2, <3>1, <3>2
  <2>5. cut \in {<<a, b, c>> : a, b, c \in 0..Len(command)}
    BY <2>1
  <2> HIDE DEF cut
  <2> QED
    BY <2>2, <2>3, <2>4, <2>5 DEF Cuts
<1>6. /\ File(command) = SubSeq(command, cut[1] + 1, cut[2])
      /\ Arg(command) = SubSeq(command, cut[3] + 1, Len(command))
  <2>1. cut[1] + 1 = i /\ cut[2] = j - 1 /\ cut[3] + 1 = k
    BY <1>1
  <2> QED
    BY <1>2, <2>1
<1> HIDE DEF cut
<1> QED
  BY <1>3, <1>4, <1>5, <1>6 DEF Reading

------------------------------------------------------------------------------
(* The PCB's argument                                                      *)

\* A string that has no zero in its memory is all of it.
LEMMA StringOf ==
  ASSUME NEW command \in Command
  PROVE  StringAt(command) = command
<1>1. Ends(command) = {}
  BY CommandsAssumption DEF Ends, Command, NUL, Space
<1> QED
  BY <1>1, SubSeqFull DEF StringAt, Command

\* strncpy() stores bytes of its source, and zeros.
LEMMA CopyType ==
  ASSUME NEW memory \in Seq(Byte), NEW n \in Nat
  PROVE  /\ Len(StringAt(memory)) \in 0..Len(memory)
         /\ \A j \in 1..Len(StringAt(memory)) : StringAt(memory)[j] = memory[j]
         /\ Len(StringAt(memory)) < Len(memory) =>
              memory[Len(StringAt(memory)) + 1] = NUL
         /\ \A j \in 1..Len(StringAt(memory)) : memory[j] # NUL
         /\ strncpy(memory, n) \in [1..n -> Byte]
<1>1. Len(memory) \in Nat /\ \A j \in 1..Len(memory) : memory[j] \in Byte
  OBVIOUS
<1>2. PICK m \in 0..Len(memory) :
        /\ StringAt(memory) = SubSeq(memory, 1, m)
        /\ m < Len(memory) => memory[m + 1] = NUL
        /\ \A j \in 1..m : memory[j] # NUL
  <2>1. CASE Ends(memory) = {}
    BY <1>1, <2>1 DEF StringAt, Ends
  <2>2. CASE Ends(memory) # {}
    <3>1. PICK e \in Ends(memory) : \A k \in Ends(memory) : e <= k
      <4>1. Ends(memory) \in SUBSET Nat
        BY DEF Ends
      <4> QED
        BY <2>2, <4>1, LeastNumber
    <3> DEFINE f == CHOOSE j \in Ends(memory) : \A k \in Ends(memory) : j <= k
    <3>2. f \in Ends(memory) /\ \A k \in Ends(memory) : f <= k
      BY <3>1
    <3>3. StringAt(memory) = SubSeq(memory, 1, f - 1)
      BY <2>2 DEF StringAt
    <3> HIDE DEF f
    <3>4. f \in 1..Len(memory) /\ memory[f] = NUL
      BY <3>2 DEF Ends
    <3>5. \A j \in 1..(f - 1) : memory[j] # NUL
      BY <1>1, <3>2, <3>4 DEF Ends
    <3>6. f - 1 \in 0..Len(memory) /\ (f - 1) + 1 = f
      BY <1>1, <3>4
    <3> QED
      BY <3>3, <3>4, <3>5, <3>6
  <2> QED
    BY <2>1, <2>2
<1>3. /\ Len(StringAt(memory)) = m
      /\ \A j \in 1..m : StringAt(memory)[j] = memory[j]
  <2>1. \A j \in 1..m : memory[j] \in Byte
    BY <1>1
  <2> QED
    BY <1>1, <1>2, <2>1, SubSeqProperties
<1>4. NUL \in Byte
  BY DEF Byte
<1>5. strncpy(memory, n) \in [1..n -> Byte]
  BY <1>1, <1>3, <1>4 DEF strncpy
<1> QED
  BY <1>2, <1>3, <1>5

\* What getargs() gives of what execute() has kept.
LEMMA ArgumentKept ==
  ASSUME NEW arg \in Command, NEW behind \in Seq(Byte), NEW n \in Nat
  PROVE  \/ n > FILE_NAME_LENGTH /\ Len(arg) >= FILE_NAME_LENGTH
         \/ strncpy(strncpy(arg, FILE_NAME_LENGTH) \o behind, n)
              = [j \in 1..n |-> IF j <= Len(arg) THEN arg[j] ELSE NUL]
<1> DEFINE kept == strncpy(arg, FILE_NAME_LENGTH)
           memory == kept \o behind
<1>1. Len(arg) \in Nat /\ FILE_NAME_LENGTH \in Nat
      /\ \A j \in 1..Len(arg) : arg[j] \in Byte /\ arg[j] # NUL
  BY CommandsAssumption DEF Command, Byte, NUL, Space
<1>2. kept = [j \in 1..FILE_NAME_LENGTH |-> IF j <= Len(arg) THEN arg[j] ELSE NUL]
  BY StringOf DEF strncpy
<1>3. kept \in Seq(Byte) /\ Len(kept) = FILE_NAME_LENGTH
  BY <1>1, <1>2 DEF Byte
<1>4. /\ memory \in Seq(Byte)
      /\ Len(memory) >= FILE_NAME_LENGTH
      /\ \A j \in 1..FILE_NAME_LENGTH : memory[j] = IF j <= Len(arg) THEN arg[j] ELSE NUL
  <2> HIDE DEF kept
  <2>1. Len(behind) \in Nat
    OBVIOUS
  <2> QED
    BY <1>1, <1>2, <1>3, <2>1, ConcatProperties
<1> DEFINE s == Len(StringAt(memory))
<1> HIDE DEF memory
<1>5. /\ s \in 0..Len(memory)
      /\ \A j \in 1..s : StringAt(memory)[j] = memory[j]
      /\ s < Len(memory) => memory[s + 1] = NUL
      /\ \A j \in 1..s : memory[j] # NUL
  BY <1>4, CopyType
<1> HIDE DEF s
<1>6. strncpy(memory, n) = [j \in 1..n |-> IF j <= s THEN StringAt(memory)[j] ELSE NUL]
  BY DEF strncpy, s
<1>7. CASE Len(arg) < FILE_NAME_LENGTH
  <2>1. memory[Len(arg) + 1] = NUL
    BY <1>1, <1>4, <1>7
  <2>2. s = Len(arg)
    <3>1. ~(s > Len(arg))
      BY <1>1, <1>5, <2>1
    <3>2. ~(s < Len(arg))
      BY <1>1, <1>4, <1>5, <1>7
    <3> QED
      BY <1>1, <1>5, <3>1, <3>2
  <2>3. \A j \in 1..n : (IF j <= s THEN StringAt(memory)[j] ELSE NUL)
                          = IF j <= Len(arg) THEN arg[j] ELSE NUL
    BY <1>1, <1>4, <1>5, <1>7, <2>2
  <2> QED
    BY <1>6, <2>3 DEF memory
<1>8. CASE Len(arg) >= FILE_NAME_LENGTH /\ n <= FILE_NAME_LENGTH
  <2>1. s >= FILE_NAME_LENGTH
    BY <1>1, <1>4, <1>5, <1>8
  <2>2. \A j \in 1..n : (IF j <= s THEN StringAt(memory)[j] ELSE NUL)
                          = IF j <= Len(arg) THEN arg[j] ELSE NUL
    BY <1>1, <1>4, <1>5, <1>8, <2>1
  <2> QED
    BY <1>6, <2>2 DEF memory
<1> QED
  BY <1>1, <1>7, <1>8

------------------------------------------------------------------------------
(* The programs of a terminal                                              *)

PCBs == {Loaded(command, behind) : command \in Command, behind \in Behind}

\* Every PCB keeps what some command said, and the last call's result is what
\* the properties say of it.
Inv ==
  /\ programs \in Seq(PCBs)
  /\ programs # <<>>
  /\ StartsFirstWord /\ ArgsAsTyped
  /\ result.call = "getargs" /\ result.ret = 0 =>
       result.data \in [1..result.about -> Byte]

LEMMA ShellIsACommand == <<Shell>> \in Command
BY CommandsAssumption DEF Command

\* Found() accepts the programs there are.
LEMMA ProgramsAreFound ==
  ASSUME NEW word \in Programs
  PROVE  Found(word) /\ ~TooLong(word)
<1>1. word \in Seq(Chars) /\ Len(word) <= FILE_NAME_LENGTH /\ Len(word) \in Nat
      /\ FILE_NAME_LENGTH \in Nat
  BY CommandsAssumption
<1>2. SubSeq(word, 1, Least(Len(word), FILE_NAME_LENGTH)) = word
  <2>1. Least(Len(word), FILE_NAME_LENGTH) = Len(word)
    BY <1>1 DEF Least
  <2> QED
    BY <1>1, <2>1, SubSeqFull
<1> QED
  <2>1. Found(word)
    BY <1>2 DEF Found
  <2>2. ~TooLong(word)
    BY <1>1 DEF TooLong
  <2> QED
    BY <2>1, <2>2

LEMMA ExecuteInv ==
  ASSUME Inv, NEW command \in Texts, Execute(command)
  PROVE  Inv'
<1>1. command \in Command
  BY CommandsAssumption DEF Command
<1> DEFINE read == [word |-> File(command), rest |-> Arg(command)]
<1>2. read \in Reading(command) /\ read.word = File(command) /\ read.rest = Arg(command)
  BY <1>1, PartsOf
<1>3. Len(Arg(command)) \in Nat /\ FILE_NAME_LENGTH \in Nat
  BY <1>1, PartsOf, CommandsAssumption DEF Command
<1>4. CASE /\ Fails(command) \/ PastEnd(Arg(command))
           /\ Return("execute", command, -1, <<>>)
           /\ UNCHANGED programs
  <2>1. result'.call = "execute" /\ result'.about = command /\ result'.ret = -1
    BY <1>4 DEF Return
  <2>2. read.word \in Programs => Len(read.rest) > FILE_NAME_LENGTH
    BY <1>2, <1>3, <1>4, ProgramsAreFound DEF Fails, TooLong, PastEnd
  <2>3. StartsFirstWord'
    <3> HIDE DEF read
    <3> QED
      BY <1>2, <2>1, <2>2 DEF StartsFirstWord
  <2> QED
    BY <1>4, <2>1, <2>3 DEF Inv, ArgsAsTyped
<1>5. CASE /\ ~Fails(command)
           /\ \E behind \in Behind :
                programs' = Append(programs, Loaded(command, behind))
           /\ Return("execute", command, 0, <<>>)
  <2>1. result'.call = "execute" /\ result'.about = command /\ result'.ret = 0
    BY <1>5 DEF Return
  <2>2. PICK behind \in Behind : programs' = Append(programs, Loaded(command, behind))
    BY <1>5
  <2>3. Loaded(command, behind) \in PCBs /\ programs \in Seq(PCBs)
    BY <1>1 DEF PCBs, Inv
  <2>4. /\ programs' \in Seq(PCBs) /\ programs' # <<>>
        /\ programs'[Len(programs')] = Loaded(command, behind)
    <3> HIDE DEF PCBs
    <3> QED
      BY <2>2, <2>3, AppendProperties
  <2>5. Running'.file = File(command)
    BY <2>4 DEF Running, Loaded
  <2>6. StartsFirstWord'
    <3>1. Found(read.word)
      BY <1>2, <1>5 DEF Fails
    <3> HIDE DEF read
    <3> QED
      BY <1>2, <2>1, <2>5, <3>1 DEF StartsFirstWord
  <2> QED
    BY <2>1, <2>4, <2>6 DEF Inv, ArgsAsTyped
<1> QED
  BY <1>4, <1>5 DEF Execute

LEMMA GetArgsInv ==
  ASSUME Inv, NEW n \in 0..MaxRequest, GetArgs(n)
  PROVE  Inv'
<1>1. n \in Nat /\ FILE_NAME_LENGTH \in Nat
  BY CommandsAssumption
<1>2. programs' = programs /\ result'.call = "getargs" /\ result'.about = n
  BY DEF GetArgs, Return
<1>3. PICK command \in Command, behind \in Behind : Running = Loaded(command, behind)
  <2>1. Running \in PCBs
    <3>1. programs \in Seq(PCBs) /\ programs # <<>>
      BY DEF Inv
    <3> HIDE DEF PCBs
    <3>2. Len(programs) \in 1..Len(programs)
      BY <3>1, EmptySeq
    <3> QED
      BY <3>1, <3>2, ElementOfSeq DEF Running
  <2> QED
    BY <2>1 DEF PCBs
<1>4. /\ Running.typed = command
      /\ Running.arg = strncpy(Arg(command), FILE_NAME_LENGTH)
      /\ Running.behind = behind
  BY <1>3 DEF Loaded
<1>5. behind \in Seq(Byte)
  BY CommandsAssumption DEF Byte
<1>6. Arg(command) \in Command
  BY PartsOf
<1>7. ASSUME result'.ret = 0
      PROVE  /\ result'.data = strncpy(Running.arg \o Running.behind, n)
             /\ result'.data \in [1..n -> Byte]
  <2>1. result'.data = strncpy(Running.arg \o Running.behind, n)
    BY <1>7 DEF GetArgs, Return
  <2>2. Running.arg \o Running.behind \in Seq(Byte)
    <3>1. Arg(command) \in Seq(Byte)
      BY <1>6, SeqMonotonic DEF Command, Byte
    <3>2. strncpy(Arg(command), FILE_NAME_LENGTH) \in [1..FILE_NAME_LENGTH -> Byte]
      BY <1>1, <3>1, CopyType
    <3>3. strncpy(Arg(command), FILE_NAME_LENGTH) \in Seq(Byte)
      BY <1>1, <3>2
    <3> QED
      BY <1>4, <1>5, <3>3, ConcatProperties
  <2> QED
    BY <1>1, <2>1, <2>2, CopyType
<1>8. ArgsAsTyped'
  <2> SUFFICES ASSUME result'.ret = 0
               PROVE  \E read \in Reading(command) :
                        \/ n > FILE_NAME_LENGTH /\ Len(read.rest) >= FILE_NAME_LENGTH
                        \/ result'.data = [k \in 1..n |->
                              IF k <= Len(read.rest) THEN read.rest[k] ELSE NUL]
    BY <1>2, <1>4 DEF ArgsAsTyped, Running
  <2> DEFINE read == [word |-> File(command), rest |-> Arg(command)]
  <2>1. read \in Reading(command) /\ read.rest = Arg(command)
    BY PartsOf
  <2>2. \/ n > FILE_NAME_LENGTH /\ Len(read.rest) >= FILE_NAME_LENGTH
        \/ result'.data = [k \in 1..n |->
              IF k <= Len(read.rest) THEN read.rest[k] ELSE NUL]
    <3>1. \/ n > FILE_NAME_LENGTH /\ Len(Arg(command)) >= FILE_NAME_LENGTH
          \/ strncpy(strncpy(Arg(command), FILE_NAME_LENGTH) \o behind, n)
               = [k \in 1..n |-> IF k <= Len(Arg(command)) THEN Arg(command)[k] ELSE NUL]
      BY <1>1, <1>5, <1>6, ArgumentKept
    <3> HIDE DEF read
    <3> QED
      BY <1>4, <1>7, <2>1, <3>1
  <2> HIDE DEF read
  <2> QED
    BY <2>1, <2>2
<1> QED
  BY <1>2, <1>7, <1>8 DEF Inv, StartsFirstWord

LEMMA HaltInv ==
  ASSUME Inv, Halt
  PROVE  Inv'
<1>1. result'.call = "halt"
  BY DEF Halt, Return
<1>2. programs \in Seq(PCBs) /\ programs # <<>>
  BY DEF Inv
<1>3. programs' \in Seq(PCBs) /\ programs' # <<>>
  <2>1. CASE Len(programs) = 1
    <3>1. PICK behind \in Behind : programs' = <<Loaded(<<Shell>>, behind)>>
      BY <2>1 DEF Halt
    <3>2. Loaded(<<Shell>>, behind) \in PCBs
      BY ShellIsACommand DEF PCBs
    <3> QED
      BY <3>1, <3>2
  <2>2. CASE Len(programs) # 1
    <3> HIDE DEF PCBs
    <3>1. Len(programs) \in Nat \ {0, 1}
      BY <1>2, <2>2, EmptySeq
    <3>2. programs' = SubSeq(programs, 1, Len(programs) - 1)
      BY <2>2 DEF Halt
    <3>3. \A k \in 1..(Len(programs) - 1) : programs[k] \in PCBs
      BY <1>2, <3>1, ElementOfSeq
    <3>4. programs' \in Seq(PCBs) /\ Len(programs') = Len(programs) - 1
      <4>1. 1 \in Int /\ Len(programs) - 1 \in Int /\ 1 <= Len(programs) - 1
        BY <3>1
      <4>2. Len(programs) - 1 - 1 + 1 = Len(programs) - 1
        BY <3>1
      <4> QED
        BY <3>2, <3>3, <4>1, <4>2, SubSeqProperties
    <3> QED
      BY <3>1, <3>4
  <2> QED
    BY <2>1, <2>2
<1> QED
  BY <1>1, <1>3 DEF Inv, StartsFirstWord, ArgsAsTyped

LEMMA InitInv == Init => Inv
<1> SUFFICES ASSUME Init PROVE Inv
  OBVIOUS
<1>1. PICK behind \in Behind : programs = <<Loaded(<<Shell>>, behind)>>
  BY DEF Init
<1>2. Loaded(<<Shell>>, behind) \in PCBs
  BY ShellIsACommand DEF PCBs
<1>3. programs \in Seq(PCBs) /\ programs # <<>>
  BY <1>1, <1>2
<1> QED
  BY <1>3 DEF Init, Inv, PCBs, StartsFirstWord, ArgsAsTyped

LEMMA StepInv == Inv /\ [Next]_vars => Inv'
<1> SUFFICES ASSUME Inv, [Next]_vars PROVE Inv'
  OBVIOUS
<1>1. CASE UNCHANGED vars
  BY <1>1 DEF vars, Inv, StartsFirstWord, ArgsAsTyped, Running
<1> QED
  BY <1>1, ExecuteInv, GetArgsInv, HaltInv DEF Next

\* Arguments and names in the PCBs are of bytes, and no longer than their arrays
\* (execute(), getargs() in scall.c).
THEOREM PcbsTyped == Spec => []TypeOK
<1>1. Inv => TypeOK
  <2> SUFFICES ASSUME Inv PROVE TypeOK
    OBVIOUS
  <2>1. ASSUME NEW k \in DOMAIN programs
        PROVE  /\ programs[k].arg \in [1..FILE_NAME_LENGTH -> Byte]
               /\ programs[k].file \in Seq(Chars)
    <3>1. programs[k] \in PCBs
      <4>1. programs \in Seq(PCBs)
        BY DEF Inv
      <4> HIDE DEF PCBs
      <4> QED
        BY <4>1
    <3>2. PICK command \in Command, behind \in Behind : programs[k] = Loaded(command, behind)
      BY <3>1 DEF PCBs
    <3>3. Arg(command) \in Seq(Byte)
      BY PartsOf, SeqMonotonic DEF Command, Byte
    <3>4. strncpy(Arg(command), FILE_NAME_LENGTH) \in [1..FILE_NAME_LENGTH -> Byte]
      BY <3>3, CommandsAssumption, CopyType
    <3>5. /\ programs[k].arg = strncpy(Arg(command), FILE_NAME_LENGTH)
          /\ programs[k].file = File(command)
      BY <3>2 DEF Loaded
    <3>6. File(command) \in Seq(Chars)
      BY PartsOf
    <3> QED
      BY <3>4, <3>5, <3>6
  <2> QED
    BY <2>1 DEF TypeOK, Inv
<1> QED
  BY <1>1, InitInv, StepInv, PTL DEF Spec

\* execute() runs what the first word names, and refuses a program only for an
\* argument longer than a PCB's, for commands of every length (scall.c:60-94).
THEOREM FirstWordStarts == Spec => []StartsFirstWord
<1>1. Inv => StartsFirstWord
  BY DEF Inv
<1> QED
  BY <1>1, InitInv, StepInv, PTL DEF Spec

\* getargs() gives the rest of the command, whatever else has run and halted
\* since, for commands and PCBs of every length (getargs() in scall.c).
THEOREM ArgsAreAsTyped == Spec => []ArgsAsTyped
<1>1. Inv => ArgsAsTyped
  BY DEF Inv
<1> QED
  BY <1>1, InitInv, StepInv, PTL DEF Spec
=============================================================================
