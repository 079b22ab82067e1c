----------------------------- MODULE MemoryProofs -----------------------------
(***************************************************************************)
(* A program that runs finds its own page, reaches nothing else but the    *)
(* screen, and finds its image as it was loaded, for any number of slots   *)
(* and terminals.  A flush stands between every store to the tables and    *)
(* the program that goes on (Kept), whether or not an opened terminal cuts *)
(* a vidmap() or a halt() short; the entry the stores leave is that of the *)
(* program that goes on (UserPage); no other page leads to a program       *)
(* (NoPrograms), and vidmap()'s only to the screen (VideoPage).            *)
(***************************************************************************)
EXTENDS Memory, TLAPS

ProgramEntry(pid) == [p |-> TRUE, us |-> TRUE, to |-> PageOf(pid)]

\* Where the running program's parent is halt()'s aim.
ToParent == {"halt_clear", "halt_mask", "halt_address", "halt_flush"}

PidsInUse ==
  /\ pc \in {"user"} \cup HaltSteps \cup VidmapSteps => running \in Pids
  /\ pc \in LoadSteps => new_pid \in Pids
  /\ pc \in ToParent => parent_pid[running] \in Pids

UserPage ==
  /\ pc \in {"user"} \cup VidmapSteps => DT["user"] = ProgramEntry(running)
  /\ pc \in {"load_mask", "halt_mask"} => DT["user"] = Clear
  /\ pc \in {"load_address", "halt_address"} => DT["user"] = Masked(Clear)
  /\ pc \in {"load_flush", "load_copy"} => DT["user"] = ProgramEntry(new_pid)
  /\ pc = "halt_flush" => DT["user"] = ProgramEntry(parent_pid[running])

Kept == pc \in {"load_copy", "user"} => tlb \subseteq Walks

\* Only the entries with a table behind them lead to one.
FramesOnly == \A d \in BigPages : DT[d].to \in Frames

Inv == TypeOK /\ FramesOnly /\ PidsInUse /\ UserPage /\ Kept

------------------------------------------------------------------------------
(* Facts about the tables                                                  *)

\* Every page number leads to a frame.
LEMMA FramesFound ==
  /\ \A p \in Pids : PageOf(p) \in Frames
  /\ Fixed("zero") \in Frames /\ Fixed("kernel") \in Frames
  /\ \A s \in SmallPages : Fixed(s) \in Frames
BY DEF Frames

\* What a walk of well-formed tables gives is a translation.
LEMMA WalksTyped ==
  ASSUME TypeOK, FramesOnly
  PROVE  Walks \subseteq Translation
<1> SUFFICES ASSUME NEW page \in VirtualPages PROVE Walk(page) \in Translation
  BY DEF Walks
<1>1. Directed(page).us \in BOOLEAN
  BY DEF TypeOK, Directed, DirectoryEntry, Directory, VirtualPages, SmallPages, BigPages
<1>2. Final(page).us \in BOOLEAN /\ Final(page).to \in Frames
  BY DEF TypeOK, FramesOnly, Final, Entry, DirectoryEntry, Directory, VirtualPages,
         SmallPages, BigPages
<1> QED
  BY <1>1, <1>2 DEF Walk, Translation

\* The CPU sees a change only where one is stored.
LEMMA SameWalks ==
  ASSUME UNCHANGED tables
  PROVE  Walks' = Walks
BY DEF tables, Walks, Walk, Mapped, Directed, Final

\* A program that runs on well-kept tables has its page where programs live.
LEMMA OwnPage ==
  ASSUME Inv, InUser
  PROVE  Usable("user") =
           {[page |-> "user", us |-> TRUE, frame |-> PageOf(running)]}
<1>1. DT["user"] = [p |-> TRUE, us |-> TRUE, to |-> PageOf(running)]
  BY DEF Inv, UserPage, InUser, ProgramEntry
<1>2. "user" \in VirtualPages /\ "user" \notin SmallPages
  BY DEF VirtualPages, BigPages, SmallPages
<1>3. Directed("user") = DT["user"] /\ Final("user") = DT["user"]
  BY <1>2 DEF Directed, Final
<1>4. /\ Mapped("user")
      /\ Walk("user") = [page |-> "user", us |-> TRUE, frame |-> PageOf(running)]
  <2>1. DT["user"].p = TRUE /\ DT["user"].us = TRUE /\ DT["user"].to = PageOf(running)
    BY <1>1
  <2>2. (Directed("user").us /\ Final("user").us) = TRUE
    BY <2>1, <1>3, Zenon
  <2>3. Mapped("user")
    BY <2>1, <1>3, Zenon DEF Mapped
  <2>4. Walk("user") = [page |-> "user", us |-> TRUE, frame |-> PageOf(running)]
    BY <2>1, <2>2, <1>3, Zenon DEF Walk
  <2> QED
    BY <2>3, <2>4
<1>5. tlb \cup Walks = Walks
  BY DEF Inv, Kept, InUser
<1>6. \A page : Walk(page).page = page
  BY DEF Walk
<1>7. {t \in Walks : t.page = "user"} = {Walk("user")}
  BY <1>2, <1>4, <1>6 DEF Walks
<1> QED
  BY <1>4, <1>5, <1>7 DEF Usable

------------------------------------------------------------------------------
(* Steps                                                                   *)

StoreSteps ==
  LoadClear \/ LoadMask \/ LoadAddress \/ HaltClear \/ HaltMask \/ HaltAddress
    \/ VidmapClear \/ VidmapTable \/ VidmapPresent \/ VidmapUser

EntrySteps ==
  VidmapClearEntry \/ VidmapEntryPresent \/ VidmapEntryUser \/ VidmapEntryAddress

FlushSteps == LoadFlush \/ HaltFlush \/ VidmapFlush

\* What a slot is taken for: the first free one, and the tables as they were.
LEMMA Allocated ==
  ASSUME TypeOK, NEW parent \in Pids \cup {NoPid}, Allocate(parent)
  PROVE  /\ new_pid' \in Pids
         /\ pid_check' \subseteq Pids
         /\ parent_pid' \in [Pids -> Pids \cup {NoPid}]
         /\ pc' = "load_clear"
         /\ UNCHANGED <<tables, tlb, image, running>>
BY DEF Allocate, Free, TypeOK

\* The start is in the invariant.
LEMMA InitInv == Init => Inv
<1> SUFFICES ASSUME Init PROVE Inv
  OBVIOUS
<1>1. Clear \in Entry /\ Clear \in DirectoryEntry
  BY FramesFound DEF Clear, Entry, DirectoryEntry
<1>2. TypeOK
  <2>1. cut \in BOOLEAN
    BY Zenon DEF Init
  <2>2. opened \in 1..MAX_TERMINAL_SIZE
    BY MemoryAssumption DEF Init
  <2>3. DT \in [Directory -> DirectoryEntry] /\ PT \in [SmallPages -> Entry]
    BY <1>1 DEF Init
  <2>4. PT_VIDMEM \in Entry /\ pc \in Steps
    BY <1>1 DEF Init, Steps, BootSteps
  <2>5. /\ tlb \subseteq Translation /\ pid_check \subseteq Pids
        /\ image \in [Frames -> Pids \cup {NoPid}]
        /\ parent_pid \in [Pids -> Pids \cup {NoPid}]
        /\ running \in Pids \cup {NoPid} /\ new_pid \in Pids \cup {NoPid}
    BY DEF Init
  <2> QED
    BY <2>1, <2>2, <2>3, <2>4, <2>5 DEF TypeOK
<1>3. FramesOnly
  BY FramesFound DEF Init, FramesOnly, BigPages, Directory, Clear
<1>4. PidsInUse /\ UserPage /\ Kept
  BY DEF Init, PidsInUse, UserPage, Kept, HaltSteps, VidmapSteps, LoadSteps, ToParent
<1> QED
  BY <1>2, <1>3, <1>4 DEF Inv

\* A store of a well-formed entry.
LEMMA StoreKeepsTypes ==
  ASSUME TypeOK, FramesOnly, NEW d \in Directory, NEW entry \in DirectoryEntry,
         d \in BigPages => entry.to \in Frames, Store(d, entry), pc' \in Steps
  PROVE  TypeOK' /\ FramesOnly'
BY DEF TypeOK, FramesOnly, Store, Directory, BigPages, procs

\* A store to the page of vidmap()'s own table.
LEMMA EntryKeepsTypes ==
  ASSUME TypeOK, FramesOnly, NEW entry \in Entry, StoreEntry(entry), pc' \in Steps
  PROVE  TypeOK' /\ FramesOnly'
BY DEF TypeOK, FramesOnly, StoreEntry, procs

\* Every store keeps the tables well formed.
LEMMA StoresTyped ==
  ASSUME Inv, StoreSteps \/ EntrySteps
  PROVE  TypeOK' /\ FramesOnly'
<1>a. Clear \in Entry /\ Clear \in DirectoryEntry /\ Clear.to \in Frames
  BY FramesFound DEF Clear, Entry, DirectoryEntry
<1>b. "user" \in Directory /\ "video" \in Directory /\ "user" \in BigPages
  BY DEF Directory, BigPages
<1>c. "video" \notin BigPages
  BY DEF BigPages
<1>d. /\ DT["user"] \in DirectoryEntry /\ DT["user"].to \in Frames
      /\ DT["video"] \in DirectoryEntry /\ PT_VIDMEM \in Entry
  BY <1>b DEF Inv, TypeOK, FramesOnly
<1>e. pc' \in Steps
  BY DEF StoreSteps, EntrySteps, LoadClear, LoadMask, LoadAddress, HaltClear, HaltMask,
         HaltAddress, VidmapClear, VidmapTable, VidmapPresent, VidmapUser,
         VidmapClearEntry, VidmapEntryPresent, VidmapEntryUser, VidmapEntryAddress,
         At, Steps, LoadSteps, HaltSteps, VidmapSteps
<1>f. TypeOK /\ FramesOnly
  BY DEF Inv
<1>1. CASE LoadClear \/ HaltClear
  BY <1>1, <1>a, <1>b, <1>e, <1>f, StoreKeepsTypes DEF LoadClear, HaltClear
<1>2. CASE LoadMask \/ HaltMask
  <2>1. Masked(DT["user"]) \in DirectoryEntry /\ Masked(DT["user"]).to \in Frames
    BY <1>d DEF Masked, DirectoryEntry
  <2> QED
    BY <1>2, <2>1, <1>b, <1>e, <1>f, StoreKeepsTypes DEF LoadMask, HaltMask
<1>3. CASE LoadAddress
  <2>1. new_pid \in Pids
    BY <1>3 DEF Inv, PidsInUse, LoadAddress, At, LoadSteps
  <2>2. /\ Aimed(DT["user"], new_pid) \in DirectoryEntry
        /\ Aimed(DT["user"], new_pid).to \in Frames
    BY <2>1, <1>d, FramesFound DEF Aimed, DirectoryEntry
  <2> QED
    BY <1>3, <2>2, <1>b, <1>e, <1>f, StoreKeepsTypes DEF LoadAddress
<1>4. CASE HaltAddress
  <2>1. parent_pid[running] \in Pids
    BY <1>4 DEF Inv, PidsInUse, HaltAddress, At, ToParent
  <2>2. /\ Aimed(DT["user"], parent_pid[running]) \in DirectoryEntry
        /\ Aimed(DT["user"], parent_pid[running]).to \in Frames
    BY <2>1, <1>d, FramesFound DEF Aimed, DirectoryEntry
  <2> QED
    BY <1>4, <2>2, <1>b, <1>e, <1>f, StoreKeepsTypes DEF HaltAddress
<1>5. CASE VidmapClear
  BY <1>5, <1>a, <1>b, <1>c, <1>e, <1>f, StoreKeepsTypes DEF VidmapClear
<1>6. CASE VidmapTable
  <2>1. [DT["video"] EXCEPT !.to = Fixed("PT_VIDMEM")] \in DirectoryEntry
    BY <1>d DEF DirectoryEntry
  <2> QED
    BY <1>6, <2>1, <1>b, <1>c, <1>e, <1>f, StoreKeepsTypes DEF VidmapTable
<1>7. CASE VidmapPresent \/ VidmapUser
  <2>1. /\ [DT["video"] EXCEPT !.p = TRUE] \in DirectoryEntry
        /\ [DT["video"] EXCEPT !.us = TRUE] \in DirectoryEntry
    BY <1>d DEF DirectoryEntry
  <2> QED
    BY <1>7, <2>1, <1>b, <1>c, <1>e, <1>f, StoreKeepsTypes DEF VidmapPresent, VidmapUser
<1>8. CASE EntrySteps
  <2>1. /\ [PT_VIDMEM EXCEPT !.p = TRUE] \in Entry
        /\ [PT_VIDMEM EXCEPT !.us = TRUE] \in Entry
        /\ [PT_VIDMEM EXCEPT !.to = Fixed("screen")] \in Entry
    BY <1>d, FramesFound DEF Entry, SmallPages
  <2> QED
    BY <1>8, <2>1, <1>a, <1>e, <1>f, EntryKeepsTypes
    DEF EntrySteps, VidmapClearEntry, VidmapEntryPresent, VidmapEntryUser,
        VidmapEntryAddress
<1> QED
  BY <1>1, <1>2, <1>3, <1>4, <1>5, <1>6, <1>7, <1>8 DEF StoreSteps

\* The boot's tables are well formed.
LEMMA BootTyped ==
  ASSUME Inv, paging_init \/ terminal_init
  PROVE  TypeOK' /\ FramesOnly'
<1>1. CASE paging_init
  <2>1. DT' \in [Directory -> DirectoryEntry]
    BY <1>1, FramesFound DEF paging_init, DT_init, DirectoryEntry
  <2>2. PT' \in [SmallPages -> Entry]
    <3>1. \A page \in SmallPages : (page = "screen") \in BOOLEAN
      OBVIOUS
    <3>2. \A page \in SmallPages : PT_init(page) \in Entry
      BY <3>1, FramesFound DEF PT_init, Entry
    <3> QED
      BY <1>1, <3>2 DEF paging_init
  <2>3. FramesOnly'
    BY <1>1, FramesFound DEF paging_init, FramesOnly, DT_init, BigPages, Directory
  <2>4. pc' \in Steps
    BY <1>1 DEF paging_init, At, Steps, BootSteps
  <2>5. UNCHANGED <<PT_VIDMEM, tlb, image, procs, cut>>
    BY <1>1 DEF paging_init
  <2> QED
    BY <2>1, <2>2, <2>3, <2>4, <2>5 DEF Inv, TypeOK, procs
<1>2. CASE terminal_init
  <2>1. PT' \in [SmallPages -> Entry]
    BY <1>2 DEF terminal_init, Inv, TypeOK, Entry
  <2>2. pc' \in Steps /\ tlb' = {} /\ UNCHANGED <<DT, PT_VIDMEM, image, procs, cut>>
    BY <1>2 DEF terminal_init, At, Flush, Steps, BootSteps
  <2> QED
    BY <2>1, <2>2 DEF Inv, TypeOK, FramesOnly, procs
<1> QED
  BY <1>1, <1>2

\* The rest of a step changes no table: execute() and halt() up to their stores
\* and after them, the flushes, refused calls, opened terminals and the CPU.
PidSteps == First \/ Execute \/ HaltCall \/ HaltFree \/ HaltTest \/ OpenTerminal
OtherSteps == LoadCopy \/ FlushSteps \/ VidmapRefused \/ VidmapCall \/ HungLoop

\* Taking a slot, or giving one up, leaves the tables well formed.
LEMMA PidsTyped ==
  ASSUME Inv, PidSteps
  PROVE  TypeOK' /\ FramesOnly'
<1>a. TypeOK /\ FramesOnly
  BY DEF Inv
<1>b. "load_clear" \in Steps /\ HaltSteps \subseteq Steps
  BY DEF Steps, LoadSteps
<1>1. CASE \E parent \in Pids \cup {NoPid} :
             Allocate(parent) /\ UNCHANGED <<opened, cut>>
  BY <1>1, <1>a, <1>b, Allocated DEF TypeOK, FramesOnly, tables
<1>2. CASE OpenTerminal
  <2>1. opened' \in 1..MAX_TERMINAL_SIZE
    BY <1>2, <1>a, MemoryAssumption DEF OpenTerminal, TypeOK
  <2>2. cut' \in BOOLEAN
    BY <1>2, Zenon DEF OpenTerminal
  <2>3. Allocate(NoPid)
    BY <1>2 DEF OpenTerminal
  <2> QED
    BY <2>1, <2>2, <2>3, <1>a, <1>b, Allocated DEF TypeOK, FramesOnly, tables
<1>3. CASE HaltCall
  BY <1>3, <1>a, <1>b DEF HaltCall, At, TypeOK, FramesOnly, tables, procs, HaltSteps
<1>4. CASE HaltFree
  BY <1>4, <1>a, <1>b DEF HaltFree, At, TypeOK, FramesOnly, tables, HaltSteps
<1>5. CASE HaltTest /\ pc' = "halt_clear"
  BY <1>5, <1>a, <1>b, Allocated
  DEF HaltTest, TypeOK, FramesOnly, tables, procs, HaltSteps, Allocate
<1>6. CASE HaltTest /\ pc' # "halt_clear"
  BY <1>6, <1>1 DEF HaltTest
<1>7. running \in Pids \cup {NoPid}
  BY <1>a DEF TypeOK
<1> QED
  BY <1>1, <1>2, <1>3, <1>4, <1>5, <1>6, <1>7 DEF PidSteps, First, Execute

\* What an access may go by is a translation.
LEMMA UsableTyped ==
  ASSUME Inv, NEW page, NEW t \in Usable(page)
  PROVE  t.frame \in Frames
BY WalksTyped DEF Inv, TypeOK, Usable, Translation

\* So do loading, flushing and what the CPU keeps.
LEMMA OthersTyped ==
  ASSUME Inv, OtherSteps \/ Keep
  PROVE  TypeOK' /\ FramesOnly'
<1>a. TypeOK /\ FramesOnly
  BY DEF Inv
<1>1. CASE LoadCopy
  <2>1. new_pid \in Pids
    BY <1>1 DEF LoadCopy, At, Inv, PidsInUse, LoadSteps
  <2>2. image' \in [Frames -> Pids \cup {NoPid}]
    BY <1>1, <1>a, <2>1 DEF LoadCopy, TypeOK
  <2> QED
    BY <1>1, <1>a, <2>1, <2>2 DEF LoadCopy, At, TypeOK, FramesOnly, tables, Steps
<1>2. CASE LoadFlush \/ VidmapFlush
  <2>1. cut' \in BOOLEAN
    BY <1>2, <1>a, Zenon DEF LoadFlush, VidmapFlush, TypeOK
  <2> QED
    BY <1>2, <1>a, <2>1
    DEF LoadFlush, VidmapFlush, Flush, At, TypeOK, FramesOnly, tables, procs, Steps,
        LoadSteps
<1>3. CASE HaltFlush
  <2>1. parent_pid[running] \in Pids
    BY <1>3 DEF HaltFlush, At, Inv, PidsInUse, ToParent
  <2> QED
    BY <1>3, <1>a, <2>1 DEF HaltFlush, Flush, At, TypeOK, FramesOnly, tables, Steps
<1>4. CASE VidmapRefused
  <2>1. image' \in [Frames -> Pids \cup {NoPid}]
    BY <1>4, <1>a DEF VidmapRefused, TypeOK
  <2> QED
    BY <1>4, <1>a, <2>1 DEF VidmapRefused, TypeOK, FramesOnly, tables, procs, Steps
<1>5. CASE VidmapCall \/ HungLoop
  BY <1>5, <1>a
  DEF VidmapCall, HungLoop, At, TypeOK, FramesOnly, vars, tables, procs, Steps, VidmapSteps
<1>6. CASE Keep
  BY <1>6, <1>a, WalksTyped DEF Keep, TypeOK, FramesOnly, tables, procs
<1> QED
  BY <1>1, <1>2, <1>3, <1>4, <1>5, <1>6 DEF OtherSteps, FlushSteps

------------------------------------------------------------------------------
(* Whose page it is                                                        *)

\* A slot is taken in place of the running program, whatever it was about.
LEMMA AllocatePages ==
  ASSUME TypeOK, NEW parent \in Pids \cup {NoPid}, Allocate(parent)
  PROVE  PidsInUse' /\ UserPage' /\ Kept'
BY Allocated
DEF PidsInUse, UserPage, Kept, LoadSteps, HaltSteps, VidmapSteps, ToParent

\* Taking a slot, or giving one up, leaves the pages to the stores to come.
LEMMA PidStepPages ==
  ASSUME Inv, PidSteps
  PROVE  PidsInUse' /\ UserPage' /\ Kept'
<1>a. TypeOK
  BY DEF Inv
<1>1. CASE \E parent \in Pids \cup {NoPid} : Allocate(parent)
  BY <1>1, <1>a, AllocatePages
<1>2. CASE HaltCall
  BY <1>2 DEF HaltCall, At, Inv, PidsInUse, UserPage, Kept, procs, HaltSteps,
     VidmapSteps, LoadSteps, ToParent
<1>3. CASE HaltFree
  BY <1>3 DEF HaltFree, At, Inv, PidsInUse, UserPage, Kept, HaltSteps,
     VidmapSteps, LoadSteps, ToParent
<1>4. CASE HaltTest /\ ~\E parent \in Pids \cup {NoPid} : Allocate(parent)
  <2>1. running \in Pids /\ parent_pid[running] \in Pids
    BY <1>4, <1>a DEF HaltTest, Inv, PidsInUse, HaltSteps, TypeOK
  <2>2. pc' = "halt_clear" /\ UNCHANGED <<tables, tlb, procs>>
    BY <1>4 DEF HaltTest
  <2> QED
    BY <2>1, <2>2 DEF PidsInUse, UserPage, Kept, procs, HaltSteps, VidmapSteps,
       LoadSteps, ToParent
<1>5. running \in Pids \cup {NoPid}
  BY <1>a DEF TypeOK
<1> QED
  BY <1>1, <1>2, <1>3, <1>4, <1>5 DEF PidSteps, First, Execute, OpenTerminal

\* Clear, mask, address: the entry of a program (scall.c:134-136, 299-301).
LEMMA StoresMakeEntry ==
  ASSUME NEW pid \in Pids
  PROVE  Aimed(Masked(Clear), pid) = ProgramEntry(pid)
<1>1. /\ Clear \in DirectoryEntry /\ Masked(Clear) \in DirectoryEntry
      /\ Aimed(Masked(Clear), pid) \in DirectoryEntry
      /\ ProgramEntry(pid) \in DirectoryEntry
  BY FramesFound DEF Clear, Masked, Aimed, ProgramEntry, DirectoryEntry
<1>2. Masked(Clear).p = TRUE /\ Masked(Clear).us = TRUE
  BY <1>1 DEF Masked, DirectoryEntry
<1>3. /\ Aimed(Masked(Clear), pid).p = TRUE /\ Aimed(Masked(Clear), pid).us = TRUE
      /\ Aimed(Masked(Clear), pid).to = PageOf(pid)
  BY <1>1, <1>2 DEF Aimed, DirectoryEntry
<1>4. /\ ProgramEntry(pid).p = TRUE /\ ProgramEntry(pid).us = TRUE
      /\ ProgramEntry(pid).to = PageOf(pid)
  BY DEF ProgramEntry
<1>5. \A d, e \in DirectoryEntry : d.p = e.p /\ d.us = e.us /\ d.to = e.to => d = e
  BY DEF DirectoryEntry
<1> QED
  BY <1>1, <1>3, <1>4, <1>5

\* The three stores of execute() and of halt() make the entry of the program
\* they are about; vidmap()'s stores leave it alone.
LEMMA StorePages ==
  ASSUME Inv, StoreSteps \/ EntrySteps
  PROVE  PidsInUse' /\ UserPage' /\ Kept'
<1>a. /\ TypeOK /\ PidsInUse /\ UserPage
      /\ "user" \in Directory /\ "user" # "video" /\ DOMAIN DT = Directory
  BY DEF Inv, TypeOK, Directory
<1> USE DEF PidsInUse, UserPage, Kept, HaltSteps, VidmapSteps, LoadSteps, ToParent,
            At, procs
<1>1. CASE LoadClear \/ HaltClear
  BY <1>1, <1>a DEF LoadClear, HaltClear, Store
<1>2. CASE LoadMask \/ HaltMask
  BY <1>2, <1>a DEF LoadMask, HaltMask, Store
<1>3. CASE LoadAddress
  BY <1>3, <1>a, StoresMakeEntry DEF LoadAddress, Store
<1>4. CASE HaltAddress
  BY <1>4, <1>a, StoresMakeEntry DEF HaltAddress, Store
<1>5. CASE VidmapClear \/ VidmapTable \/ VidmapPresent \/ VidmapUser
  BY <1>5, <1>a DEF VidmapClear, VidmapTable, VidmapPresent, VidmapUser, Store
<1>6. CASE EntrySteps
  BY <1>6, <1>a DEF EntrySteps, VidmapClearEntry, VidmapEntryPresent, VidmapEntryUser,
                    VidmapEntryAddress, StoreEntry
<1> QED
  BY <1>1, <1>2, <1>3, <1>4, <1>5, <1>6 DEF StoreSteps

\* A flush comes before every program that goes on.
LEMMA OtherPages ==
  ASSUME Inv, OtherSteps \/ Keep \/ paging_init \/ terminal_init
  PROVE  PidsInUse' /\ UserPage' /\ Kept'
<1>a. TypeOK /\ PidsInUse /\ UserPage /\ Kept
  BY DEF Inv
<1> USE DEF PidsInUse, UserPage, HaltSteps, VidmapSteps, LoadSteps, ToParent, At, procs,
            tables
<1>1. CASE LoadCopy
  BY <1>1, <1>a, SameWalks DEF LoadCopy, Kept
<1>2. CASE LoadFlush \/ VidmapFlush
  BY <1>2, <1>a DEF LoadFlush, VidmapFlush, Flush, Kept
<1>3. CASE HaltFlush
  BY <1>3, <1>a DEF HaltFlush, Flush, Kept
<1>4. CASE VidmapRefused
  BY <1>4, <1>a, SameWalks DEF VidmapRefused, Kept
<1>5. CASE VidmapCall \/ HungLoop
  BY <1>5, <1>a, SameWalks DEF VidmapCall, HungLoop, vars, Kept
<1>6. CASE Keep
  BY <1>6, <1>a, SameWalks DEF Keep, Kept
<1>7. CASE paging_init \/ terminal_init
  BY <1>7 DEF paging_init, terminal_init, Kept
<1> QED
  BY <1>1, <1>2, <1>3, <1>4, <1>5, <1>6, <1>7 DEF OtherSteps, FlushSteps

\* Every step keeps the invariant.
LEMMA StepInv == Inv /\ [Next]_vars => Inv'
<1> SUFFICES ASSUME Inv, [Next]_vars PROVE Inv'
  OBVIOUS
<1>1. CASE PidSteps
  BY <1>1, PidsTyped, PidStepPages DEF Inv
<1>2. CASE StoreSteps \/ EntrySteps
  BY <1>2, StoresTyped, StorePages DEF Inv
<1>3. CASE OtherSteps \/ Keep
  BY <1>3, OthersTyped, OtherPages DEF Inv
<1>4. CASE paging_init \/ terminal_init
  BY <1>4, BootTyped, OtherPages DEF Inv
<1>5. CASE UNCHANGED vars
  BY <1>5, SameWalks
  DEF Inv, vars, tables, procs, TypeOK, FramesOnly, PidsInUse, UserPage, Kept
<1> QED
  BY <1>1, <1>2, <1>3, <1>4, <1>5
  DEF Next, PidSteps, StoreSteps, EntrySteps, OtherSteps, FlushSteps

\* Whatever interrupts the stores of execute(), halt() and vidmap(), a program
\* that runs finds its own page where programs live, and the CPU has kept nothing
\* the tables do not say: for any number of slots and terminals.
THEOREM ProgramsOnOwnPages == Spec => [](TypeOK /\ TlbCoherent /\ RunsOnOwnPage)
<1>1. Inv => TypeOK /\ TlbCoherent /\ RunsOnOwnPage
  BY OwnPage DEF Inv, Kept, InUser, TlbCoherent, RunsOnOwnPage
<1> QED
  BY <1>1, InitInv, StepInv, PTL DEF Spec

\* The tables, the TLB and the slots keep within their ranges (paging.c, scall.c).
THEOREM TablesTyped == Spec => []TypeOK
BY ProgramsOnOwnPages, PTL

\* What the CPU has kept when a program goes on is what the tables say
\* (tlb_flash() in execute(), halt() and vidmap()).
THEOREM TlbIsCoherent == Spec => []TlbCoherent
BY ProgramsOnOwnPages, PTL

------------------------------------------------------------------------------
(* What else is mapped, and what the frames hold                           *)

\* Only the user page leads to where programs are.
NoPrograms ==
  \A p \in Pids : /\ \A page \in SmallPages : PT[page].to # PageOf(p)
                  /\ \A d \in {"kernel", "other"} : DT[d].to # PageOf(p)
                  /\ PT_VIDMEM.to # PageOf(p)

\* A slot in use holds its program, but for the one being loaded.
Images ==
  \A p \in pid_check : image[PageOf(p)] = p \/ (pc \in LoadSteps /\ p = new_pid)

\* The kernel's pages are closed to programs.
Closed ==
  /\ \A page \in SmallPages : PT[page].us = FALSE
  /\ DT["kernel"].us = FALSE /\ DT["other"].us = FALSE

\* vidmap()'s page, once it is mapped, leads to the screen.
VideoPage ==
  pc = "vidmap_flush" \/ (cut = FALSE /\ pc \notin VidmapSteps) =>
    DT["video"].p = FALSE \/ PT_VIDMEM.to = Fixed("screen")

ReachInv == NoPrograms /\ Images /\ Closed /\ VideoPage

\* A frame is one thing only.
LEMMA FramesApart ==
  ASSUME NEW p \in Pids
  PROVE  /\ \A at \in SmallPages \cup {"kernel", "zero"} : Fixed(at) # PageOf(p)
         /\ \A q \in Pids : PageOf(q) = PageOf(p) => q = p
BY DEF Fixed, PageOf, SmallPages

\* At the start no slot is in use and everything is clear.
LEMMA InitReach == Init => ReachInv
<1> SUFFICES ASSUME Init PROVE ReachInv
  OBVIOUS
<1>1. Clear.to = Fixed("zero") /\ Clear.p = FALSE /\ Clear.us = FALSE
  BY DEF Clear
<1>2. NoPrograms
  BY <1>1, FramesApart DEF Init, NoPrograms, Directory
<1>3. Images /\ Closed /\ VideoPage
  BY <1>1 DEF Init, Images, Closed, VideoPage, Directory
<1> QED
  BY <1>2, <1>3 DEF ReachInv

\* The boot closes the kernel's pages and maps no program.
LEMMA BootReach ==
  ASSUME Inv, ReachInv, paging_init \/ terminal_init
  PROVE  ReachInv'
<1>a. TypeOK /\ NoPrograms /\ Images /\ Closed /\ VideoPage
  BY DEF Inv, ReachInv
<1>1. CASE paging_init
  <2>1. /\ \A page \in SmallPages : PT'[page].to = Fixed(page) /\ PT'[page].us = FALSE
        /\ DT'["kernel"].to = Fixed("kernel") /\ DT'["other"].to = Fixed("kernel")
        /\ DT'["kernel"].us = FALSE /\ DT'["other"].us = FALSE /\ DT'["video"].p = FALSE
    BY <1>1 DEF paging_init, PT_init, DT_init, Directory
  <2>2. UNCHANGED <<PT_VIDMEM, image, pid_check, new_pid>> /\ pc' \notin LoadSteps
        /\ pc \notin LoadSteps /\ pc' # "vidmap_flush"
    BY <1>1 DEF paging_init, procs, At, LoadSteps
  <2> QED
    BY <2>1, <2>2, <1>a, FramesApart DEF ReachInv, NoPrograms, Images, Closed, VideoPage
<1>2. CASE terminal_init
  <2>1. /\ \A page \in SmallPages : PT'[page].to = PT[page].to /\ PT'[page].us = PT[page].us
        /\ UNCHANGED <<DT, PT_VIDMEM, image, pid_check, new_pid, cut>>
        /\ pc = "terminal_init" /\ pc' = "first"
    BY <1>2, <1>a DEF terminal_init, At, procs, TypeOK, Entry
  <2> QED
    BY <2>1, <1>a DEF ReachInv, NoPrograms, Images, Closed, VideoPage, LoadSteps,
       VidmapSteps
<1> QED
  BY <1>1, <1>2

\* A slot that is taken is loaded next; what its tables say is left alone.
LEMMA PidStepReach ==
  ASSUME Inv, ReachInv, PidSteps
  PROVE  ReachInv'
<1>a. TypeOK /\ NoPrograms /\ Images /\ Closed /\ VideoPage
  BY DEF Inv, ReachInv
<1>b. UNCHANGED tables /\ UNCHANGED image
  BY DEF PidSteps, First, Execute, HaltCall, HaltFree, HaltTest, OpenTerminal, Allocate
<1>c. NoPrograms' /\ Closed'
  BY <1>a, <1>b DEF NoPrograms, Closed, tables
<1>d. VideoPage'
  <2>1. pc' \notin VidmapSteps /\ (cut' = FALSE => cut = FALSE /\ pc \notin VidmapSteps)
    <3>1. CASE OpenTerminal
      <4>1. pc' \notin VidmapSteps
        BY <3>1 DEF OpenTerminal, Allocate, VidmapSteps
      <4>2. cut' = (cut \/ pc \in VidmapSteps) /\ cut \in BOOLEAN
        BY <3>1, <1>a, Zenon DEF OpenTerminal, TypeOK
      <4>3. cut' = FALSE => cut = FALSE /\ pc \notin VidmapSteps
        BY <4>2, Zenon
      <4> QED
        BY <4>1, <4>3
    <3>2. CASE ~OpenTerminal
      BY <3>2 DEF PidSteps, First, Execute, HaltCall, HaltFree, HaltTest, Allocate, At,
                  procs, VidmapSteps
    <3> QED
      BY <3>1, <3>2
  <2> QED
    BY <2>1, <1>a, <1>b DEF VideoPage, tables, VidmapSteps
<1>e. pc \notin LoadSteps
  BY DEF PidSteps, First, Execute, HaltCall, HaltFree, HaltTest, OpenTerminal, At,
         LoadSteps, HaltSteps, VidmapSteps
<1>1. CASE \E parent \in Pids \cup {NoPid} : Allocate(parent)
  <2>1. pid_check' = pid_check \cup {new_pid'} /\ pc' = "load_clear"
    BY <1>1 DEF Allocate
  <2> QED
    BY <2>1, <1>a, <1>b, <1>c, <1>d, <1>e DEF ReachInv, Images, LoadSteps
<1>2. CASE HaltCall \/ HaltFree \/ (HaltTest /\ UNCHANGED procs)
  <2>1. pid_check' \subseteq pid_check
    BY <1>2 DEF HaltCall, HaltFree, procs
  <2> QED
    BY <2>1, <1>a, <1>b, <1>c, <1>d, <1>e DEF ReachInv, Images
<1>3. running \in Pids \cup {NoPid}
  BY <1>a DEF TypeOK
<1> QED
  BY <1>1, <1>2, <1>3 DEF PidSteps, First, Execute, OpenTerminal, HaltTest

\* execute()'s and halt()'s stores are to the user page, vidmap()'s to its own
\* page, which its last store leads to the screen.
LEMMA StoreReach ==
  ASSUME Inv, ReachInv, StoreSteps \/ EntrySteps
  PROVE  ReachInv'
<1>a. /\ NoPrograms /\ Images /\ Closed /\ VideoPage
      /\ DT \in [Directory -> DirectoryEntry] /\ PT_VIDMEM \in Entry
  BY DEF Inv, ReachInv, TypeOK
<1>b. UNCHANGED <<PT, image, pid_check, new_pid, cut>>
  BY DEF StoreSteps, EntrySteps, LoadClear, LoadMask, LoadAddress, HaltClear, HaltMask,
         HaltAddress, VidmapClear, VidmapTable, VidmapPresent, VidmapUser,
         VidmapClearEntry, VidmapEntryPresent, VidmapEntryUser, VidmapEntryAddress,
         Store, StoreEntry, procs
<1>c. pc \in LoadSteps => pc' \in LoadSteps
  BY DEF StoreSteps, EntrySteps, LoadClear, LoadMask, LoadAddress, HaltClear, HaltMask,
         HaltAddress, VidmapClear, VidmapTable, VidmapPresent, VidmapUser,
         VidmapClearEntry, VidmapEntryPresent, VidmapEntryUser, VidmapEntryAddress,
         At, LoadSteps
<1>d. Images'
  BY <1>a, <1>b, <1>c DEF Images
<1>1. CASE LoadClear \/ LoadMask \/ LoadAddress \/ HaltClear \/ HaltMask \/ HaltAddress
  <2>1. /\ DT'["kernel"] = DT["kernel"] /\ DT'["other"] = DT["other"]
        /\ DT'["video"] = DT["video"] /\ PT_VIDMEM' = PT_VIDMEM
    BY <1>1, <1>a DEF LoadClear, LoadMask, LoadAddress, HaltClear, HaltMask, HaltAddress,
                      Store, Directory
  <2>2. pc \notin VidmapSteps /\ pc' \notin VidmapSteps
    BY <1>1 DEF LoadClear, LoadMask, LoadAddress, HaltClear, HaltMask, HaltAddress, At,
                VidmapSteps
  <2> QED
    BY <2>1, <2>2, <1>a, <1>b, <1>d
    DEF ReachInv, NoPrograms, Closed, VideoPage, VidmapSteps
<1>2. CASE VidmapClear \/ VidmapTable \/ VidmapPresent \/ VidmapUser
  <2>1. /\ DT'["kernel"] = DT["kernel"] /\ DT'["other"] = DT["other"]
        /\ PT_VIDMEM' = PT_VIDMEM
    BY <1>2, <1>a DEF VidmapClear, VidmapTable, VidmapPresent, VidmapUser, Store, Directory
  <2>2. pc' \in VidmapSteps /\ pc' # "vidmap_flush"
    BY <1>2 DEF VidmapClear, VidmapTable, VidmapPresent, VidmapUser, At, VidmapSteps
  <2> QED
    BY <2>1, <2>2, <1>a, <1>b, <1>d DEF ReachInv, NoPrograms, Closed, VideoPage
<1>3. CASE EntrySteps
  <2>1. /\ DT' = DT
        /\ PT_VIDMEM'.to \in {PT_VIDMEM.to, Fixed("zero"), Fixed("screen")}
    BY <1>3, <1>a DEF EntrySteps, VidmapClearEntry, VidmapEntryPresent, VidmapEntryUser,
                      VidmapEntryAddress, StoreEntry, Entry, Clear
  <2>2. NoPrograms'
    BY <2>1, <1>a, <1>b, FramesApart DEF NoPrograms, SmallPages
  <2>3. /\ pc' \in VidmapSteps
        /\ pc' = "vidmap_flush" => PT_VIDMEM'.to = Fixed("screen")
    BY <1>3, <1>a DEF EntrySteps, VidmapClearEntry, VidmapEntryPresent, VidmapEntryUser,
                      VidmapEntryAddress, StoreEntry, Entry, At, VidmapSteps
  <2> QED
    BY <2>1, <2>2, <2>3, <1>a, <1>b, <1>d DEF ReachInv, Closed, VideoPage
<1> QED
  BY <1>1, <1>2, <1>3 DEF StoreSteps

\* A program is loaded to its own frame, and a pointer that vidmap() refuses
\* leads to no frame of a program but the caller's.
LEMMA OtherReach ==
  ASSUME Inv, ReachInv, OtherSteps \/ Keep
  PROVE  ReachInv'
<1>a. /\ TypeOK /\ PidsInUse /\ UserPage /\ Kept
      /\ NoPrograms /\ Images /\ Closed /\ VideoPage
  BY DEF Inv, ReachInv
<1>b. UNCHANGED tables
  BY DEF OtherSteps, FlushSteps, Keep, LoadCopy, LoadFlush, HaltFlush, VidmapFlush,
         VidmapRefused, VidmapCall, HungLoop, vars
<1>c. NoPrograms' /\ Closed'
  BY <1>a, <1>b DEF NoPrograms, Closed, tables
<1>d. VideoPage'
  <2>1. CASE VidmapFlush
    BY <2>1, <1>a, <1>b DEF VidmapFlush, At, VideoPage, tables
  <2>2. CASE ~VidmapFlush
    BY <2>2, <1>a, <1>b DEF OtherSteps, FlushSteps, Keep, LoadCopy, LoadFlush, HaltFlush,
         VidmapRefused, VidmapCall, HungLoop, vars, At, VideoPage, tables, VidmapSteps
  <2> QED
    BY <2>1, <2>2
<1>e. pid_check' = pid_check /\ pid_check \subseteq Pids
  BY <1>a DEF OtherSteps, FlushSteps, Keep, LoadCopy, LoadFlush, HaltFlush, VidmapFlush,
         VidmapRefused, VidmapCall, HungLoop, vars, procs, TypeOK
<1>1. CASE LoadCopy
  <2>1. new_pid \in Pids /\ DT["user"] = ProgramEntry(new_pid) /\ tlb \subseteq Walks
    BY <1>1, <1>a DEF LoadCopy, At, PidsInUse, UserPage, Kept, LoadSteps
  <2>2. \A t \in Usable("user") : t.frame = PageOf(new_pid)
    BY <2>1 DEF Usable, Walks, Walk, Final, SmallPages, ProgramEntry
  <2>3. image' = [image EXCEPT ![PageOf(new_pid)] = new_pid]
    BY <1>1, <2>2 DEF LoadCopy
  <2>4. \A p \in pid_check : image'[PageOf(p)] = p
    BY <2>1, <2>3, <1>a, <1>e, FramesApart, FramesFound DEF Images, TypeOK
  <2> QED
    BY <2>4, <1>c, <1>d, <1>e DEF ReachInv, Images
<1>2. CASE VidmapRefused
  <2>1. pc = "user" /\ tlb \subseteq Walks
    BY <1>2, <1>a DEF VidmapRefused, Kept
  <2>2. ASSUME NEW page \in VirtualPages \ {"user"}, NEW t \in Usable(page),
               NEW p \in Pids
        PROVE  t.frame # PageOf(p)
    <3>1. t.frame = Final(page).to
      BY <2>1 DEF Usable, Walks, Walk
    <3>2. Final(page).to # PageOf(p)
      BY <1>a DEF NoPrograms, Final, VirtualPages, BigPages, SmallPages
    <3> QED
      BY <3>1, <3>2
  <2>3. \A p \in pid_check : image'[PageOf(p)] = image[PageOf(p)]
    BY <1>2, <1>a, <1>e, <2>2, FramesFound DEF VidmapRefused, TypeOK
  <2> QED
    BY <2>1, <2>3, <1>a, <1>c, <1>d, <1>e DEF ReachInv, Images, LoadSteps
<1>3. CASE (OtherSteps /\ ~LoadCopy /\ ~VidmapRefused) \/ Keep
  <2>1. image' = image /\ (pc \in LoadSteps => pc' \in LoadSteps /\ new_pid' = new_pid)
    BY <1>3 DEF OtherSteps, FlushSteps, Keep, LoadFlush, HaltFlush, VidmapFlush,
         VidmapCall, HungLoop, vars, procs, At, LoadSteps
  <2> QED
    BY <2>1, <1>a, <1>c, <1>d, <1>e DEF ReachInv, Images
<1> QED
  BY <1>1, <1>2, <1>3 DEF OtherSteps

\* Every step keeps it.
LEMMA StepReach == Inv /\ ReachInv /\ [Next]_vars => ReachInv'
<1> SUFFICES ASSUME Inv, ReachInv, [Next]_vars PROVE ReachInv'
  OBVIOUS
<1>1. CASE UNCHANGED vars
  BY <1>1 DEF vars, tables, procs, ReachInv, NoPrograms, Images, Closed, VideoPage
<1> QED
  BY <1>1, BootReach, PidStepReach, StoreReach, OtherReach
  DEF Next, PidSteps, StoreSteps, EntrySteps, OtherSteps, FlushSteps

\* Loading a program, and whatever a refused vidmap() stores through, spares the
\* programs that wait, for any number of slots and terminals (execute(), vidmap()).
THEOREM ImagesAreKept == Spec => []ImagesKept
<1>1. ReachInv => ImagesKept
  BY DEF ReachInv, Images, ImagesKept, InUser, LoadSteps
<1> QED
  BY <1>1, InitInv, StepInv, InitReach, StepReach, PTL DEF Spec

\* A program reaches its own page and the screen, as long as no vidmap() was cut
\* short, for any number of slots and terminals (paging_init(), vidmap()).
THEOREM ReachIsBounded == Spec => []ReachIsOwnOrScreen
<1>1. Inv /\ ReachInv => ReachIsOwnOrScreen
  <2> SUFFICES ASSUME Inv, ReachInv, InUser, ~cut, NEW t \in tlb \cup Walks, t.us
               PROVE  t.frame \in {PageOf(running), Fixed("screen")}
    BY DEF ReachIsOwnOrScreen
  <2>1. PICK page \in VirtualPages : Mapped(page) /\ t = Walk(page)
    BY DEF Inv, Kept, InUser, Walks
  <2>2. t.frame = Final(page).to /\ Directed(page).p /\ Final(page).us
    BY <2>1 DEF Walk, Mapped
  <2>3. page \in {"user", "video"}
    BY <2>2 DEF ReachInv, Closed, Final, VirtualPages, BigPages, SmallPages
  <2>4. CASE page = "user"
    BY <2>2, <2>4 DEF Inv, UserPage, InUser, ProgramEntry, Final, SmallPages
  <2>5. CASE page = "video"
    <3>1. pc \notin VidmapSteps /\ cut = FALSE
      BY DEF InUser, VidmapSteps, Inv, TypeOK
    <3> QED
      BY <2>2, <2>5, <3>1 DEF ReachInv, VideoPage, Directed, Final, SmallPages
  <2> QED
    BY <2>3, <2>4, <2>5
<1> QED
  BY <1>1, InitInv, StepInv, InitReach, StepReach, PTL DEF Spec
=============================================================================
