------------------------------- MODULE Memory -------------------------------
(***************************************************************************)
(* Page tables: what paging.c and terminal_init() build at boot, the entry *)
(* execute() and halt() point at a program's 4MB page, and the pages       *)
(* vidmap() maps to the screen.  Without optimisation (Makefile) every     *)
(* |= on a table is a store of its own, and the CPU may look at the tables *)
(* between any two and keep the translation it finds: the TLB, which a     *)
(* load of CR3 empties, global entries too as CR4.PGE is never set.        *)
(*                                                                         *)
(* Addresses are known by what they lie in.  Of terminal switches only the *)
(* one that opens a terminal touches the tables: it runs execute() out of  *)
(* the keyboard interrupt, and what it interrupted never goes on.          *)
(***************************************************************************)
EXTENDS Integers, FiniteSets

CONSTANTS MAX_PROCESS_NUMBER, MAX_TERMINAL_SIZE

ASSUME MemoryAssumption ==
  MAX_PROCESS_NUMBER \in Nat \ {0} /\ MAX_TERMINAL_SIZE \in Nat \ {0}

Pids == 0..(MAX_PROCESS_NUMBER - 1)
NoPid == -1

\* The 4KB pages of the first 4MB, by what paging.c and terminal.c tell apart.
SmallPages == {"screen", "saved", "low"}
\* The 4MB pages; "video" is the one vidmap() fills with 4KB pages.
BigPages == {"kernel", "user", "other"}
VirtualPages == SmallPages \cup BigPages \cup {"video"}

\* Where pages lead: PageOf(pid) is the 4MB page at (2 + pid) << 22.
PageOf(pid) == [at |-> "program", pid |-> pid]
Fixed(at) == [at |-> at, pid |-> NoPid]
Frames == {PageOf(p) : p \in Pids}
            \cup {Fixed(at) : at \in SmallPages \cup {"kernel", "zero"}}

VARIABLES
  DT,          \* page directory: [p, us, to] by the page it is about
  PT,          \* page table of the first 4MB
  PT_VIDMEM,   \* entry 0 of vidmap()'s table
  tlb,         \* the translations the CPU has kept
  image,       \* by frame: the pid whose program was loaded there last
  pid_check,   \* the slots taken
  parent_pid,
  running,
  new_pid,
  opened,      \* the terminals opened
  pc,
  cut          \* history: a terminal was opened in the middle of vidmap()

tables == <<DT, PT, PT_VIDMEM>>
procs == <<pid_check, parent_pid, running, new_pid, opened>>
vars == <<tables, tlb, image, procs, pc, cut>>

LoadSteps == {"load_clear", "load_mask", "load_address", "load_flush",
              "load_copy"}
HaltSteps == {"halt_free", "halt_test", "halt_clear", "halt_mask", "halt_address",
              "halt_flush"}
VidmapSteps == {"vidmap_clear", "vidmap_clear_entry", "vidmap_table",
                "vidmap_present", "vidmap_user", "vidmap_entry_present",
                "vidmap_entry_user", "vidmap_entry_address", "vidmap_flush"}
BootSteps == {"paging_init", "terminal_init", "first"}
Steps == {"user", "hung"} \cup BootSteps \cup LoadSteps \cup HaltSteps
           \cup VidmapSteps

Entry == [p : BOOLEAN, us : BOOLEAN, to : Frames]
DirectoryEntry == [p : BOOLEAN, us : BOOLEAN,
                   to : Frames \cup {Fixed("PT"), Fixed("PT_VIDMEM")}]
Directory == {"first", "kernel", "user", "video", "other"}
Translation == [page : VirtualPages, us : BOOLEAN, frame : Frames]

TypeOK ==
  /\ DT \in [Directory -> DirectoryEntry]
  /\ PT \in [SmallPages -> Entry]
  /\ PT_VIDMEM \in Entry
  /\ tlb \subseteq Translation
  /\ image \in [Frames -> Pids \cup {NoPid}]
  /\ pid_check \subseteq Pids
  /\ parent_pid \in [Pids -> Pids \cup {NoPid}]
  /\ running \in Pids \cup {NoPid} /\ new_pid \in Pids \cup {NoPid}
  /\ opened \in 1..MAX_TERMINAL_SIZE
  /\ pc \in Steps
  /\ cut \in BOOLEAN

Clear == [p |-> FALSE, us |-> FALSE, to |-> Fixed("zero")]

\* Before paging is on; what the tables hold then is never looked at.
Init ==
  /\ DT = [d \in Directory |-> Clear]
  /\ PT = [page \in SmallPages |-> Clear]
  /\ PT_VIDMEM = Clear
  /\ tlb = {}
  /\ image = [f \in Frames |-> NoPid]
  /\ pid_check = {}
  /\ parent_pid = [p \in Pids |-> NoPid]
  /\ running = NoPid /\ new_pid = NoPid
  /\ opened = 1
  /\ pc = "paging_init"
  /\ cut = FALSE

------------------------------------------------------------------------------
(* The CPU                                                                 *)

\* The entries the CPU goes through for a page.
Directed(page) == IF page \in SmallPages THEN DT["first"] ELSE DT[page]
Final(page) == IF page \in SmallPages THEN PT[page]
               ELSE IF page = "video" THEN PT_VIDMEM ELSE DT[page]

Mapped(page) == Directed(page).p /\ Final(page).p

Walk(page) == [page |-> page, us |-> Directed(page).us /\ Final(page).us,
               frame |-> Final(page).to]

\* Unmapped pages are not kept.
Walks == {Walk(page) : page \in {v \in VirtualPages : Mapped(v)}}

\* An access goes by what is kept, or, as that may be dropped at any time, by
\* the tables.
Usable(page) == {t \in tlb \cup Walks : t.page = page}

PagingOn == pc # "paging_init"

\* At any time, also ahead of an access that is never made.
Keep ==
  /\ PagingOn
  /\ \E t \in Walks : tlb' = tlb \cup {t}
  /\ UNCHANGED <<tables, image, procs, pc, cut>>

At(from, to) == pc = from /\ pc' = to

\* tlb_flash().
Flush == tlb' = {}

------------------------------------------------------------------------------
(* The boot                                                                *)

\* Mutant: every page of the first 4MB is open to programs.
PT_init_User(page) == [p |-> page = "screen", us |-> TRUE, to |-> Fixed(page)]

PT_init(page) == [p |-> page = "screen", us |-> FALSE, to |-> Fixed(page)]

DT_init(d) ==
  CASE d = "first" -> [p |-> TRUE, us |-> TRUE, to |-> Fixed("PT")]
    [] d = "kernel" -> [p |-> TRUE, us |-> FALSE, to |-> Fixed("kernel")]
    [] OTHER -> [p |-> FALSE, us |-> FALSE, to |-> Fixed("kernel")]

paging_init ==
  /\ At("paging_init", "terminal_init")
  /\ PT' = [page \in SmallPages |-> PT_init(page)]
  /\ DT' = [d \in Directory |-> DT_init(d)]
  /\ UNCHANGED <<PT_VIDMEM, tlb, image, procs, cut>>

terminal_init ==
  /\ At("terminal_init", "first")
  /\ PT' = [PT EXCEPT !["saved"].p = TRUE]
  /\ Flush
  /\ UNCHANGED <<DT, PT_VIDMEM, image, procs, cut>>

------------------------------------------------------------------------------
(* execute(), with interrupts off                                          *)

\* Mutant: the table's end is not looked at.
Free_Beyond == (0..MAX_PROCESS_NUMBER) \ pid_check

Free == Pids \ pid_check

\* The slot is taken and the tables are about to be set.
Allocate(parent) ==
  /\ \E new \in Free :
       /\ \A other \in Free : new <= other
       /\ pid_check' = pid_check \cup {new}
       /\ parent_pid' = [parent_pid EXCEPT ![new] = parent]
       /\ new_pid' = new
  /\ pc' = "load_clear"
  /\ UNCHANGED <<tables, tlb, image, running>>

First == pc = "first" /\ Allocate(NoPid) /\ UNCHANGED <<opened, cut>>

\* A program that cannot be loaded changes nothing.
Execute == pc = "user" /\ Allocate(running) /\ UNCHANGED <<opened, cut>>

Store(d, entry) ==
  /\ DT' = [DT EXCEPT ![d] = entry]
  /\ UNCHANGED <<PT, PT_VIDMEM, tlb, image, procs, cut>>

\* DT[pd_index] |= PD_MASK.
Masked(entry) == [entry EXCEPT !.p = TRUE, !.us = TRUE]

\* DT[pd_index] |= pd_addr << 22, over an address of 0.
Aimed(entry, pid) == [entry EXCEPT !.to = PageOf(pid)]

LoadClear == At("load_clear", "load_mask") /\ Store("user", Clear)
LoadMask == At("load_mask", "load_address") /\ Store("user", Masked(DT["user"]))
LoadAddress ==
  At("load_address", "load_flush") /\ Store("user", Aimed(DT["user"], new_pid))

\* Mutant: tlb_flash() is missing.
LoadFlush_Dropped ==
  At("load_flush", "load_copy") /\ UNCHANGED <<tables, tlb, image, procs, cut>>

LoadFlush ==
  /\ At("load_flush", "load_copy")
  /\ Flush
  /\ UNCHANGED <<tables, image, procs, cut>>

\* The program is copied to where the user page leads, and started.
LoadCopy ==
  /\ At("load_copy", "user")
  /\ \E t \in Usable("user") : image' = [image EXCEPT ![t.frame] = new_pid]
  /\ running' = new_pid
  /\ new_pid' = NoPid
  /\ UNCHANGED <<tables, tlb, pid_check, parent_pid, opened, cut>>

------------------------------------------------------------------------------
(* halt()                                                                  *)

HaltCall ==
  At("user", "halt_free") /\ UNCHANGED <<tables, tlb, image, procs, cut>>

HaltFree ==
  /\ At("halt_free", "halt_test")
  /\ pid_check' = pid_check \ {running}
  /\ UNCHANGED <<tables, tlb, image, parent_pid, running, new_pid, opened, cut>>

\* With a parent, on to the parent's page; without, a new shell in a slot that
\* is free since the last statement.
HaltTest ==
  /\ pc = "halt_test"
  /\ \/ /\ parent_pid[running] # NoPid
        /\ pc' = "halt_clear"
        /\ UNCHANGED <<tables, tlb, image, procs, cut>>
     \/ /\ parent_pid[running] = NoPid
        /\ Allocate(NoPid)
        /\ UNCHANGED <<opened, cut>>

HaltClear == At("halt_clear", "halt_mask") /\ Store("user", Clear)
HaltMask == At("halt_mask", "halt_address") /\ Store("user", Masked(DT["user"]))
HaltAddress ==
  /\ At("halt_address", "halt_flush")
  /\ Store("user", Aimed(DT["user"], parent_pid[running]))

\* Mutant: tlb_flash() is missing.
HaltFlush_Dropped ==
  /\ At("halt_flush", "user")
  /\ running' = parent_pid[running]
  /\ UNCHANGED <<tables, tlb, image, pid_check, parent_pid, new_pid, opened,
                 cut>>

\* ... and back to the parent; the rest of halt() is no matter of memory.
HaltFlush ==
  /\ At("halt_flush", "user")
  /\ Flush
  /\ running' = parent_pid[running]
  /\ UNCHANGED <<tables, image, pid_check, parent_pid, new_pid, opened, cut>>

------------------------------------------------------------------------------
(* vidmap()                                                                *)

\* The pointer is stored through before its bounds are checked: into the kernel,
\* the screen or wherever it leads, or, if that is not mapped, a page fault.  What
\* becomes of a kernel so overwritten is not followed.  NULL changes nothing.
VidmapRefused ==
  /\ pc = "user"
  /\ \E page \in VirtualPages \ {"user"} :
       \/ Usable(page) = {} /\ pc' = "hung" /\ UNCHANGED image
       \/ \E t \in Usable(page) :
            image' = [image EXCEPT ![t.frame] = NoPid] /\ UNCHANGED pc
  /\ UNCHANGED <<tables, tlb, procs, cut>>

VidmapCall ==
  At("user", "vidmap_clear") /\ UNCHANGED <<tables, tlb, image, procs, cut>>

StoreEntry(entry) ==
  PT_VIDMEM' = entry /\ UNCHANGED <<DT, PT, tlb, image, procs, cut>>

VidmapClear == At("vidmap_clear", "vidmap_clear_entry") /\ Store("video", Clear)
VidmapClearEntry ==
  At("vidmap_clear_entry", "vidmap_table") /\ StoreEntry(Clear)
VidmapTable ==
  /\ At("vidmap_table", "vidmap_present")
  /\ Store("video", [DT["video"] EXCEPT !.to = Fixed("PT_VIDMEM")])
VidmapPresent ==
  /\ At("vidmap_present", "vidmap_user")
  /\ Store("video", [DT["video"] EXCEPT !.p = TRUE])
VidmapUser ==
  /\ At("vidmap_user", "vidmap_entry_present")
  /\ Store("video", [DT["video"] EXCEPT !.us = TRUE])
VidmapEntryPresent ==
  /\ At("vidmap_entry_present", "vidmap_entry_user")
  /\ StoreEntry([PT_VIDMEM EXCEPT !.p = TRUE])
VidmapEntryUser ==
  /\ At("vidmap_entry_user", "vidmap_entry_address")
  /\ StoreEntry([PT_VIDMEM EXCEPT !.us = TRUE])

VidmapEntryAddress ==
  /\ At("vidmap_entry_address", "vidmap_flush")
  /\ StoreEntry([PT_VIDMEM EXCEPT !.to = Fixed("screen")])

\* Mutant: tlb_flash() is missing.
VidmapFlush_Dropped ==
  /\ At("vidmap_flush", "user")
  /\ cut' = FALSE
  /\ UNCHANGED <<tables, tlb, image, procs>>

VidmapFlush ==
  /\ At("vidmap_flush", "user")
  /\ Flush
  /\ cut' = FALSE
  /\ UNCHANGED <<tables, image, procs>>

------------------------------------------------------------------------------
(* The keyboard interrupt                                                  *)

\* Alt-Fn on a terminal that has no program yet.
OpenTerminal ==
  /\ pc \in {"user"} \cup HaltSteps \cup VidmapSteps
  /\ opened < MAX_TERMINAL_SIZE
  /\ opened' = opened + 1
  /\ Allocate(NoPid)
  /\ cut' = (cut \/ pc \in VidmapSteps)

\* An exception handler's while(1).
HungLoop == pc = "hung" /\ UNCHANGED vars

Next ==
  \/ Keep
  \/ paging_init \/ terminal_init \/ First
  \/ Execute \/ LoadClear \/ LoadMask \/ LoadAddress \/ LoadFlush \/ LoadCopy
  \/ HaltCall \/ HaltFree \/ HaltTest
  \/ HaltClear \/ HaltMask \/ HaltAddress \/ HaltFlush
  \/ VidmapRefused \/ VidmapCall
  \/ VidmapClear \/ VidmapClearEntry \/ VidmapTable \/ VidmapPresent
  \/ VidmapUser \/ VidmapEntryPresent \/ VidmapEntryUser \/ VidmapEntryAddress \/ VidmapFlush
  \/ OpenTerminal \/ HungLoop

Spec == Init /\ [][Next]_vars
------------------------------------------------------------------------------
(* Properties                                                              *)

InUser == pc = "user"

\* Every change of the tables is flushed before a program goes on, also when a
\* terminal is opened in the middle of it: whatever the CPU has kept is in the
\* tables as they are.
TlbCoherent == InUser => tlb \subseteq Walks

\* A program finds its own 4MB page, and no other, where programs live.
RunsOnOwnPage ==
  InUser =>
    Usable("user") = {[page |-> "user", us |-> TRUE, frame |-> PageOf(running)]}

\* As long as no vidmap() has been cut short by opening a terminal, all that is
\* open to a program is its own page and the screen.
ReachIsOwnOrScreen ==
  InUser /\ ~cut =>
    \A t \in tlb \cup Walks : t.us => t.frame \in {PageOf(running), Fixed("screen")}

\* Loading a program overwrites no program that waits: each frame in use holds
\* the program it was given to.
ImagesKept == InUser => \A p \in pid_check : image[PageOf(p)] = p
=============================================================================
