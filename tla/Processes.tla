------------------------------ MODULE Processes ------------------------------
(***************************************************************************)
(* Process control in the kernel: the pid table, the process control       *)
(* blocks, execute() and halt() of scall.c, and the Alt-Fn terminal switch *)
(* of terminal.c, which the keyboard interrupt runs between any two        *)
(* statements of a system call.                                            *)
(*                                                                         *)
(* execute() runs between cli() and the IRET into the new program, so it   *)
(* is one step.  halt() is reached through a trap gate (idt.c), which      *)
(* leaves interrupts enabled, and has no cli(): it is one step per         *)
(* statement, and a key press may come between any two.                    *)
(*                                                                         *)
(* A PCB is named by the pid whose slot it fills; NoPid stands for -1, and *)
(* for the address END_OF_KERNEL that -1 gives as a PCB pointer, which no  *)
(* page maps: using it is a page fault, and every exception handler loops  *)
(* for ever (idt.c) with interrupts still enabled.                         *)
(***************************************************************************)
EXTENDS Integers, FiniteSets

CONSTANTS
  MAX_PROCESS_NUMBER,   \* entries of pid_check
  MAX_TERMINAL_SIZE,    \* entries of terminal_array
  Statuses,             \* the values programs pass to halt()
  SwitchKinds           \* the kinds of terminal switch the user makes, beside
                        \* opening a terminal while a slot is free

ASSUME ProcessesAssumption ==
  /\ MAX_PROCESS_NUMBER \in Nat \ {0}
  /\ MAX_TERMINAL_SIZE \in Nat \ {0}
  /\ Statuses \subseteq 0..255
  /\ SwitchKinds \subseteq {"live", "full", "in_halt"}

Pids == 0..(MAX_PROCESS_NUMBER - 1)
NoPid == -1
Terminals == 0..(MAX_TERMINAL_SIZE - 1)

EXCEPTION_STATUS == 15
ExceptionResult == 256

VARIABLES
  pid_check,            \* [Pids -> BOOLEAN]: the slot is taken
  cur_pid,
  cur_process_ptr,      \* the pid whose PCB it points to
  filed_array,          \* the pid whose PCB holds the array it points to
  parent_pid,           \* PCB field, per pid
  scheduled,            \* PCB fields scheduled_esp and scheduled_ebp, per pid:
                        \* the context they lead back to
  user_page,            \* DT[USER_MEM >> 22]: whose 4MB page is mapped
  tss_esp0,             \* whose kernel stack the next trap uses
  terminal_pid,         \* terminal_array[].current_process_id
  current_terminal_id,
  running,              \* whose user registers the CPU will go back to
  pc,                   \* what the CPU is doing
  parentpid,            \* halt()'s local variable
  status,               \* halt()'s argument
  eax,                  \* what execute() returned, until the next call
  switched              \* history: the kinds of terminal switch made so far

pcbVars == <<parent_pid, scheduled>>
cpuVars == <<user_page, tss_esp0, running>>
vars == <<pid_check, cur_pid, cur_process_ptr, filed_array, pcbVars, cpuVars,
          terminal_pid, current_terminal_id, pc, parentpid, status, eax,
          switched>>

\* The statements of halt(), each named for what the next step does.
HaltSteps == {"halt_free", "halt_parent", "halt_test", "halt_base",
              "halt_shell", "halt_tss", "halt_paging", "halt_fdarray",
              "halt_pid", "halt_ptr", "halt_return"}

\* "boot" is the kernel between sti() and its first execute(); "user" a
\* program, or a system call of it other than the two modelled here; "hung"
\* an exception handler's endless loop.
Steps == {"boot", "user", "hung"} \cup HaltSteps

\* Where a return through scheduled_esp/ebp leads: the process whose execute()
\* call is resumed, what that call returns to and halt()'s local there.
Contexts == [proc : Pids \cup {NoPid}, pc : {"user", "halt_tss", "hung"},
             parentpid : Pids \cup {NoPid}]
Unsaved == [proc |-> NoPid, pc |-> "hung", parentpid |-> NoPid]
ThisContext == [proc |-> running,
                pc |-> IF pc = "user" THEN "user" ELSE "halt_tss",
                parentpid |-> parentpid]

TypeOK ==
  /\ pid_check \in [Pids -> BOOLEAN]
  /\ {cur_pid, cur_process_ptr, filed_array, user_page, tss_esp0, running,
      parentpid} \subseteq Pids \cup {NoPid}
  /\ parent_pid \in [Pids -> Pids \cup {NoPid}]
  /\ scheduled \in [Pids -> Contexts]
  /\ terminal_pid \in [Terminals -> Pids \cup {NoPid}]
  /\ current_terminal_id \in Terminals
  /\ pc \in Steps
  /\ status \in Statuses \cup {0}
  /\ eax \in -1..ExceptionResult
  /\ switched \subseteq SwitchKinds

Init ==
  /\ pid_check = [p \in Pids |-> FALSE]
  /\ cur_pid = NoPid
  /\ cur_process_ptr = NoPid
  /\ filed_array = NoPid
  /\ parent_pid = [p \in Pids |-> NoPid]
  /\ scheduled = [p \in Pids |-> Unsaved]
  /\ user_page = NoPid
  /\ tss_esp0 = NoPid
  /\ terminal_pid = [t \in Terminals |-> NoPid]
  /\ current_terminal_id = 0
  /\ running = NoPid
  /\ pc = "boot"
  /\ parentpid = NoPid
  /\ status = 0
  /\ eax = 0
  /\ switched = {}

------------------------------------------------------------------------------
(* execute()                                                               *)

TableFull == \A p \in Pids : pid_check[p]

\* The allocation loop takes the lowest free slot.
LowestFree(p) == ~pid_check[p] /\ \A q \in Pids : q < p => pid_check[q]

\* From the allocation to the IRET, for a program that could be loaded.  It
\* reads cur_pid and the terminal's pid after a terminal switch has set them,
\* hence the arguments: me is cur_pid, t the current terminal and tp the pid
\* every terminal records.  Frames that the slot's last owner left on the kernel
\* stack are overwritten.
Load(me, t, tp) ==
  \E new \in Pids :
    LET par == IF tp[t] = NoPid THEN NoPid ELSE me IN
      /\ LowestFree(new)
      /\ pid_check' = [pid_check EXCEPT ![new] = TRUE]
      /\ parent_pid' = [parent_pid EXCEPT ![new] = par]
      /\ scheduled' = [p \in Pids |->
                         IF p = par THEN ThisContext
                         ELSE IF scheduled[p].proc = new THEN Unsaved
                         ELSE scheduled[p]]
      /\ filed_array' = new
      /\ cur_process_ptr' = new
      /\ cur_pid' = new
      /\ terminal_pid' = [tp EXCEPT ![t] = new]
      /\ user_page' = new
      /\ tss_esp0' = new
      /\ running' = new
      /\ pc' = "user"
      /\ parentpid' = NoPid
      /\ status' = 0
      /\ eax' = 0

\* kernel.c's only call, once interrupts are enabled.
Boot ==
  /\ pc = "boot"
  /\ Load(cur_pid, current_terminal_id, terminal_pid)
  /\ UNCHANGED <<current_terminal_id, switched>>

\* A program runs another one.
Execute ==
  /\ pc = "user"
  /\ Load(cur_pid, current_terminal_id, terminal_pid)
  /\ UNCHANGED <<current_terminal_id, switched>>

\* The command is empty, too long, not a file or not an executable, or every
\* slot is taken: -1, before anything is changed.
ExecuteFails ==
  /\ pc = "user"
  /\ eax' = -1
  /\ UNCHANGED <<pid_check, cur_pid, cur_process_ptr, filed_array, pcbVars,
                 cpuVars, terminal_pid, current_terminal_id, pc, parentpid,
                 status, switched>>

\* A program raises an exception; the handler prints its name and loops.
RaiseException ==
  /\ pc = "user"
  /\ pc' = "hung"
  /\ UNCHANGED <<pid_check, cur_pid, cur_process_ptr, filed_array, pcbVars,
                 cpuVars, terminal_pid, current_terminal_id, parentpid,
                 status, eax, switched>>

\* The handler's while(1).
HungLoop ==
  /\ pc = "hung"
  /\ UNCHANGED vars

------------------------------------------------------------------------------
(* halt(), one action per statement                                        *)

At(from, to) == pc = from /\ pc' = to

HaltCall ==
  /\ At("user", "halt_free")
  /\ status' \in Statuses
  /\ eax' = 0
  /\ UNCHANGED <<pid_check, cur_pid, cur_process_ptr, filed_array, pcbVars,
                 cpuVars, terminal_pid, current_terminal_id, parentpid,
                 switched>>

\* Mutant: the statement is missing.
HaltFree_Dropped ==
  /\ At("halt_free", "halt_parent")
  /\ UNCHANGED <<pid_check, cur_pid, cur_process_ptr, filed_array, pcbVars, cpuVars,
                 terminal_pid, current_terminal_id, parentpid, status, eax,
                 switched>>

\* pid_check[-1] lies outside the table: no slot changes.
HaltFree ==
  /\ At("halt_free", "halt_parent")
  /\ pid_check' = [p \in Pids |-> p # cur_pid /\ pid_check[p]]
  /\ UNCHANGED <<cur_pid, cur_process_ptr, filed_array, pcbVars, cpuVars,
                 terminal_pid, current_terminal_id, parentpid, status, eax,
                 switched>>

HaltParent ==
  /\ pc = "halt_parent"
  /\ IF cur_process_ptr = NoPid
     THEN pc' = "hung" /\ UNCHANGED parentpid
     ELSE pc' = "halt_test" /\ parentpid' = parent_pid[cur_process_ptr]
  /\ UNCHANGED <<pid_check, cur_pid, cur_process_ptr, filed_array, pcbVars,
                 cpuVars, terminal_pid, current_terminal_id, status, eax,
                 switched>>

\* The test reads the field again.
HaltTest ==
  /\ pc = "halt_test"
  /\ pc' = IF cur_process_ptr = NoPid THEN "hung"
           ELSE IF parent_pid[cur_process_ptr] = NoPid THEN "halt_base"
           ELSE "halt_tss"
  /\ UNCHANGED <<pid_check, cur_pid, cur_process_ptr, filed_array, pcbVars,
                 cpuVars, terminal_pid, current_terminal_id, parentpid,
                 status, eax, switched>>

\* Mutant: the shell is told that it cannot halt, and halts again.
HaltBase_Refused ==
  /\ At("halt_base", "halt_free")
  /\ UNCHANGED <<pid_check, cur_pid, cur_process_ptr, filed_array, pcbVars,
                 cpuVars, terminal_pid, current_terminal_id, parentpid, status,
                 eax, switched>>

\* The first program of a terminal: a new shell takes its place.
HaltBase ==
  /\ At("halt_base", "halt_shell")
  /\ cur_pid' = NoPid
  /\ UNCHANGED <<pid_check, cur_process_ptr, filed_array, pcbVars, cpuVars,
                 terminal_pid, current_terminal_id, parentpid, status, eax,
                 switched>>

HaltShell ==
  /\ pc = "halt_shell"
  /\ Load(cur_pid, current_terminal_id, terminal_pid)
  /\ UNCHANGED <<current_terminal_id, switched>>

\* When that execute() fails, halt() goes on as if there were a parent.  Its
\* cli() leaves interrupts off for the rest of halt(); the model, which admits
\* switches there too, allows more than the code.
HaltShellFails ==
  /\ TableFull
  /\ At("halt_shell", "halt_tss")
  /\ UNCHANGED <<pid_check, cur_pid, cur_process_ptr, filed_array, pcbVars,
                 cpuVars, terminal_pid, current_terminal_id, parentpid,
                 status, eax, switched>>

HaltTss ==
  /\ pc = "halt_tss"
  /\ IF parentpid = NoPid
     THEN pc' = "hung" /\ UNCHANGED tss_esp0
     ELSE pc' = "halt_paging" /\ tss_esp0' = parentpid
  /\ UNCHANGED <<pid_check, cur_pid, cur_process_ptr, filed_array, pcbVars,
                 user_page, running, terminal_pid, current_terminal_id,
                 parentpid, status, eax, switched>>

\* Mutant: the statement is missing.
HaltPaging_Dropped ==
  /\ At("halt_paging", "halt_fdarray")
  /\ UNCHANGED <<pid_check, cur_pid, cur_process_ptr, filed_array, pcbVars, cpuVars,
                 terminal_pid, current_terminal_id, parentpid, status, eax,
                 switched>>

HaltPaging ==
  /\ At("halt_paging", "halt_fdarray")
  /\ user_page' = parentpid
  /\ UNCHANGED <<pid_check, cur_pid, cur_process_ptr, filed_array, pcbVars,
                 tss_esp0, running, terminal_pid, current_terminal_id,
                 parentpid, status, eax, switched>>

\* Mutant: the statement is missing.
HaltFdArray_Dropped ==
  /\ At("halt_fdarray", "halt_pid")
  /\ UNCHANGED <<pid_check, cur_pid, cur_process_ptr, filed_array, pcbVars, cpuVars,
                 terminal_pid, current_terminal_id, parentpid, status, eax,
                 switched>>

\* The descriptors are closed, then the array becomes the parent's.
HaltFdArray ==
  /\ At("halt_fdarray", "halt_pid")
  /\ filed_array' = parentpid
  /\ UNCHANGED <<pid_check, cur_pid, cur_process_ptr, pcbVars, cpuVars,
                 terminal_pid, current_terminal_id, parentpid, status, eax,
                 switched>>

HaltPid ==
  /\ At("halt_pid", "halt_ptr")
  /\ cur_pid' = parentpid
  /\ UNCHANGED <<pid_check, cur_process_ptr, filed_array, pcbVars, cpuVars,
                 terminal_pid, current_terminal_id, parentpid, status, eax,
                 switched>>

\* Mutant: the statement is missing.
HaltPtr_Dropped ==
  /\ At("halt_ptr", "halt_return")
  /\ UNCHANGED <<pid_check, cur_pid, cur_process_ptr, filed_array, pcbVars, cpuVars,
                 terminal_pid, current_terminal_id, parentpid, status, eax,
                 switched>>

HaltPtr ==
  /\ At("halt_ptr", "halt_return")
  /\ cur_process_ptr' = parentpid
  /\ UNCHANGED <<pid_check, cur_pid, filed_array, pcbVars, cpuVars,
                 terminal_pid, current_terminal_id, parentpid, status, eax,
                 switched>>

\* Mutant: the exception bit is set on every result.
HaltResult_Flagged(s) == ExceptionResult + s

HaltResult(s) == IF s = EXCEPTION_STATUS THEN ExceptionResult ELSE s

\* leave; ret through the stack pointers of cur_process_ptr, which uses up the
\* frame they lead to.  The frame of another process than cur_process_ptr may
\* have been overwritten since: the return resumes that process or faults.
HaltReturn ==
  /\ pc = "halt_return"
  /\ LET to == IF cur_process_ptr = NoPid THEN Unsaved
                                          ELSE scheduled[cur_process_ptr] IN
       \/ /\ to # Unsaved
          /\ pc' = to.pc
          /\ running' = to.proc
          /\ parentpid' = to.parentpid
          /\ eax' = HaltResult(status)
          /\ scheduled' = [scheduled EXCEPT ![cur_process_ptr] = Unsaved]
       \/ /\ to.proc # cur_process_ptr \/ to = Unsaved
          /\ pc' = "hung"
          /\ UNCHANGED <<running, parentpid, eax, scheduled>>
  /\ status' = 0
  /\ UNCHANGED <<pid_check, cur_pid, cur_process_ptr, filed_array, parent_pid,
                 user_page, tss_esp0, terminal_pid, current_terminal_id,
                 switched>>

Halt ==
  \/ HaltCall \/ HaltFree \/ HaltParent \/ HaltTest \/ HaltBase
  \/ HaltShell \/ HaltShellFails \/ HaltTss \/ HaltPaging \/ HaltFdArray
  \/ HaltPid \/ HaltPtr \/ HaltReturn

------------------------------------------------------------------------------
(* terminal_switch(), in the keyboard interrupt                            *)

\* Mutant: save_terminal() forgets the pid.
SavedPids_Stale == terminal_pid

\* save_terminal(current_terminal_id) as far as processes go.
SavedPids == [terminal_pid EXCEPT ![current_terminal_id] = cur_pid]

InHalt == IF pc \in HaltSteps THEN {"in_halt"} ELSE {}

Switched(kinds) == kinds \subseteq SwitchKinds /\ switched' = switched \cup kinds

\* Mutant: restore_terminal() leaves cur_process_ptr alone.
SwitchToLive_PidOnly(t) ==
  /\ t # current_terminal_id
  /\ terminal_pid[t] # NoPid
  /\ terminal_pid' = SavedPids
  /\ cur_pid' = terminal_pid[t]
  /\ current_terminal_id' = t
  /\ Switched({"live"} \cup InHalt)
  /\ UNCHANGED <<pid_check, cur_process_ptr, filed_array, pcbVars, cpuVars, pc,
                 parentpid, status, eax>>

\* restore_terminal() makes the terminal's process current; what the CPU runs,
\* its page, its stack and its descriptors stay those of the other terminal.
SwitchToLive(t) ==
  /\ t # current_terminal_id
  /\ terminal_pid[t] # NoPid
  /\ terminal_pid' = SavedPids
  /\ cur_pid' = terminal_pid[t]
  /\ cur_process_ptr' = terminal_pid[t]
  /\ current_terminal_id' = t
  /\ Switched({"live"} \cup InHalt)
  /\ UNCHANGED <<pid_check, filed_array, pcbVars, cpuVars, pc, parentpid,
                 status, eax>>

\* A terminal without a process gets a shell; the interrupted computation is
\* never resumed.
SwitchToFresh(t) ==
  /\ t # current_terminal_id
  /\ terminal_pid[t] = NoPid
  /\ Load(NoPid, t, SavedPids)
  /\ current_terminal_id' = t
  /\ Switched(InHalt)

\* ... unless the table is full: then the interrupted computation goes on with
\* no current process.
SwitchToFreshFails(t) ==
  /\ t # current_terminal_id
  /\ terminal_pid[t] = NoPid
  /\ TableFull
  /\ terminal_pid' = SavedPids
  /\ cur_pid' = NoPid
  /\ cur_process_ptr' = NoPid
  /\ current_terminal_id' = t
  /\ Switched({"full"} \cup InHalt)
  /\ UNCHANGED <<pid_check, filed_array, pcbVars, cpuVars, pc, parentpid,
                 status, eax>>

TerminalSwitch ==
  \E t \in Terminals :
    SwitchToLive(t) \/ SwitchToFresh(t) \/ SwitchToFreshFails(t)

------------------------------------------------------------------------------
Next ==
  \/ Boot \/ Execute \/ ExecuteFails \/ RaiseException \/ HungLoop
  \/ Halt
  \/ TerminalSwitch

\* The CPU keeps executing the kernel's statements: an interrupt handler always
\* ends, or starts a program.  Nothing obliges a program to run another, to
\* halt, or a user to press a key.
Fairness == WF_vars(Boot \/ (Halt /\ ~HaltCall))

Spec == Init /\ [][Next]_vars /\ Fairness

------------------------------------------------------------------------------
(* Properties                                                              *)

InUser == pc = "user"
Occupied == {p \in Pids : pid_check[p]}

\* Whatever switches the user makes, and whenever, a program runs on the page,
\* the kernel stack and the descriptors of one and the same process: execute()
\* sets the three together and halt() takes the three from its local
\* variables, which no interrupt can change.
PageStackAndFilesAgree ==
  InUser => user_page = tss_esp0 /\ tss_esp0 = filed_array

\* As long as the user has only opened new terminals with a free slot, and not
\* during a halt(), everything the kernel calls current is the one process
\* whose registers the CPU holds, and its slot is taken.
OneCurrentProcess ==
  InUser /\ switched = {} =>
    /\ {cur_pid, cur_process_ptr, filed_array, user_page, tss_esp0} = {running}
    /\ running \in Occupied

\* The process at the top of each terminal: the running terminal's is cur_pid,
\* as terminal_array is only brought up to date by a switch.
Top(t) == IF t = current_terminal_id THEN cur_pid ELSE terminal_pid[t]

\* A process that is halting keeps its place until cur_pid is its parent.
HoldsSlot(p) == pid_check[p] \/ (p = cur_pid /\ pc \in HaltSteps)
Holders == {p \in Pids : HoldsSlot(p)}

\* Processes held, with parents par and tops of terminals top, form one chain
\* per terminal: every one of them is either the top of exactly one terminal
\* or waits for exactly one child, and its parent is held too.
Nested(top, held, par) ==
  /\ \A t \in Terminals : top[t] \in held \cup {NoPid}
  /\ \A t, u \in Terminals : t # u /\ top[t] = top[u] => top[t] = NoPid
  /\ \A p \in held :
       LET Children == {q \in held : par[q] = p} IN
         /\ par[p] \in held \cup {NoPid}
         /\ IF \E t \in Terminals : top[t] = p
            THEN Children = {}
            ELSE \E child \in held : Children = {child}

\* No slot is lost and none is shared, however the user switches between
\* terminals outside halt(), with the table full or not.
NoSlotLostOrShared ==
  "in_halt" \notin switched =>
    Nested([t \in Terminals |-> Top(t)], Holders, parent_pid)

\* What keeps them so: what each statement of halt() may rely on, as long as no
\* switch has come in between.
HaltInv ==
  /\ pc = "boot" => \A t \in Terminals : terminal_pid[t] = NoPid
  /\ pc \notin {"halt_shell", "halt_ptr"} => cur_pid = cur_process_ptr
  /\ pc \in {"halt_parent", "halt_test", "halt_base", "halt_tss", "halt_paging",
             "halt_fdarray", "halt_pid"} /\ cur_pid # NoPid =>
       ~pid_check[cur_pid]
  /\ pc \in {"halt_test", "halt_base", "halt_tss", "halt_paging",
             "halt_fdarray", "halt_pid"} =>
       cur_pid # NoPid /\ parentpid = parent_pid[cur_pid]
  /\ pc = "halt_base" => parentpid = NoPid
  /\ pc \in {"halt_tss", "halt_paging", "halt_fdarray", "halt_pid"} =>
       parentpid # NoPid
  /\ pc = "halt_shell" =>
       cur_pid = NoPid /\ cur_process_ptr # NoPid /\ ~pid_check[cur_process_ptr]
  /\ pc = "halt_ptr" => parentpid = cur_pid
  /\ pc \in {"halt_ptr", "halt_return"} => cur_pid # NoPid /\ pid_check[cur_pid]
  /\ cur_pid # NoPid => terminal_pid[current_terminal_id] # NoPid
  /\ \A p \in Pids : scheduled[p].pc # "halt_tss"

SlotInv == "in_halt" \notin switched => NoSlotLostOrShared /\ HaltInv

\* As long as the user has only opened new terminals, halt() gives the CPU
\* back to the execute() call that started the halting program, on its own
\* memory, stack and descriptors: programs nest like procedure calls.
ReturnsToCaller ==
  [][pc = "halt_return" /\ switched' = {} =>
       /\ pc' = "user"
       /\ running' = parent_pid[running]
       /\ {cur_pid', cur_process_ptr', user_page'} = {running'}]_vars

\* cur_pid and cur_process_ptr are two variables for one thing, and halt()
\* sets them in two statements; a switch between programs never parts them.
PidNamesPcb ==
  "in_halt" \notin switched /\ InUser => cur_pid = cur_process_ptr

\* A halt() under way ends, with a program on the CPU unless the user has
\* taken the current process away by a switch.
HaltEnds ==
  pc \in HaltSteps ~> InUser \/ (pc = "hung" /\ switched # {})
=============================================================================
