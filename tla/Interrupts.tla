------------------------------ MODULE Interrupts ------------------------------
(***************************************************************************)
(* How interrupts reach the kernel: the two 8259 controllers (i8259.c),    *)
(* the keyboard and the real-time clock behind them, the handlers, and the *)
(* CPU's interrupt flag, which execute() and rtc_read() switch off and on. *)
(* The program that runs is the one of module RTC, reading the clock.      *)
(*                                                                         *)
(* A device raises its line and the controller latches the edge, at any    *)
(* moment; with the flag set, the CPU takes the interrupt of the highest   *)
(* priority before its next instruction.  A handler is shorter than the    *)
(* clock's period: the program executes something between two periods.     *)
(***************************************************************************)
EXTENDS RTCRates

CONSTANTS
  MAX_TERMINAL_SIZE,
  MaxPresses     \* bytes the keyboard sends in all: typing is slower than the CPU

ASSUME InterruptsAssumption ==
  /\ MAX_TERMINAL_SIZE \in Nat \ {0}
  /\ MaxPresses \in Nat

VARIABLES
  rtc_interrupt, rtc_freq, pc, i, opened, ticks, found, freq,   \* as in RTC
  master_mask, slave_mask,    \* the kernel's copies: the lines masked
  imr_master, imr_slave,      \* the controllers' own
  irr,                        \* edges latched, not yet taken
  isr,                        \* taken, not yet acknowledged
  idt,                        \* the gates
  flag,                       \* the CPU's interrupt flag
  cpu,                        \* what it executes
  back,                       \* where its IRET leads
  unopened,                   \* terminals without a shell
  kbd,                        \* bytes waiting in the keyboard's controller
  presses,
  pie, pf,                    \* the clock's enable bit and its pending flag
  ran                         \* the program ran since the last period

Clock == INSTANCE RTC

clockVars == <<rtc_interrupt, rtc_freq, pc, i, opened, ticks, found, freq>>
maskVars == <<master_mask, slave_mask, imr_master, imr_slave>>
cpuVars == <<idt, flag, cpu, back, unopened>>
kbdVars == <<kbd, presses>>
chipVars == <<pie, pf, ran>>
vars == <<clockVars, maskVars, irr, isr, cpuVars, kbdVars, chipVars>>

Master == 0..7
Slave == 8..15
KBD == 1
CASCADE == 2
RTC_IRQ == 8

\* idt.c: the vectors in use, and a gate: reserved3 is set in a trap gate, which
\* leaves the interrupt flag alone; an interrupt gate clears it.
num_exception == 20
pit_vector == 32
system_call == 128
Vector(irq) == 32 + irq
Hardware == {pit_vector, Vector(KBD), Vector(RTC_IRQ)}
Vectors == 0..(num_exception - 1) \cup Hardware \cup {system_call}
Gate == [reserved3 : {0, 1}, dpl : {0, 3}, present : {0, 1}]

\* Boot, the two halves of a program's life, and the steps of the handlers.
Steps == {"entry", "i8259_init", "keyboard_init", "rtc_disable", "rtc_pie", "rtc_enable",
          "sti", "boot", "program", "execute", "key_eoi", "key_read", "key_body",
          "rtc_ack", "rtc_eoi", "iret"}

TypeOK ==
  /\ master_mask \subseteq Master /\ imr_master \subseteq Master
  /\ slave_mask \subseteq Slave /\ imr_slave \subseteq Slave
  /\ irr \subseteq {KBD, RTC_IRQ} /\ isr \subseteq {KBD, CASCADE, RTC_IRQ}
  /\ idt \in [Vectors -> Gate]
  /\ flag \in {0, 1}
  /\ cpu \in Steps /\ back \in {"boot", "program"}
  /\ unopened \in 0..(MAX_TERMINAL_SIZE - 1)
  /\ kbd \in 0..MaxPresses /\ presses \in 0..MaxPresses
  /\ pie \in {0, 1} /\ pf \in {0, 1} /\ ran \in {0, 1}

\* boot.S leaves interrupts off, and the table as the image has it, zero.
Init ==
  /\ Clock!Init
  /\ master_mask = {} /\ slave_mask = {}
  /\ imr_master = {} /\ imr_slave = {}
  /\ irr = {} /\ isr = {}
  /\ idt = [v \in Vectors |-> [reserved3 |-> 0, dpl |-> 0, present |-> 0]]
  /\ flag = 0
  /\ cpu = "entry" /\ back = "boot"
  /\ unopened = MAX_TERMINAL_SIZE - 1
  /\ kbd = 0 /\ presses = 0
  /\ pie = 0 /\ pf \in {0, 1} /\ ran = 1

Goto(from, to) == cpu = from /\ cpu' = to
Still(unchanged) == UNCHANGED <<unchanged, idt, unopened, kbdVars, pie, pf>>
Other(unchanged) == Still(unchanged) /\ UNCHANGED ran

------------------------------------------------------------------------------
(* The devices                                                             *)

\* A byte for an empty output buffer raises the line, the next ones wait.
Press ==
  /\ cpu \notin {"entry", "i8259_init"}
  /\ presses < MaxPresses
  /\ presses' = presses + 1
  /\ kbd' = kbd + 1
  /\ irr' = IF kbd = 0 THEN irr \cup {KBD} ELSE irr
  /\ UNCHANGED <<clockVars, maskVars, isr, cpuVars, chipVars>>

\* The periodic flag; the line rises with it when interrupts are enabled.
Period ==
  /\ ran = 1 /\ ran' = 0
  /\ pf' = 1
  /\ irr' = IF pie = 1 /\ pf = 0 THEN irr \cup {RTC_IRQ} ELSE irr
  /\ UNCHANGED <<clockVars, maskVars, isr, cpuVars, kbdVars, pie>>

------------------------------------------------------------------------------
(* i8259.c                                                                 *)

\* Mutant: the mask starts from all lines masked each time.
EnableIrq_Overwrites(irq) ==
  /\ master_mask' = Master \ {IF irq \in Master THEN irq ELSE CASCADE}
  /\ slave_mask' = IF irq = CASCADE THEN {} ELSE slave_mask \ {irq}
  /\ imr_master' = master_mask'
  /\ imr_slave' = IF irq \in Slave \cup {CASCADE} THEN slave_mask' ELSE imr_slave

EnableIrq(irq) ==
  /\ master_mask' = master_mask \ {IF irq \in Master THEN irq ELSE CASCADE}
  /\ slave_mask' = IF irq = CASCADE THEN {} ELSE slave_mask \ {irq}
  /\ imr_master' = master_mask'
  /\ imr_slave' = IF irq \in Slave \cup {CASCADE} THEN slave_mask' ELSE imr_slave

\* For a line of the slave the mask goes to the command port, where it is not
\* a mask: the controller's own mask stays.
DisableIrq(irq) ==
  /\ master_mask' = IF irq \in Master THEN master_mask \cup {irq} ELSE master_mask
  /\ slave_mask' = IF irq = CASCADE THEN Slave
                   ELSE IF irq \in Slave THEN slave_mask \cup {irq} ELSE slave_mask
  /\ imr_master' = IF irq \in Master THEN master_mask' ELSE imr_master
  /\ imr_slave' = IF irq = CASCADE THEN slave_mask' ELSE imr_slave

\* Mutant: an interrupt of the slave is acknowledged to the slave only.
Eoi_SlaveOnly(irq) == isr' = isr \ {irq}

\* send_eoi(): a line of the slave is acknowledged to both.
Eoi(irq) == isr' = isr \ (IF irq \in Slave THEN {irq, CASCADE} ELSE {irq})

\* The line of the master an interrupt arrives by, which is its priority.
Level(irq) == IF irq \in Slave THEN CASCADE ELSE irq

Acceptable ==
  {irq \in irr :
     /\ {irq, Level(irq)} \cap (imr_master \cup imr_slave) = {}
     /\ \A s \in isr \cap Master : Level(irq) < s}

------------------------------------------------------------------------------
(* kernel.c's boot, interrupts off                                         *)

\* Mutant: system calls are taken through an interrupt gate too.
idt_init_CallGate ==
  idt' = [v \in Vectors |->
            [reserved3 |-> IF v \in Hardware \cup {system_call} THEN 0 ELSE 1,
             dpl |-> IF v = system_call THEN 3 ELSE 0,
             present |-> 1]]

\* Trap gates for exceptions and system calls, interrupt gates for devices.
idt_init ==
  idt' = [v \in Vectors |->
            [reserved3 |-> IF v \in Hardware THEN 0 ELSE 1,
             dpl |-> IF v = system_call THEN 3 ELSE 0,
             present |-> 1]]

\* The gates first; the descriptors and what it prints of the boot loader's
\* information touch no interrupt (the loader gives what multiboot promises).
Entry ==
  /\ Goto("entry", "i8259_init")
  /\ idt_init
  /\ UNCHANGED <<clockVars, maskVars, irr, isr, flag, back, unopened, kbdVars, chipVars>>

\* enable_irq(2) and enable_irq(8) leave every line of the slave unmasked.
PicInit ==
  /\ Goto("i8259_init", "keyboard_init")
  /\ master_mask' = Master \ {CASCADE} /\ imr_master' = master_mask'
  /\ slave_mask' = {} /\ imr_slave' = {}
  /\ irr' = {} /\ isr' = {}
  /\ Other(<<clockVars, flag, back>>)

KeyboardInit ==
  /\ Goto("keyboard_init", "rtc_disable")
  /\ EnableIrq(KBD)
  /\ Other(<<clockVars, irr, isr, flag, back>>)

RtcDisable ==
  /\ Goto("rtc_disable", "rtc_pie")
  /\ DisableIrq(RTC_IRQ)
  /\ Other(<<clockVars, irr, isr, flag, back>>)

\* Register B: a period that has passed before raises the line now.
RtcPie ==
  /\ Goto("rtc_pie", "rtc_enable")
  /\ pie' = 1
  /\ irr' = IF pf = 1 THEN irr \cup {RTC_IRQ} ELSE irr
  /\ UNCHANGED <<clockVars, maskVars, isr, idt, flag, back, unopened, kbdVars, pf, ran>>

RtcEnable ==
  /\ Goto("rtc_enable", "sti")
  /\ EnableIrq(RTC_IRQ)
  /\ Other(<<clockVars, irr, isr, flag, back>>)

Sti ==
  /\ Goto("sti", "boot")
  /\ flag' = 1
  /\ Other(<<clockVars, maskVars, irr, isr, back>>)

Boot == Entry \/ PicInit \/ KeyboardInit \/ RtcDisable \/ RtcPie \/ RtcEnable \/ Sti

------------------------------------------------------------------------------
(* Interrupts                                                              *)

\* What a gate leaves of the flag.
Through(v) == IF idt[v].reserved3 = 1 THEN flag ELSE 0

\* Without a gate there is no way on.
Accept ==
  \E irq \in Acceptable :
    /\ flag = 1
    /\ \A o \in Acceptable : Level(irq) <= Level(o)
    /\ idt[Vector(irq)].present = 1
    /\ irr' = irr \ {irq}
    /\ isr' = isr \cup {irq, Level(irq)}
    /\ flag' = Through(Vector(irq))
    /\ back' = cpu
    /\ cpu' = IF irq = KBD THEN "key_eoi" ELSE "rtc_ack"
    /\ Other(<<clockVars, maskVars>>)

\* The keyboard's handler acknowledges first ...
KeyEoi ==
  /\ Goto("key_eoi", "key_read")
  /\ Eoi(KBD)
  /\ Other(<<clockVars, maskVars, irr, flag, back>>)

\* Mutant: the data port is read twice.
KeyRead_Twice ==
  /\ Goto("key_read", "key_body")
  /\ kbd' = kbd - 2
  /\ irr' = IF kbd > 1 THEN irr \cup {KBD} ELSE irr
  /\ UNCHANGED <<clockVars, maskVars, isr, idt, flag, back, unopened, presses, chipVars>>

\* ... reads its byte, which lets the next one in ...
KeyRead ==
  /\ Goto("key_read", "key_body")
  /\ kbd' = kbd - 1
  /\ irr' = IF kbd > 1 THEN irr \cup {KBD} ELSE irr
  /\ UNCHANGED <<clockVars, maskVars, isr, idt, flag, back, unopened, presses, chipVars>>

\* ... and returns, or opens a terminal.
KeyBody ==
  /\ \/ Goto("key_body", "iret") /\ UNCHANGED unopened
     \/ /\ Goto("key_body", "execute")
        /\ unopened > 0
        /\ unopened' = unopened - 1
  /\ UNCHANGED <<clockVars, maskVars, irr, isr, idt, flag, back, kbdVars, chipVars>>

\* Mutant: register C is not read.
RtcAck_NoRegC ==
  /\ Goto("rtc_ack", "rtc_eoi")
  /\ Clock!Tick
  /\ Other(<<maskVars, irr, isr, flag, back>>)

\* The clock's handler reads register C, which takes the line back, and sets
\* the flag programs wait for ...
RtcAck ==
  /\ Goto("rtc_ack", "rtc_eoi")
  /\ Clock!Tick
  /\ pf' = 0
  /\ UNCHANGED <<maskVars, irr, isr, idt, flag, back, unopened, kbdVars, pie, ran>>

\* ... and acknowledges last.
RtcEoi ==
  /\ Goto("rtc_eoi", "iret")
  /\ Eoi(RTC_IRQ)
  /\ Other(<<clockVars, maskVars, irr, flag, back>>)

Iret ==
  /\ Goto("iret", back)
  /\ flag' = 1
  /\ Other(<<clockVars, maskVars, irr, isr, back>>)

Handler == KeyEoi \/ KeyRead \/ KeyBody \/ RtcAck \/ RtcEoi \/ Iret

------------------------------------------------------------------------------
(* What is interrupted                                                     *)

\* An interrupt that can be taken is, before the next instruction.
Runs(where) == cpu = where /\ (flag = 0 \/ Acceptable = {}) /\ ran' = 1

\* A program may use the gate of system calls.
Callable == idt[system_call].present = 1 /\ idt[system_call].dpl = 3

\* execute() begins with cli() ...
Execute(where) ==
  /\ Runs(where) /\ pc = "program"
  /\ where = "program" => Callable
  /\ cpu' = "execute" /\ back' = where
  /\ flag' = 0
  /\ Still(<<clockVars, maskVars, irr, isr>>)

\* ... and ends with sti() and the IRET into the new program: whatever was
\* interrupted by the key that opened the terminal is left for good.
ExecuteRuns ==
  /\ Goto("execute", "program")
  /\ flag' = 1
  /\ Clock!Abandon \/ Clock!Others \/ (pc = "program" /\ UNCHANGED clockVars)
  /\ Other(<<maskVars, irr, isr, back>>)

\* On failure interrupts stay off up to the IRET of the system call or of the
\* handler.  The boot's own execute() finds its shell and an empty table.
ExecuteFails ==
  /\ Goto("execute", "iret")
  /\ back = "program"
  /\ Other(<<clockVars, maskVars, irr, isr, flag, back>>)

\* A program reads the clock, with interrupts as its call left them but for the
\* reset of the flag.
Reads ==
  /\ Runs("program")
  /\ Clock!Read
  /\ Still(<<maskVars, irr, isr, flag, cpu, back>>)

\* A call that opens or sets the clock is over with its IRET; one that reads it
\* waits behind the gate.
Uses ==
  /\ Runs("program") /\ Callable
  /\ \/ (Clock!Open \/ Clock!Write \/ Clock!Others) /\ UNCHANGED flag
     \/ Clock!Call /\ flag' = Through(system_call)
  /\ Still(<<maskVars, irr, isr, cpu, back>>)

\* It computes, or goes round in the busy wait.
Computes ==
  /\ Runs("program")
  /\ pc = "program" \/ (pc = "wait" /\ rtc_interrupt = 0)
  /\ Still(<<clockVars, maskVars, irr, isr, flag, cpu, back>>)

Cpu ==
  \/ Boot \/ Execute("boot")
  \/ Accept \/ Handler
  \/ ExecuteRuns \/ ExecuteFails
  \/ Reads \/ Computes

Next == Press \/ Period \/ Cpu \/ Execute("program") \/ Uses

\* The CPU goes on, and the crystal swings.  Nothing obliges a user to type,
\* nor a program to run another one or to use the clock.
Spec == Init /\ [][Next]_vars /\ WF_vars(Cpu) /\ WF_vars(Period)

------------------------------------------------------------------------------
(* Properties                                                              *)

\* Whenever the CPU takes interrupts none is unacknowledged, and none is ever
\* held back: not by a program, nor by a handler that opened a terminal and
\* never came back (handle_keyboard_irq(), rtc_interrupt_handler()).
NothingHeldBack == flag = 1 => isr = {}

\* A line that is up has its edge latched, or its handler is about to take it
\* down: no interrupt is lost to an edge that came while the line was up.
NoEdgeLost ==
  /\ pie = 1 /\ pf = 1 => RTC_IRQ \in irr \/ cpu = "rtc_ack"
  /\ kbd > 0 => KBD \in irr \/ cpu \in {"key_eoi", "key_read"}

\* Every byte the keyboard sends is read.
KeysRead == kbd > 0 ~> kbd = 0

\* What programs see is the clock of module RTC: its handler as one step, and
\* its ticks without end.
ImplementsRTC == Clock!Spec

\* A read of the clock counts ticks, with the handler in its steps and whatever
\* it interrupts.
ReadCountsTicks == Clock!ReadCountsTicks

\* A read that has begun returns or its program is left for good: by the boot
\* sequence and the handlers, no clock that ticks is assumed.
ReadReturns == Clock!ReadReturns
=============================================================================
