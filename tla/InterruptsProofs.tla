--------------------------- MODULE InterruptsProofs ---------------------------
(***************************************************************************)
(* No interrupt is held back and no edge is lost, however many keys are    *)
(* pressed, terminals opened and programs run.  What is unacknowledged is  *)
(* known from where the CPU is; and a latched edge means that its line is  *)
(* up, which a handler at work has yet to take down.                       *)
(***************************************************************************)
EXTENDS Interrupts, TLAPS

InService ==
  CASE cpu = "key_eoi" -> {KBD}
    [] cpu \in {"rtc_ack", "rtc_eoi"} -> {CASCADE, RTC_IRQ}
    [] OTHER -> {}

\* What is unacknowledged, and when the CPU takes interrupts.
ServiceInv ==
  /\ isr = InService
  /\ flag = 1 => cpu \in {"boot", "program"}

\* A latched edge belongs to a line that is up.
LineInv ==
  /\ KBD \in irr => kbd > 0
  /\ cpu \in {"key_eoi", "key_read"} => kbd > 0 /\ KBD \notin irr
  /\ cpu \in {"entry", "i8259_init"} => kbd = 0 /\ pie = 0
  /\ kbd <= presses

\* A device's handler runs with interrupts off.
GateInv == cpu # "entry" => \A v \in Hardware : idt[v].reserved3 = 0

Inv == TypeOK /\ ServiceInv /\ NoEdgeLost /\ LineInv /\ GateInv

\* The controllers start with nothing latched and nothing in service.
LEMMA InitInv == Init => Inv
<1> SUFFICES ASSUME Init PROVE Inv
  OBVIOUS
<1>1. TypeOK
  BY InterruptsAssumption DEF Init, TypeOK, Steps, Gate
<1> QED
  BY <1>1 DEF Init, Inv, ServiceInv, InService, NoEdgeLost, LineInv, GateInv

\* The kernel's masks and the controllers' stay sets of their lines.
Masks ==
  /\ master_mask \subseteq Master /\ imr_master \subseteq Master
  /\ slave_mask \subseteq Slave /\ imr_slave \subseteq Slave

\* enable_irq() and disable_irq(), for any line (i8259.c).
LEMMA MasksTyped ==
  ASSUME Masks, NEW irq \in Master \cup Slave, EnableIrq(irq) \/ DisableIrq(irq)
  PROVE  Masks'
BY DEF Masks, EnableIrq, DisableIrq, Master, Slave

\* Every step of the devices, the handlers and the program keeps it.
LEMMA StepInv == Inv /\ [Next]_vars => Inv'
<1> SUFFICES ASSUME Inv, [Next]_vars PROVE Inv'
  OBVIOUS
<1> USE DEF Inv, TypeOK, Steps, ServiceInv, InService, NoEdgeLost, LineInv, GateInv, maskVars,
            cpuVars, kbdVars, chipVars, Goto, Still, Other
<1>1. CASE Press
  BY <1>1, InterruptsAssumption DEF Press
<1>2. CASE Period
  BY <1>2 DEF Period, KBD, RTC_IRQ
<1>3. CASE PicInit
  BY <1>3 DEF PicInit, Master, Slave
<1>4. CASE KeyboardInit
  BY <1>4, MasksTyped DEF KeyboardInit, Masks, Master, KBD
<1>5. CASE RtcDisable
  BY <1>5, MasksTyped DEF RtcDisable, Masks, Slave, RTC_IRQ
<1>6. CASE RtcPie
  BY <1>6 DEF RtcPie, KBD, RTC_IRQ
<1>7. CASE RtcEnable
  BY <1>7, MasksTyped DEF RtcEnable, Masks, Slave, RTC_IRQ
<1>8. CASE Sti
  BY <1>8 DEF Sti
<1>9. CASE Accept
  <2>1. Vector(KBD) \in Hardware /\ Vector(RTC_IRQ) \in Hardware
    BY DEF Hardware
  <2>2. /\ cpu # "entry"
        /\ \A irq \in irr : Through(Vector(irq)) = 0
    BY <1>9, <2>1 DEF Accept, Through
  <2> QED
    BY <1>9, <2>2 DEF Accept, Acceptable, Level, KBD, RTC_IRQ, CASCADE, Slave
<1>10. CASE KeyEoi
  BY <1>10 DEF KeyEoi, Eoi, KBD, Slave
<1>11. CASE KeyRead
  BY <1>11, InterruptsAssumption DEF KeyRead, KBD, RTC_IRQ
<1>12. CASE KeyBody
  BY <1>12, InterruptsAssumption DEF KeyBody
<1>13. CASE RtcAck
  BY <1>13 DEF RtcAck
<1>14. CASE RtcEoi
  BY <1>14 DEF RtcEoi, Eoi, RTC_IRQ, CASCADE, Slave
<1>15. CASE Iret
  BY <1>15 DEF Iret
<1>16. CASE Execute("boot") \/ Execute("program")
  BY <1>16 DEF Execute, Runs
<1>17. CASE ExecuteRuns
  BY <1>17 DEF ExecuteRuns
<1>18. CASE ExecuteFails
  BY <1>18 DEF ExecuteFails
<1>19. CASE Reads \/ Uses \/ Computes
  BY <1>19 DEF Reads, Uses, Computes, Runs, Through
<1>20. CASE UNCHANGED vars
  BY <1>20 DEF vars
<1>21. CASE Entry
  <2>1. idt' \in [Vectors -> Gate]
    BY <1>21 DEF Entry, idt_init, Gate
  <2>2. \A v \in Hardware : idt'[v].reserved3 = 0
    BY <1>21 DEF Entry, idt_init, Vectors
  <2> QED
    BY <1>21, <2>1, <2>2 DEF Entry
<1> QED
  BY <1>1, <1>2, <1>3, <1>4, <1>5, <1>6, <1>7, <1>8, <1>9, <1>10, <1>11, <1>12,
     <1>13, <1>14, <1>15, <1>16, <1>17, <1>18, <1>19, <1>20, <1>21
     DEF Next, Cpu, Boot, Handler

\* Whenever the CPU takes interrupts none is unacknowledged, and every line
\* that is up has its edge latched or its handler at work (i8259.c,
\* handle_keyboard_irq(), rtc_interrupt_handler()).
THEOREM InterruptsServed == Spec => [](TypeOK /\ NothingHeldBack /\ NoEdgeLost)
<1>1. Inv => TypeOK /\ NothingHeldBack /\ NoEdgeLost
  BY DEF Inv, ServiceInv, InService, NothingHeldBack
<1> QED
  BY <1>1, InitInv, StepInv, PTL DEF Spec

\* The controllers, the handlers and the clock keep within their ranges (i8259.c,
\* keyboard.c, RTC.c).
THEOREM AllTyped == Spec => []TypeOK
BY InterruptsServed, PTL

\* A line that is up has an edge the controllers know of, or its handler at work
\* (handle_keyboard_irq(), rtc_interrupt_handler()).
THEOREM NoEdgeIsLost == Spec => []NoEdgeLost
BY InterruptsServed, PTL

------------------------------------------------------------------------------
(* The clock of module RTC                                                 *)

\* Every step of the kernel is a step of the clock's program or none of it.
LEMMA ClockStep == Next => Clock!Next \/ UNCHANGED clockVars
<1> SUFFICES ASSUME Next PROVE Clock!Next \/ UNCHANGED clockVars
  OBVIOUS
<1>1. CASE Press \/ Period \/ Accept
  BY <1>1 DEF Press, Period, Accept, Other, Still
<1>2. CASE Boot
  BY <1>2 DEF Boot, Entry, PicInit, KeyboardInit, RtcDisable, RtcPie, RtcEnable, Sti,
              Other, Still
<1>3. CASE Handler
  BY <1>3 DEF Handler, KeyEoi, KeyRead, KeyBody, RtcAck, RtcEoi, Iret, Other, Still,
              Clock!Next
<1>4. CASE Execute("boot") \/ Execute("program")
  BY <1>4 DEF Execute, Still
<1>5. CASE ExecuteRuns \/ ExecuteFails
  BY <1>5 DEF ExecuteRuns, ExecuteFails, Other, Still, Clock!Next
<1>6. CASE Reads \/ Uses \/ Computes
  BY <1>6 DEF Reads, Uses, Computes, Still, Clock!Next
<1> QED
  BY <1>1, <1>2, <1>3, <1>4, <1>5, <1>6 DEF Next, Cpu

\* What programs see of the clock are steps of module RTC, from the boot on:
\* its handler takes effect in one of them (rtc_interrupt_handler()).
THEOREM ClockIsRTC == Spec => Clock!Init /\ [][Clock!Next]_clockVars
<1>1. Init => Clock!Init
  BY DEF Init
<1>2. [Next]_vars => [Clock!Next]_clockVars
  BY ClockStep DEF vars
<1> QED
  BY <1>1, <1>2, PTL DEF Spec

------------------------------------------------------------------------------
(* Reads of the clock.  Each wait uses up the flag, and each setting of    *)
(* the flag but the first stands for a tick since the read began: the      *)
(* waits made and the flag together never exceed the ticks (and the flag   *)
(* found there).                                                           *)

\* The inductive invariant.
ReadInv ==
  /\ Clock!TypeOK
  /\ Clock!InRead => freq = rtc_freq /\ freq # 0 /\ i + rtc_interrupt <= ticks + found
  /\ pc = "program" => i = 0
  /\ pc \in {"wait", "reset"} => i < Clock!Waits(rtc_freq)
  /\ pc = "reset" => rtc_interrupt = 1
  /\ pc = "done" => i = Clock!Waits(rtc_freq)
  /\ opened => rtc_freq # 0

\* A read waits at most as often as at a frequency of 1 (RTC.c:105).
LEMMA WaitsBounded ==
  \A f \in Clock!Freqs : Clock!Waits(f) \in Nat /\ Clock!Waits(f) <= WAITS
BY RTCAssumption DEF Clock!Freqs, Clock!Waits

\* The clock starts in the invariant.
LEMMA ReadInitInv == Clock!Init => ReadInv
<1> SUFFICES ASSUME Clock!Init PROVE ReadInv
  OBVIOUS
<1>1. /\ pc = "program" /\ i = 0
      /\ rtc_interrupt \in {0, 1} /\ ticks \in 0..MaxTicks /\ found \in {0, 1}
      /\ rtc_freq \in Clock!Freqs \cup {0} /\ freq \in Clock!Freqs \cup {0}
  BY RTCAssumption DEF Clock!Init
<1>2. opened \in BOOLEAN /\ ~opened
  BY Zenon DEF Clock!Init
<1>3. Clock!TypeOK
  BY <1>1, <1>2 DEF Clock!TypeOK
<1> QED
  BY <1>1, <1>2, <1>3 DEF ReadInv, Clock!InRead

\* Every step of the clock and of the program keeps the invariant.
LEMMA ReadStepInv == ReadInv /\ [Clock!Next]_(Clock!vars) => ReadInv'
<1> SUFFICES ASSUME ReadInv, [Clock!Next]_(Clock!vars) PROVE ReadInv'
  OBVIOUS
<1> USE DEF ReadInv, Clock!TypeOK, Clock!InRead, Clock!history
<1>a. OPEN_FREQ \in Clock!Freqs /\ WRITE_FREQ \in Clock!Freqs /\ 0 \notin Clock!Freqs
  BY RTCAssumption DEF Clock!Freqs
<1>b. rtc_freq \in Clock!Freqs => Clock!Waits(rtc_freq) \in Nat /\ Clock!Waits(rtc_freq) <= WAITS
  BY WaitsBounded
<1>c. WAITS \in Nat /\ MaxTicks \in Nat /\ MaxTicks > WAITS
  BY RTCAssumption
<1>1. CASE Clock!Tick
  BY <1>1, <1>b, <1>c DEF Clock!Tick, Clock!Counted
<1>2. CASE Clock!Open
  BY <1>2, <1>a DEF Clock!Open, Clock!SetFrequency
<1>3. CASE Clock!Write
  BY <1>3, <1>a DEF Clock!Write, Clock!SetFrequency
<1>4. CASE Clock!Call
  <2>1. rtc_freq # 0 /\ rtc_freq \in Clock!Freqs
    BY <1>4 DEF Clock!Call
  <2>2. i' = 0 /\ ticks' = 0 /\ ticks' \in 0..MaxTicks
    BY <1>4, <1>c DEF Clock!Call
  <2> QED
    BY <1>4, <2>1, <2>2 DEF Clock!Call, Clock!At
<1>5. CASE Clock!TestCount
  BY <1>5, <1>b DEF Clock!TestCount
<1>6. CASE Clock!SeeFlag
  BY <1>6 DEF Clock!SeeFlag, Clock!At
<1>7. CASE Clock!ResetFlag
  BY <1>7, <1>b DEF Clock!ResetFlag, Clock!At
<1>8. CASE Clock!Return
  BY <1>8, <1>c DEF Clock!Return, Clock!At
<1>9. CASE Clock!Abandon
  <2>1. opened' \in BOOLEAN /\ ~opened'
    BY <1>9, Zenon DEF Clock!Abandon
  <2>2. /\ pc' = "program" /\ i' = 0 /\ ticks' = 0 /\ found' = 0 /\ freq' = 0
        /\ ticks' \in 0..MaxTicks
        /\ UNCHANGED <<rtc_interrupt, rtc_freq>>
    BY <1>9, <1>c DEF Clock!Abandon
  <2> QED
    BY <2>1, <2>2
<1>10. CASE Clock!Others
  BY <1>10 DEF Clock!Others
<1>11. CASE UNCHANGED Clock!vars
  BY <1>11 DEF Clock!vars
<1> QED
  BY <1>1, <1>2, <1>3, <1>4, <1>5, <1>6, <1>7, <1>8, <1>9, <1>10, <1>11 DEF Clock!Next, Clock!Read

\* A read that returns has waited as often as its frequency asks for, and the
\* ticks it waited for have come since it began (rtc_read()).
THEOREM ReadIsCounted == Clock!Spec => [](Clock!TypeOK /\ Clock!ReadCountsTicks)
<1>1. ReadInv => Clock!TypeOK /\ Clock!ReadCountsTicks
  <2> SUFFICES ASSUME ReadInv PROVE Clock!TypeOK /\ Clock!ReadCountsTicks
    OBVIOUS
  <2> QED
    BY DEF ReadInv, Clock!TypeOK, Clock!ReadCountsTicks, Clock!InRead
<1> QED
  BY <1>1, ReadInitInv, ReadStepInv, PTL DEF Clock!Spec

\* A read of the clock counts ticks, with the handler in its steps and whatever
\* it interrupts (rtc_read(), rtc_interrupt_handler()).
THEOREM ReadsCountTicks == Spec => []ReadCountsTicks
<1>1. Init => Clock!Init
  BY DEF Init
<1>2. [Next]_vars => [Clock!Next]_(Clock!vars)
  BY ClockStep DEF vars, clockVars, Clock!vars
<1>3. ReadInv => ReadCountsTicks
  BY DEF ReadInv, ReadCountsTicks, Clock!TypeOK, Clock!ReadCountsTicks, Clock!InRead
<1> QED
  BY <1>1, <1>2, <1>3, ReadInitInv, ReadStepInv, PTL DEF Spec
=============================================================================
