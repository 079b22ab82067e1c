--------------------------------- MODULE RTC ---------------------------------
(***************************************************************************)
(* The real-time clock (RTC.c) as programs see it: rtc_read() waits for a  *)
(* number of ticks that depends on a frequency all programs share, by way  *)
(* of a flag the interrupt handler sets.                                   *)
(*                                                                         *)
(* The handler runs with interrupts off and so does the reset of the flag  *)
(* in rtc_read(): each is one step.  The other statements of rtc_read()    *)
(* are steps of their own.                                                 *)
(***************************************************************************)
EXTENDS RTCRates

VARIABLES
  rtc_interrupt,
  rtc_freq,
  pc,         \* where the running program is in rtc_read()
  i,
  opened,     \* a program has a descriptor of the clock
  ticks,      \* the ticks since the read under way began
  found,      \* the flag as it found it
  freq        \* the frequency when it began

vars == <<rtc_interrupt, rtc_freq, pc, i, opened, ticks, found, freq>>
history == <<ticks, found, freq>>

TypeOK ==
  /\ rtc_interrupt \in {0, 1}
  /\ rtc_freq \in Freqs \cup {0}
  /\ pc \in {"program", "loop", "wait", "reset", "done"}
  /\ i \in Nat
  /\ i > 0 => i <= Waits(rtc_freq)
  /\ opened \in BOOLEAN
  /\ found \in {0, 1}
  /\ ticks \in 0..MaxTicks
  /\ freq \in Freqs \cup {0}

Init ==
  /\ rtc_interrupt = 0
  /\ rtc_freq = 0
  /\ pc = "program"
  /\ i = 0
  /\ opened = FALSE
  /\ ticks = 0 /\ found = 0 /\ freq = 0

At(from, to) == pc = from /\ pc' = to

Counted == IF ticks < MaxTicks THEN ticks + 1 ELSE ticks

\* Mutant: the handler leaves the flag as it is.
Tick_Silent ==
  /\ ticks' = IF pc = "program" THEN ticks ELSE Counted
  /\ UNCHANGED <<rtc_interrupt, rtc_freq, pc, i, opened, found, freq>>

\* rtc_interrupt_handler()
Tick ==
  /\ rtc_interrupt' = 1
  /\ ticks' = IF pc = "program" THEN ticks ELSE Counted
  /\ UNCHANGED <<rtc_freq, pc, i, opened, found, freq>>

SetFrequency(f) ==
  /\ pc = "program"
  /\ rtc_freq' = f
  /\ UNCHANGED <<rtc_interrupt, pc, i, history>>

Open == SetFrequency(OPEN_FREQ) /\ opened' = TRUE

\* The clock is written and read through a descriptor of it.
Write == opened /\ SetFrequency(WRITE_FREQ) /\ UNCHANGED opened

Call ==
  /\ opened
  /\ At("program", "loop")
  /\ i' = 0
  /\ ticks' = 0 /\ found' = rtc_interrupt /\ freq' = rtc_freq
  /\ UNCHANGED <<rtc_interrupt, rtc_freq, opened>>

TestCount ==
  /\ pc = "loop"
  /\ pc' = IF i < Waits(rtc_freq) THEN "wait" ELSE "done"
  /\ UNCHANGED <<rtc_interrupt, rtc_freq, i, opened, history>>

\* Leaves the busy wait, with interrupts still on.
SeeFlag ==
  /\ At("wait", "reset")
  /\ rtc_interrupt = 1
  /\ UNCHANGED <<rtc_interrupt, rtc_freq, i, opened, history>>

\* Mutant: the flag is not taken back.
ResetFlag_Kept ==
  /\ At("reset", "loop")
  /\ i' = i + 1
  /\ UNCHANGED <<rtc_interrupt, rtc_freq, opened, history>>

\* cli(), the flag, sti(), and the next round.
ResetFlag ==
  /\ At("reset", "loop")
  /\ rtc_interrupt' = 0
  /\ i' = i + 1
  /\ UNCHANGED <<rtc_freq, opened, history>>

Return ==
  /\ At("done", "program")
  /\ i' = 0
  /\ ticks' = 0 /\ found' = 0 /\ freq' = 0
  /\ UNCHANGED <<rtc_interrupt, rtc_freq, opened>>

\* A key press that opens a terminal: its shell runs, and the program that
\* read never goes on.
Abandon ==
  /\ pc \in {"loop", "wait", "reset", "done"}
  /\ pc' = "program"
  /\ opened' = FALSE
  /\ i' = 0
  /\ ticks' = 0 /\ found' = 0 /\ freq' = 0
  /\ UNCHANGED <<rtc_interrupt, rtc_freq>>

\* A program that halts, or one that starts, leaves no descriptor open here;
\* the caller's, if it had one, is there again when it goes on.
Others ==
  /\ pc = "program"
  /\ rtc_freq # 0
  /\ opened' \in BOOLEAN
  /\ UNCHANGED <<rtc_interrupt, rtc_freq, pc, i, history>>

Read == TestCount \/ SeeFlag \/ ResetFlag \/ Return

Next == Tick \/ Open \/ Write \/ Call \/ Read \/ Abandon \/ Others

\* The clock ticks on, as the handler acknowledges every tick; the CPU goes on
\* with the program's statements.
Spec == Init /\ [][Next]_vars /\ WF_vars(Read) /\ WF_vars(Tick)
------------------------------------------------------------------------------
(* Properties                                                              *)

InRead == pc # "program"

\* A read counts ticks: when it returns it has waited as often as the frequency
\* it began with asks for, which no program changed meanwhile, and as many
\* ticks have come since, but for one that may have been there before.
ReadCountsTicks ==
  /\ InRead => freq = rtc_freq /\ freq # 0
  /\ pc = "done" => i = Waits(freq) /\ i <= ticks + found

\* A read that has begun returns, or its program is left for good.
ReadReturns == InRead ~> ~InRead
=============================================================================
