------------------------------- MODULE RTCRates -------------------------------
(***************************************************************************)
(* The frequencies of the real-time clock (RTC.c) and what a read makes of *)
(* them: parameters that RTC and Interrupts share.                         *)
(***************************************************************************)
EXTENDS Integers

CONSTANTS
  WAITS,        \* the ticks of a read at a frequency of 1 (128 in the code)
  OPEN_FREQ,    \* what rtc_open() sets (1024)
  WRITE_FREQ,   \* what rtcwrite() sets, whatever it is given (2)
  MaxTicks      \* ticks of one read are counted up to here

ASSUME RTCAssumption ==
  /\ WAITS \in Nat
  /\ OPEN_FREQ \in Nat \ {0} /\ WRITE_FREQ \in Nat \ {0}
  /\ MaxTicks \in Nat /\ MaxTicks > WAITS

Freqs == {OPEN_FREQ, WRITE_FREQ}

Waits(f) == WAITS \div f
=============================================================================
