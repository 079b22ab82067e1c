---------------------------- MODULE MCInterrupts ----------------------------
(* Interrupts with few key presses and short reads of the clock, for TLC.  *)
EXTENDS Interrupts
=============================================================================
