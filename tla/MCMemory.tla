------------------------------ MODULE MCMemory ------------------------------
(* Memory with a few programs, for TLC.                                    *)
EXTENDS Memory
=============================================================================
