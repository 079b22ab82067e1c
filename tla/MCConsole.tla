------------------------------ MODULE MCConsole ------------------------------
(* Console on a screen of a few cells, for TLC.                             *)
EXTENDS Console
=============================================================================
