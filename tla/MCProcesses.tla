---------------------------- MODULE MCProcesses ----------------------------
(* Processes and its refinement on small tables, for TLC.                  *)
EXTENDS ProcessSessions

\* One ordinary status and the one halt() treats specially.
MCStatuses == {0, 15}
=============================================================================
