---------------------------- MODULE MCLineInput ----------------------------
(* LineInput and its refinement on short lines, for TLC.                   *)
EXTENDS LineInputEditor
=============================================================================
