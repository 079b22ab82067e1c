-------------------------- MODULE ProcessSessions --------------------------
(***************************************************************************)
(* Processes implements Sessions as long as no terminal switch interrupts  *)
(* halt(): the program on top of a terminal's session is the process the   *)
(* kernel records for it, and the ones below are its parents.              *)
(***************************************************************************)
EXTENDS Processes

\* A process, its parent, its parent's parent ...
Chain(par, p) ==
  LET chain[q \in Pids \cup {NoPid}] ==
        IF q = NoPid THEN {} ELSE {q} \cup chain[par[q]]
  IN  chain[p]

\* The programs of each terminal's session ...
Stack == [t \in Terminals |-> Chain(parent_pid, Top(t))]

\* ... and those a program was started on.
Below == [p \in Pids |->
            IF p \in Holders THEN Chain(parent_pid, parent_pid[p]) ELSE {}]

Session == INSTANCE Sessions WITH
  Programs <- Pids, session <- Stack, under <- Below,
  current <- current_terminal_id

\* The bookkeeping of pids, parents and terminals is a set of nested sessions,
\* and the session on the screen gets a shell when it has none: true of every
\* switch the user makes outside halt(), although the live ones leave the CPU
\* on another session's program.
ImplementsSessions == Session!Spec
=============================================================================
