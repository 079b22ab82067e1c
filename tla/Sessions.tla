------------------------------ MODULE Sessions ------------------------------
(***************************************************************************)
(* What process control promises the user: every terminal keeps a session, *)
(* a stack of programs each started by the one below it, and no program is *)
(* in two sessions.  Only the session on the screen moves: its top program *)
(* starts another one, or ends and leaves what was there when it started.  *)
(* A terminal whose session is empty gets a shell as soon as it is shown,  *)
(* if there is a place, and again whenever its first shell ends.           *)
(***************************************************************************)

CONSTANTS
  Programs,   \* one for each place there is
  Terminals

VARIABLES
  session,    \* the programs of each terminal's session
  under,      \* those that were in it when a program was started, per program
  current     \* the terminal on the screen

vars == <<session, under, current>>

Init ==
  /\ session = [t \in Terminals |-> {}]
  /\ under = [p \in Programs |-> {}]
  /\ current \in Terminals

Started == UNION {session[t] : t \in Terminals}

Start(t) ==
  \E p \in Programs \ Started :
    /\ session' = [session EXCEPT ![t] = @ \cup {p}]
    /\ under' = [under EXCEPT ![p] = session[t]]

Run == Start(current) /\ UNCHANGED current

Exit ==
  /\ \E p \in session[current] :
       /\ session[current] = under[p] \cup {p}
       /\ session' = [session EXCEPT ![current] = under[p]]
       /\ under' = [under EXCEPT ![p] = {}]
  /\ UNCHANGED current

Show(t) ==
  /\ t # current
  /\ current' = t
  /\ IF session[t] = {} /\ Started # Programs
     THEN Start(t)
     ELSE UNCHANGED <<session, under>>

Next == Run \/ Exit \/ \E t \in Terminals : Show(t)

\* An empty session on the screen does not stay so while there is room.
Restart == session[current] = {} /\ Run

Spec == Init /\ [][Next]_vars /\ WF_vars(Restart)
=============================================================================
