----------------------------- MODULE AtomicStore ----------------------------
(***************************************************************************)
(* What storage that survives a loss of power promises: an update happens  *)
(* as a whole or not at all, it has happened before the next one begins,   *)
(* and what has happened is not lost.                                      *)
(***************************************************************************)
CONSTANT Values
VARIABLES
  value,  \* what a reader finds after the power comes back
  goal    \* the result of the update in progress, else value

vars == <<value, goal>>

Init ==
  /\ value \in Values
  /\ goal = value

Begin ==
  /\ goal = value
  /\ goal' \in Values
  /\ UNCHANGED value

Happen ==
  /\ value' = goal
  /\ UNCHANGED goal

\* An error, or the power is lost: whatever has not happened is given up.
GiveUp ==
  /\ goal' = value
  /\ UNCHANGED value

Next == Begin \/ Happen \/ GiveUp

Spec == Init /\ [][Next]_vars
=============================================================================
