--------------------------- MODULE CallbackQueue ---------------------------
(***************************************************************************)
(* What micropython.schedule promises (docs/library/micropython.rst): the  *)
(* accepted callbacks run once each, in the order in which they were       *)
(* accepted, one at a time, and never inside a critical region.            *)
(***************************************************************************)
EXTENDS Integers, Sequences

CONSTANTS Capacity,   \* how many callbacks may wait
          Callbacks

VARIABLES waiting,    \* accepted callbacks, oldest first
          active,     \* the callback being executed, or "none"
          critical    \* a critical region other than a callback is executing

absVars == <<waiting, active, critical>>

AbsInit == waiting = <<>> /\ active = "none" /\ critical = FALSE

Accept(f) ==
  /\ Len(waiting) < Capacity
  /\ waiting' = Append(waiting, f)
  /\ UNCHANGED <<active, critical>>

Start ==
  /\ active = "none" /\ ~critical
  /\ waiting # <<>>
  /\ active' = Head(waiting)
  /\ waiting' = Tail(waiting)
  /\ critical' = FALSE

Finish ==
  /\ active # "none" /\ ~critical
  /\ active' = "none"
  /\ UNCHANGED <<waiting, critical>>

\* Entering or leaving a critical region: the callback it interrupted, if any,
\* is still the active one.
Critical ==
  /\ critical' \in BOOLEAN
  /\ UNCHANGED <<waiting, active>>

AbsNext == (\E f \in Callbacks : Accept(f)) \/ Start \/ Finish \/ Critical

AbsSpec == AbsInit /\ [][AbsNext]_absVars
=============================================================================
