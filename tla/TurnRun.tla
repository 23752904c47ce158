------------------------------ MODULE TurnRun ------------------------------
(***************************************************************************)
(* What one run of a turn promises the queue consumer that started it: it  *)
(* marks the turn before its first outward action, and it throws (which    *)
(* is what makes the consumer try again) only while it has done nothing.   *)
(***************************************************************************)

VARIABLES
  marked,  \* the actions-started marker is set
  acted,   \* something left the process: a message or a tool call
  ended    \* "no", "returned" with an outcome, or "thrown"

vars == <<marked, acted, ended>>

Init == marked = FALSE /\ acted = FALSE /\ ended = "no"

\* The run goes on, marking itself and acting as it needs, and may return.
Run ==
  /\ ended = "no"
  /\ marked' \in {marked, TRUE}
  /\ acted' \in {acted, marked'}
  /\ acted => acted'
  /\ ended' \in {"no", "returned"}

\* The run throws: nothing has left the process.
Throw ==
  /\ ended = "no"
  /\ ~acted
  /\ ended' = "thrown"
  /\ UNCHANGED <<marked, acted>>

Next == Run \/ Throw

Spec == Init /\ [][Next]_vars
=============================================================================
