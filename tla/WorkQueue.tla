----------------------------- MODULE WorkQueue -----------------------------
(***************************************************************************)
(* What the share worker pool promises to the stratum server: work that is *)
(* dispatched is started in the order in which it was accepted, and runs   *)
(* to its end once, on one of several threads, unless the queue is closed  *)
(* first.  Closing drops what has not been started.                        *)
(***************************************************************************)
EXTENDS Sequences

CONSTANT Works   \* the closures that are dispatched

VARIABLES
  pending,   \* accepted and not yet started, in order
  active,    \* started and not yet finished
  finished,
  closed

vars == <<pending, active, finished, closed>>

Init ==
  /\ pending = <<>>
  /\ active = {}
  /\ finished = {}
  /\ closed = FALSE

Accept(w) ==
  /\ ~closed
  /\ pending' = Append(pending, w)
  /\ UNCHANGED <<active, finished, closed>>

Start ==
  /\ ~closed
  /\ pending # <<>>
  /\ active' = active \union {Head(pending)}
  /\ pending' = Tail(pending)
  /\ UNCHANGED <<finished, closed>>

Finish(w) ==
  /\ w \in active
  /\ active' = active \ {w}
  /\ finished' = finished \union {w}
  /\ UNCHANGED <<pending, closed>>

Close ==
  /\ closed' = TRUE
  /\ UNCHANGED <<pending, active, finished>>

Next ==
  \/ \E w \in Works : Accept(w) \/ Finish(w)
  \/ Start
  \/ Close

\* What is accepted is started and what is started is finished.
Fairness ==
  /\ WF_vars(Start)
  /\ \A w \in Works : WF_vars(Finish(w))

Spec == Init /\ [][Next]_vars /\ Fairness
=============================================================================
