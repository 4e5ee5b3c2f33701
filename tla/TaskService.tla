----------------------------- MODULE TaskService -----------------------------
(***************************************************************************)
(* What thread_pool<R> of ldr/tpool.h promises its user, without threads,  *)
(* mutex or condition variable: submitted tasks start in order, each one   *)
(* runs once, at most Width of them at a time, and closing the service     *)
(* drops only tasks that have not started.  deriv_pool is built on this.   *)
(***************************************************************************)
EXTENDS Naturals, Sequences, FiniteSets

CONSTANTS
  Tasks,  \* the tasks that may be submitted
  Width   \* how many tasks may run at the same time

VARIABLES
  queue,     \* submitted tasks that have not started, in order
  running,   \* tasks being executed
  finished,  \* tasks whose future is ready
  dropped    \* tasks whose promise is broken

svars == <<queue, running, finished, dropped>>

Queued == {queue[i] : i \in 1..Len(queue)}

Fresh(t) == t \notin Queued \cup running \cup finished \cup dropped

Init ==
  /\ queue = <<>>
  /\ running = {}
  /\ finished = {}
  /\ dropped = {}

Submit(t) ==
  /\ Fresh(t)
  /\ queue' = Append(queue, t)
  /\ UNCHANGED <<running, finished, dropped>>

Start ==
  /\ queue # <<>>
  /\ Cardinality(running) < Width
  /\ running' = running \cup {Head(queue)}
  /\ queue' = Tail(queue)
  /\ UNCHANGED <<finished, dropped>>

Finish(t) ==
  /\ t \in running
  /\ running' = running \ {t}
  /\ finished' = finished \cup {t}
  /\ UNCHANGED <<queue, dropped>>

Close ==
  /\ running = {}
  /\ dropped' = dropped \cup Queued
  /\ queue' = <<>>
  /\ UNCHANGED <<running, finished>>

Next ==
  \/ \E t \in Tasks : Submit(t) \/ Finish(t)
  \/ Start
  \/ Close

Spec == Init /\ [][Next]_svars
=============================================================================
