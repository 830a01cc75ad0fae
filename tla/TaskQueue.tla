------------------------------ MODULE TaskQueue ------------------------------
(***************************************************************************)
(* What ThreadPool promises its caller, with no thread, lock or condition  *)
(* in sight: tasks are numbered in the order they are submitted, started   *)
(* in that order and once each, and the pool terminates only when it was   *)
(* closed and every submitted task has finished.                           *)
(***************************************************************************)
EXTENDS Naturals, Sequences

VARIABLES
  submitted,   \* how many tasks were submitted: the tasks are 1..submitted
  queue,       \* the tasks not started yet, in order
  running,     \* the tasks started and not finished
  finished,    \* the tasks that returned
  closed,      \* no task is submitted any more
  terminated   \* the owner of the pool may free it

vars == <<submitted, queue, running, finished, closed, terminated>>

Init ==
  /\ submitted = 0
  /\ queue = <<>>
  /\ running = {}
  /\ finished = {}
  /\ closed = FALSE
  /\ terminated = FALSE

Submit ==
  /\ ~closed
  /\ submitted' = submitted + 1
  /\ queue' = Append(queue, submitted')
  /\ UNCHANGED <<running, finished, closed, terminated>>

Start ==
  /\ queue # <<>>
  /\ running' = running \union {Head(queue)}
  /\ queue' = Tail(queue)
  /\ UNCHANGED <<submitted, finished, closed, terminated>>

Finish(t) ==
  /\ t \in running
  /\ running' = running \ {t}
  /\ finished' = finished \union {t}
  /\ UNCHANGED <<submitted, queue, closed, terminated>>

Close ==
  /\ ~closed
  /\ closed' = TRUE
  /\ UNCHANGED <<submitted, queue, running, finished, terminated>>

Terminate ==
  /\ closed
  /\ finished = 1..submitted
  /\ terminated' = TRUE
  /\ UNCHANGED <<submitted, queue, running, finished, closed>>

Next == Submit \/ Start \/ (\E t \in running : Finish(t)) \/ Close \/ Terminate

Spec == Init /\ [][Next]_vars

(* A queued task does not stay queued for ever.                            *)
FairSpec == Spec /\ WF_vars(Start)
==============================================================================
