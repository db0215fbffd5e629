------------------------------ MODULE TaskPool ------------------------------
(***************************************************************************)
(* What a thread pool promises, without a mutex, a condition variable or a *)
(* ring.  Tasks that are submitted wait in order, at most Bound of them;   *)
(* each is started once, in that order, by a worker that is doing nothing  *)
(* else.                                                                   *)
(***************************************************************************)
EXTENDS Integers, Sequences

CONSTANTS
  Workers,
  Task,
  Nothing,      \* what an idle worker runs
  Bound

VARIABLES
  waiting,      \* the tasks submitted and not started, oldest first
  running       \* what each worker runs

pool == <<waiting, running>>

Init ==
  /\ waiting = << >>
  /\ running = [w \in Workers |-> Nothing]

Submit(t) ==
  /\ Len(waiting) < Bound
  /\ waiting' = Append(waiting, t)
  /\ UNCHANGED running

Start(w) ==
  /\ running[w] = Nothing /\ waiting # << >>
  /\ running' = [running EXCEPT ![w] = Head(waiting)]
  /\ waiting' = Tail(waiting)

Finish(w) ==
  /\ running[w] # Nothing
  /\ running' = [running EXCEPT ![w] = Nothing]
  /\ UNCHANGED waiting

Next ==
  \/ \E t \in Task : Submit(t)
  \/ \E w \in Workers : Start(w) \/ Finish(w)

Spec == Init /\ [][Next]_pool

=============================================================================
