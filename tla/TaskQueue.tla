------------------------------ MODULE TaskQueue ------------------------------
(***************************************************************************)
(* What an executor promises to the threads that submit tasks to it: the   *)
(* tasks, numbered as they are submitted, run one at a time and in that    *)
(* order, until the executor closes.  EventLoop implements it.             *)
(***************************************************************************)
EXTENDS Naturals, Sequences

VARIABLES
  todo,    \* the tasks submitted and not yet started, oldest first
  ran,     \* the tasks started so far, in order
  closed   \* the executor has stopped

vars == <<todo, ran, closed>>

Init == todo = <<>> /\ ran = <<>> /\ closed = FALSE

Submit ==
  /\ ~closed
  /\ todo' = Append(todo, Len(ran) + Len(todo) + 1)
  /\ UNCHANGED <<ran, closed>>

Run ==
  /\ ~closed
  /\ todo # <<>>
  /\ ran' = Append(ran, Head(todo))
  /\ todo' = Tail(todo)
  /\ UNCHANGED closed

Close ==
  /\ closed' = TRUE
  /\ UNCHANGED <<todo, ran>>

Next == Submit \/ Run \/ Close

Spec == Init /\ [][Next]_vars
=============================================================================
