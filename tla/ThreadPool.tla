------------------------------ MODULE ThreadPool ------------------------------
(***************************************************************************)
(* The fixed pool of worker threads (matelib/base/ThreadPool.cc, Thread.cc,*)
(* CountDownLatch.h): a queue of tasks guarded by a mutex, a condition     *)
(* variable on which idle workers wait, and a flag that stops them.        *)
(*                                                                         *)
(* One thread, the owner, starts and stops the pool; any thread, a worker  *)
(* in a task included, calls run.  A critical section is one step; a       *)
(* worker that waits gives the mutex up and takes it again when it has     *)
(* been woken up, by a notify or for no reason.  Tasks are numbered in the *)
(* order of run.  (A pool without threads has the caller run the task:     *)
(* nothing of the pool takes part in it.)                                  *)
(***************************************************************************)
EXTENDS Naturals, Sequences, FiniteSets

CONSTANTS
  Workers,   \* the pool's threads
  MaxTasks   \* bound: how many tasks are given to run

ASSUME WorkersAssumption == IsFiniteSet(Workers) /\ Workers # {}
ASSUME BoundAssumption == MaxTasks \in Nat

VARIABLES
  ownerPc,   \* "new", "start", "up", "stop" or "stopped"
  running,   \* running_
  tasks,     \* tasks_
  workerPc,  \* where each worker is
  waiting,   \* the workers blocked in cond_.wait()
  started    \* history: the tasks that workers took, in order

vars == <<ownerPc, running, tasks, workerPc, waiting, started>>

\* A worker is "new" until pthread_create, and "created" until it counts the
\* latch of its Thread down.
TypeOK ==
  /\ ownerPc \in {"new", "start", "up", "stop", "stopped"}
  /\ running \in BOOLEAN
  /\ tasks \in Seq(Nat)
  /\ workerPc \in [Workers -> {"new", "created", "test", "take", "wait", "task", "ended"}]
  /\ waiting \in SUBSET {w \in Workers : workerPc[w] = "wait"}
  /\ started \in Seq(Nat)

Init ==
  /\ ownerPc = "new"
  /\ running = FALSE
  /\ tasks = <<>>
  /\ workerPc = [w \in Workers |-> "new"]
  /\ waiting = {}
  /\ started = <<>>

-----------------------------------------------------------------------------
(* The owner.                                                              *)

\* start: running_ is set before any thread exists.
Start ==
  /\ ownerPc = "new"
  /\ ownerPc' = "start"
  /\ running' = TRUE
  /\ UNCHANGED <<tasks, workerPc, waiting, started>>

\* Thread::start of the next thread: the one before has counted its latch down.
CreateWorker(w) ==
  /\ ownerPc = "start"
  /\ workerPc[w] = "new"
  /\ \A v \in Workers : workerPc[v] # "created"
  /\ workerPc' = [workerPc EXCEPT ![w] = "created"]
  /\ UNCHANGED <<ownerPc, running, tasks, waiting, started>>

\* start returns.
StartDone ==
  /\ ownerPc = "start"
  /\ \A w \in Workers : workerPc[w] \notin {"new", "created"}
  /\ ownerPc' = "up"
  /\ UNCHANGED <<running, tasks, workerPc, waiting, started>>

\* Faulty variant: stop wakes one worker up.
StopNotifyOne ==
  /\ ownerPc = "up"
  /\ ownerPc' = "stop"
  /\ running' = FALSE
  /\ \/ waiting = {} /\ waiting' = {}
     \/ \E w \in waiting : waiting' = waiting \ {w}
  /\ UNCHANGED <<tasks, workerPc, started>>

\* stop: its critical section.
Stop ==
  /\ ownerPc = "up"
  /\ ownerPc' = "stop"
  /\ running' = FALSE
  /\ waiting' = {}
  /\ UNCHANGED <<tasks, workerPc, started>>

\* stop: every thread has been joined.
Joined ==
  /\ ownerPc = "stop"
  /\ \A w \in Workers : workerPc[w] = "ended"
  /\ ownerPc' = "stopped"
  /\ UNCHANGED <<running, tasks, workerPc, waiting, started>>

-----------------------------------------------------------------------------
(* Any thread.                                                             *)

Submitted == Len(started) + Len(tasks)

\* Faulty variants: no task is announced; only the first task of a queue is.
NotifyNever(n) == waiting' = waiting
NotifyFirst(n) ==
  IF waiting = {} \/ n > 0 THEN waiting' = waiting
                           ELSE \E w \in waiting : waiting' = waiting \ {w}

\* cond_.notify() when n tasks were queued: one of the waiting workers, if any.
Notify(n) ==
  IF waiting = {} THEN waiting' = waiting
                  ELSE \E w \in waiting : waiting' = waiting \ {w}

\* run, on a pool that has been started.  Nothing keeps a thread from calling it
\* on a pool that has been stopped.
Run ==
  /\ ownerPc \in {"up", "stop", "stopped"}
  /\ Submitted < MaxTasks
  /\ tasks' = Append(tasks, Submitted + 1)
  /\ Notify(Len(tasks))
  /\ UNCHANGED <<ownerPc, running, workerPc, started>>

-----------------------------------------------------------------------------
(* A worker.                                                               *)

Goto(w, pc) == workerPc' = [workerPc EXCEPT ![w] = pc]

\* Thread::runInThread: the latch, then the pool's function.
Begin(w) ==
  /\ workerPc[w] = "created"
  /\ Goto(w, "test")
  /\ UNCHANGED <<ownerPc, running, tasks, waiting, started>>

\* while (running_).
Test(w) ==
  /\ workerPc[w] = "test"
  /\ Goto(w, IF running THEN "take" ELSE "ended")
  /\ UNCHANGED <<ownerPc, running, tasks, waiting, started>>

\* In take, with the mutex: about to test the condition of its while.
InTake(w) == workerPc[w] = "take" \/ (workerPc[w] = "wait" /\ w \notin waiting)

\* Faulty variant: the newest task is taken.
TakeNewest(w) ==
  /\ InTake(w)
  /\ tasks # <<>>
  /\ started' = Append(started, tasks[Len(tasks)])
  /\ tasks' = SubSeq(tasks, 1, Len(tasks) - 1)
  /\ Goto(w, "task")
  /\ UNCHANGED <<ownerPc, running, waiting>>

\* There is a task.
Take(w) ==
  /\ InTake(w)
  /\ tasks # <<>>
  /\ started' = Append(started, Head(tasks))
  /\ tasks' = Tail(tasks)
  /\ Goto(w, "task")
  /\ UNCHANGED <<ownerPc, running, waiting>>

\* There is none: wait.
Wait(w) ==
  /\ InTake(w)
  /\ tasks = <<>> /\ running
  /\ waiting' = waiting \cup {w}
  /\ Goto(w, "wait")
  /\ UNCHANGED <<ownerPc, running, tasks, started>>

\* There is none and the pool stops: an empty Task.
TakeNothing(w) ==
  /\ InTake(w)
  /\ tasks = <<>> /\ ~running
  /\ Goto(w, "test")
  /\ UNCHANGED <<ownerPc, running, tasks, waiting, started>>

\* cond_.wait() may return for no reason.
WakeSpuriously(w) ==
  /\ w \in waiting
  /\ waiting' = waiting \ {w}
  /\ UNCHANGED <<ownerPc, running, tasks, workerPc, started>>

TaskReturns(w) ==
  /\ workerPc[w] = "task"
  /\ Goto(w, "test")
  /\ UNCHANGED <<ownerPc, running, tasks, waiting, started>>

Worker(w) == Begin(w) \/ Test(w) \/ Take(w) \/ Wait(w) \/ TakeNothing(w) \/ TaskReturns(w)

Next ==
  \/ Start \/ StartDone \/ Stop \/ Joined
  \/ Run
  \/ \E w \in Workers : CreateWorker(w) \/ Worker(w) \/ WakeSpuriously(w)

Spec == Init /\ [][Next]_vars

\* Every thread runs when it can, and tasks return.  Nothing is assumed of
\* spurious wakeups.
FairSpec ==
  /\ Spec
  /\ WF_vars(Start) /\ WF_vars(StartDone) /\ WF_vars(Joined)
  /\ \A w \in Workers : WF_vars(CreateWorker(w)) /\ WF_vars(Worker(w))

-----------------------------------------------------------------------------
(* Properties.                                                             *)

Awake == {w \in Workers : workerPc[w] = "wait"} \ waiting

\* No lost wakeup (run, take): while workers wait, every queued task has had one
\* of them woken up for it that has not looked into the queue since.
WakeupPerTask == waiting # {} => Len(tasks) <= Cardinality(Awake)

\* The tasks, whichever worker takes them, are taken in the order of run, each
\* once and none skipped.
Tasks == INSTANCE TaskQueue WITH todo <- tasks, ran <- started, closed <- FALSE
ImplementsTaskQueue == Tasks!Spec

\* Every task given to a running pool is taken by a worker, even if no worker is
\* ever woken up for no reason, unless the pool is stopped.
TasksTaken == \A n \in 1 .. MaxTasks : (Submitted >= n) ~> (Len(started) >= n \/ ~running)

\* stop() returns, whatever the workers were doing when it was called.
StopReturns == (ownerPc = "stop") ~> (ownerPc = "stopped")
=============================================================================
