------------------------------ MODULE EventLoop ------------------------------
(***************************************************************************)
(* The reactor of matelib (matelib/EventLoop.cc): one thread that waits in *)
(* epoll, calls the handlers of the active channels and then runs the      *)
(* functors other threads, or its own callbacks, have queued.              *)
(*                                                                         *)
(* The loop thread has a program counter, loopPc; every other thread t     *)
(* that uses the loop has callerPc[t].  A call made by another thread is   *)
(* split where the loop thread can run between its two halves: a functor   *)
(* is pushed under the mutex (or quit_ is set) first, and the eventfd is   *)
(* written later.                                                          *)
(*                                                                         *)
(* Functors are numbered in the order in which they are pushed.  User code *)
(* on the loop thread (an I/O handler or a functor) is a "body": while it  *)
(* runs it may queue functors and quit.  runInLoop called by a body just   *)
(* runs the function, so it is part of the body; runInLoop called by       *)
(* another thread is queueInLoop.                                          *)
(***************************************************************************)
EXTENDS Naturals, Sequences, FiniteSets

CONSTANTS
  Callers,       \* the threads, other than the loop's own, that use the loop
  Channels,      \* the I/O channels registered with the loop's poller
  WakeupChannel, \* the channel of the eventfd
  MaxFunctors    \* bound: how many functors are ever queued

ASSUME WakeupAssumption == WakeupChannel \notin Channels
ASSUME BoundAssumption == MaxFunctors \in Nat

VARIABLES
  loopPc,                  \* where the loop thread is
  body,                    \* the user code it is running, if any
  quit,                    \* quit_
  callingPendingFunctors,  \* callingPendingFunctors_
  pendingFunctors,         \* pendingFunctors_, guarded by mutex_
  functors,                \* the local vector of doPendingFunctors
  executed,                \* history: the functors run so far, in order
  early,                   \* history: functors the loop's thread queued before loop()
  wakeupFd,                \* the eventfd's counter is not 0, so it is readable
  ready,                   \* the I/O channels whose descriptors have events
  activeChannels,          \* activeChannels_, those still to be handled
  callerPc                 \* what each other thread is doing

vars == <<loopPc, body, quit, callingPendingFunctors, pendingFunctors,
          functors, executed, early, wakeupFd, ready, activeChannels, callerPc>>

loopVars == <<loopPc, body, callingPendingFunctors, functors, executed,
              ready, activeChannels>>

Submitted == Len(executed) + Len(functors) + Len(pendingFunctors)

ToSet(s) == {s[i] : i \in DOMAIN s}

TypeOK ==
  /\ loopPc \in {"init", "test", "poll", "dispatch", "swap", "run", "done"}
  /\ body \in {"none", "handler", "functor"}
  /\ quit \in BOOLEAN
  /\ callingPendingFunctors \in BOOLEAN
  /\ pendingFunctors \in Seq(Nat)
  /\ functors \in Seq(Nat)
  /\ executed \in Seq(Nat)
  /\ early \in SUBSET Nat
  /\ wakeupFd \in BOOLEAN
  /\ ready \in SUBSET Channels
  /\ activeChannels \in SUBSET (Channels \cup {WakeupChannel})
  /\ callerPc \in [Callers -> {"idle", "wakeup"}]

Init ==
  /\ loopPc = "init"
  /\ body = "none"
  /\ quit = FALSE
  /\ callingPendingFunctors = FALSE
  /\ pendingFunctors = <<>>
  /\ functors = <<>>
  /\ executed = <<>>
  /\ early = {}
  /\ wakeupFd = FALSE
  /\ ready = {}
  /\ activeChannels = {}
  /\ callerPc = [t \in Callers |-> "idle"]

-----------------------------------------------------------------------------
(* Calls made by the other threads.                                        *)

\* Faulty variant: push_front.
PushFunctorFront ==
  /\ Submitted < MaxFunctors
  /\ pendingFunctors' = <<Submitted + 1>> \o pendingFunctors

\* The critical section of queueInLoop: push_back.
PushFunctor ==
  /\ Submitted < MaxFunctors
  /\ pendingFunctors' = Append(pendingFunctors, Submitted + 1)

\* queueInLoop, first half.  A loop that has returned is about to be
\* destroyed by its thread: nobody calls it any more.
QueueInLoop(t) ==
  /\ callerPc[t] = "idle"
  /\ loopPc # "done"
  /\ PushFunctor
  /\ callerPc' = [callerPc EXCEPT ![t] = "wakeup"]
  /\ UNCHANGED <<loopVars, quit, early, wakeupFd>>

\* quit, first half.
Quit(t) ==
  /\ callerPc[t] = "idle"
  /\ loopPc # "done"
  /\ quit' = TRUE
  /\ callerPc' = [callerPc EXCEPT ![t] = "wakeup"]
  /\ UNCHANGED <<loopVars, pendingFunctors, early, wakeupFd>>

\* Faulty variant: the eventfd is not written.
WakeupForgotten(t) ==
  /\ callerPc[t] = "wakeup"
  /\ callerPc' = [callerPc EXCEPT ![t] = "idle"]
  /\ UNCHANGED <<loopVars, quit, pendingFunctors, early, wakeupFd>>

\* The second half of both: !isInLoopThread(), so wakeup().
Wakeup(t) ==
  /\ callerPc[t] = "wakeup"
  /\ wakeupFd' = TRUE
  /\ callerPc' = [callerPc EXCEPT ![t] = "idle"]
  /\ UNCHANGED <<loopVars, quit, pendingFunctors, early>>

-----------------------------------------------------------------------------
(* Calls made by user code on the loop's own thread: before loop(), in a   *)
(* handler, in a functor.                                                  *)

InUserCode == loopPc = "init" \/ body # "none"

\* Faulty variant: only other threads wake the loop up.
NeedsNoWakeup == FALSE

\* The loop's thread wakes itself up only while it runs functors.
NeedsWakeup == callingPendingFunctors

LoopThreadQueueInLoop ==
  /\ InUserCode
  /\ PushFunctor
  /\ wakeupFd' = (wakeupFd \/ NeedsWakeup)
  /\ early' = IF loopPc = "init" THEN early \cup {Submitted + 1} ELSE early
  /\ UNCHANGED <<loopVars, quit, callerPc>>

LoopThreadQuit ==
  /\ InUserCode
  /\ quit' = TRUE
  /\ UNCHANGED <<loopVars, pendingFunctors, early, wakeupFd, callerPc>>

BodyReturns ==
  /\ body # "none"
  /\ body' = "none"
  /\ UNCHANGED <<loopPc, callingPendingFunctors, functors, executed, ready,
                 activeChannels, quit, pendingFunctors, early, wakeupFd, callerPc>>

-----------------------------------------------------------------------------
(* The loop itself.                                                        *)

StartLoop ==
  /\ loopPc = "init"
  /\ loopPc' = "test"
  /\ UNCHANGED <<body, callingPendingFunctors, functors, executed, ready,
                 activeChannels, quit, pendingFunctors, early, wakeupFd, callerPc>>

\* while (!quit_) { activeChannels_.clear(); ...
TestQuit ==
  /\ loopPc = "test"
  /\ loopPc' = IF quit THEN "done" ELSE "poll"
  /\ activeChannels' = {}
  /\ UNCHANGED <<body, callingPendingFunctors, functors, executed, ready,
                 quit, pendingFunctors, early, wakeupFd, callerPc>>

\* What epoll reports: level-triggered, so every descriptor with events.
Readable == ready \cup (IF wakeupFd THEN {WakeupChannel} ELSE {})

\* epoll_wait returns events.
PollEvents ==
  /\ loopPc = "poll"
  /\ Readable # {}
  /\ activeChannels' = Readable
  /\ loopPc' = "dispatch"
  /\ UNCHANGED <<body, callingPendingFunctors, functors, executed, ready,
                 quit, pendingFunctors, early, wakeupFd, callerPc>>

\* epoll_wait returns 0 after kEpollWaitTimeMS, or -1 on a signal.
PollNothing ==
  /\ loopPc = "poll"
  /\ Readable = {}
  /\ loopPc' = "swap"
  /\ UNCHANGED <<body, callingPendingFunctors, functors, executed, ready,
                 activeChannels, quit, pendingFunctors, early, wakeupFd, callerPc>>

\* Faulty variant: the eventfd is not read.
HandleWakeupUnread ==
  /\ loopPc = "dispatch"
  /\ body = "none"
  /\ WakeupChannel \in activeChannels
  /\ activeChannels' = activeChannels \ {WakeupChannel}
  /\ UNCHANGED <<loopPc, body, callingPendingFunctors, functors, executed,
                 ready, quit, pendingFunctors, early, wakeupFd, callerPc>>

\* The wakeup channel's turn: read() takes the whole counter.
HandleWakeup ==
  /\ loopPc = "dispatch"
  /\ body = "none"
  /\ WakeupChannel \in activeChannels
  /\ activeChannels' = activeChannels \ {WakeupChannel}
  /\ wakeupFd' = FALSE
  /\ UNCHANGED <<loopPc, body, callingPendingFunctors, functors, executed,
                 ready, quit, pendingFunctors, early, callerPc>>

\* Another channel's turn: its handler takes the input and runs user code.
HandleEvent(c) ==
  /\ loopPc = "dispatch"
  /\ body = "none"
  /\ c \in activeChannels
  /\ activeChannels' = activeChannels \ {c}
  /\ ready' = ready \ {c}
  /\ body' = "handler"
  /\ UNCHANGED <<loopPc, callingPendingFunctors, functors, executed, quit,
                 pendingFunctors, early, wakeupFd, callerPc>>

HandlersDone ==
  /\ loopPc = "dispatch"
  /\ body = "none"
  /\ activeChannels = {}
  /\ loopPc' = "swap"
  /\ UNCHANGED <<body, callingPendingFunctors, functors, executed, ready,
                 activeChannels, quit, pendingFunctors, early, wakeupFd, callerPc>>

\* doPendingFunctors up to the end of its critical section.
SwapFunctors ==
  /\ loopPc = "swap"
  /\ callingPendingFunctors' = TRUE
  /\ functors' = pendingFunctors
  /\ pendingFunctors' = <<>>
  /\ loopPc' = "run"
  /\ UNCHANGED <<body, executed, ready, activeChannels, quit, early,
                 wakeupFd, callerPc>>

\* functors[i]().
RunFunctor ==
  /\ loopPc = "run"
  /\ body = "none"
  /\ functors # <<>>
  /\ executed' = Append(executed, Head(functors))
  /\ functors' = Tail(functors)
  /\ body' = "functor"
  /\ UNCHANGED <<loopPc, callingPendingFunctors, ready, activeChannels, quit,
                 pendingFunctors, early, wakeupFd, callerPc>>

FunctorsDone ==
  /\ loopPc = "run"
  /\ body = "none"
  /\ functors = <<>>
  /\ callingPendingFunctors' = FALSE
  /\ loopPc' = "test"
  /\ UNCHANGED <<body, functors, executed, ready, activeChannels, quit,
                 pendingFunctors, early, wakeupFd, callerPc>>

\* The outside world: a descriptor becomes ready.
IoArrives(c) ==
  /\ c \notin ready
  /\ ready' = ready \cup {c}
  /\ UNCHANGED <<loopPc, body, callingPendingFunctors, functors, executed,
                 activeChannels, quit, pendingFunctors, early, wakeupFd, callerPc>>

-----------------------------------------------------------------------------
LoopThread ==
  \/ StartLoop \/ TestQuit \/ PollEvents \/ PollNothing
  \/ HandleWakeup \/ (\E c \in Channels : HandleEvent(c)) \/ HandlersDone
  \/ SwapFunctors \/ RunFunctor \/ FunctorsDone
  \/ LoopThreadQueueInLoop \/ LoopThreadQuit \/ BodyReturns

Next ==
  \/ LoopThread
  \/ \E t \in Callers : QueueInLoop(t) \/ Quit(t) \/ Wakeup(t)
  \/ \E c \in Channels : IoArrives(c)

Spec == Init /\ [][Next]_vars

\* The scheduler runs every thread that can run, and user code returns.
\* PollNothing is left out on purpose: what is shown to happen happens
\* without waiting for the 20 seconds of kEpollWaitTimeMS.
Fairness ==
  /\ WF_vars(StartLoop) /\ WF_vars(TestQuit) /\ WF_vars(PollEvents)
  /\ WF_vars(HandleWakeup) /\ WF_vars(\E c \in Channels : HandleEvent(c))
  /\ WF_vars(HandlersDone) /\ WF_vars(SwapFunctors) /\ WF_vars(RunFunctor)
  /\ WF_vars(FunctorsDone) /\ WF_vars(BodyReturns)
  /\ \A t \in Callers : WF_vars(Wakeup(t))

FairSpec == Spec /\ Fairness

-----------------------------------------------------------------------------
(* Properties.                                                             *)

\* A functor waits for a wakeup that is still to come, or already came.
Covered ==
  \/ wakeupFd
  \/ \E t \in Callers : callerPc[t] = "wakeup"
  \/ ToSet(pendingFunctors) \subseteq early

\* No lost wakeup (queueInLoop, doPendingFunctors): when the loop is in
\* epoll_wait and a functor is queued, the eventfd is readable or the thread
\* that queued it is about to write it.  The only functors that may wait for
\* the poll's timeout are those the loop's own thread queued before loop().
NoLostWakeup == loopPc = "poll" => Covered

\* Every functor pushed is in exactly one place, and they run in the order
\* in which they were pushed, none skipped and none run twice, across the
\* swap of doPendingFunctors and whatever is queued while a batch runs.
FifoExactlyOnce ==
  LET all == executed \o functors \o pendingFunctors
  IN  \A i \in 1 .. Len(all) : all[i] = i

\* What the reactor promises its users: a queue of tasks run one at a time,
\* in the order in which they were submitted, until the loop returns.  The
\* swap of doPendingFunctors is invisible to them.
Tasks == INSTANCE TaskQueue WITH
           todo   <- functors \o pendingFunctors,
           ran    <- executed,
           closed <- (loopPc = "done")

ImplementsTaskQueue == Tasks!Spec

\* Every functor queued on a running loop is run, without waiting for the
\* poll's timeout, unless the loop is told to quit.
FunctorsRun ==
  \A f \in 1 .. MaxFunctors :
    (f \in ToSet(pendingFunctors) \ early) ~> (f \in ToSet(executed) \/ quit)

\* quit() ends the loop, from whichever thread it is called, and without
\* waiting for the poll's timeout.
QuitEnds == quit ~> (loopPc = "done")

\* The eventfd is drained (handleWakeup): the loop does not spin on a
\* level-triggered descriptor nobody reads.
WakeupDrained == wakeupFd ~> (~wakeupFd \/ loopPc = "done")

=============================================================================
