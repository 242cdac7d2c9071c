---------------------- MODULE EventLoop_TcpClient_proofs ----------------------
(***************************************************************************)
(* Proofs about EventLoop, for any set of threads and channels and any     *)
(* number of functors; and, from TcpClient on, about the client, with the  *)
(* code's own numbers of attempts and delays.                              *)
(***************************************************************************)
EXTENDS EventLoop, TcpClient, SequenceTheorems, TLAPS

(* Where the loop stands decides what else is true of it: user code runs   *)
(* only inside handlers and functors, the local vector of                  *)
(* doPendingFunctors and its flag live only while it runs.                 *)
ControlInv ==
  /\ body = "handler" => loopPc = "dispatch"
  /\ body = "functor" => loopPc = "run"
  /\ callingPendingFunctors <=> loopPc = "run"
  /\ loopPc # "run" => functors = <<>>

(* NoLostWakeup at every point from which the loop reaches epoll_wait      *)
(* without passing through the swap.                                       *)
WakeupInv == loopPc \in {"init", "test", "poll", "run"} => Covered

IInv == TypeOK /\ ControlInv /\ WakeupInv

-----------------------------------------------------------------------------
\* The initial state is well typed.
LEMMA InitTypeOK == Init => TypeOK
<1> SUFFICES ASSUME Init PROVE TypeOK
  OBVIOUS
<1>1. callingPendingFunctors \in BOOLEAN /\ quit \in BOOLEAN /\ wakeupFd \in BOOLEAN
  BY Zenon DEF Init
<1> QED
  BY <1>1 DEF Init, TypeOK

\* Every step keeps the state well typed.
LEMMA NextTypeOK == TypeOK /\ [Next]_vars => TypeOK'
<1> SUFFICES ASSUME TypeOK, [Next]_vars PROVE TypeOK'
  OBVIOUS
<1> USE DEF TypeOK, loopVars
<1>0. Submitted + 1 \in Nat
  BY DEF Submitted
<1>1. CASE \E t \in Callers : QueueInLoop(t)
  BY <1>0, <1>1 DEF QueueInLoop, PushFunctor
<1>2. CASE \E t \in Callers : Quit(t)
  BY <1>2 DEF Quit
<1>3. CASE \E t \in Callers : Wakeup(t)
  BY <1>3 DEF Wakeup
<1>4. CASE LoopThreadQueueInLoop
  <2>1. wakeupFd' \in BOOLEAN
    BY <1>4, Zenon DEF LoopThreadQueueInLoop
  <2>2. early' \in SUBSET Nat
    BY <1>0, <1>4 DEF LoopThreadQueueInLoop
  <2>3. pendingFunctors' \in Seq(Nat)
    BY <1>0, <1>4 DEF LoopThreadQueueInLoop, PushFunctor
  <2> QED
    BY <1>4, <2>1, <2>2, <2>3 DEF LoopThreadQueueInLoop
<1>5. CASE LoopThreadQuit
  BY <1>5 DEF LoopThreadQuit
<1>6. CASE BodyReturns
  BY <1>6 DEF BodyReturns
<1>7. CASE StartLoop
  BY <1>7 DEF StartLoop
<1>8. CASE TestQuit
  BY <1>8 DEF TestQuit
<1>9. CASE PollEvents
  BY <1>9 DEF PollEvents, Readable
<1>10. CASE PollNothing
  BY <1>10 DEF PollNothing
<1>11. CASE HandleWakeup
  BY <1>11 DEF HandleWakeup
<1>12. CASE \E c \in Channels : HandleEvent(c)
  BY <1>12 DEF HandleEvent
<1>13. CASE HandlersDone
  BY <1>13 DEF HandlersDone
<1>14. CASE SwapFunctors
  BY <1>14 DEF SwapFunctors
<1>15. CASE RunFunctor
  BY <1>15 DEF RunFunctor
<1>16. CASE FunctorsDone
  BY <1>16 DEF FunctorsDone
<1>17. CASE \E c \in Channels : IoArrives(c)
  BY <1>17 DEF IoArrives
<1>18. CASE UNCHANGED vars
  BY <1>18 DEF vars
<1> QED
  BY <1>1, <1>2, <1>3, <1>4, <1>5, <1>6, <1>7, <1>8, <1>9, <1>10, <1>11,
     <1>12, <1>13, <1>14, <1>15, <1>16, <1>17, <1>18 DEF Next, LoopThread

\* Type correctness of the reactor's state.
THEOREM TypeCorrect == Spec => []TypeOK
  BY InitTypeOK, NextTypeOK, PTL DEF Spec

-----------------------------------------------------------------------------
\* The initial state satisfies the inductive invariant.
LEMMA InitIInv == Init => IInv
<1> SUFFICES ASSUME Init PROVE IInv
  OBVIOUS
<1>1. TypeOK
  BY InitTypeOK
<1>2. ControlInv
  BY DEF Init, ControlInv
<1>3. WakeupInv
  BY DEF Init, WakeupInv, Covered, ToSet
<1> QED
  BY <1>1, <1>2, <1>3 DEF IInv

\* Every step keeps the loop's control state consistent.
LEMMA NextControlInv == TypeOK /\ ControlInv /\ [Next]_vars => ControlInv'
<1> SUFFICES ASSUME TypeOK, ControlInv, [Next]_vars PROVE ControlInv'
  OBVIOUS
<1> USE DEF TypeOK, ControlInv, loopVars
<1>1. CASE \E t \in Callers : QueueInLoop(t)
  BY <1>1 DEF QueueInLoop, PushFunctor
<1>2. CASE \E t \in Callers : Quit(t)
  BY <1>2 DEF Quit
<1>3. CASE \E t \in Callers : Wakeup(t)
  BY <1>3 DEF Wakeup
<1>4. CASE LoopThreadQueueInLoop
  BY <1>4 DEF LoopThreadQueueInLoop, PushFunctor, NeedsWakeup, InUserCode
<1>5. CASE LoopThreadQuit
  BY <1>5 DEF LoopThreadQuit
<1>6. CASE BodyReturns
  BY <1>6 DEF BodyReturns
<1>7. CASE StartLoop
  BY <1>7 DEF StartLoop
<1>8. CASE TestQuit
  BY <1>8 DEF TestQuit
<1>9. CASE PollEvents
  BY <1>9 DEF PollEvents
<1>10. CASE PollNothing
  BY <1>10 DEF PollNothing
<1>11. CASE HandleWakeup
  BY <1>11 DEF HandleWakeup
<1>12. CASE \E c \in Channels : HandleEvent(c)
  BY <1>12 DEF HandleEvent
<1>13. CASE HandlersDone
  BY <1>13 DEF HandlersDone
<1>14. CASE SwapFunctors
  BY <1>14 DEF SwapFunctors
<1>15. CASE RunFunctor
  BY <1>15 DEF RunFunctor
<1>16. CASE FunctorsDone
  BY <1>16 DEF FunctorsDone
<1>17. CASE \E c \in Channels : IoArrives(c)
  BY <1>17 DEF IoArrives
<1>18. CASE UNCHANGED vars
  BY <1>18 DEF vars
<1> QED
  BY <1>1, <1>2, <1>3, <1>4, <1>5, <1>6, <1>7, <1>8, <1>9,
     <1>10, <1>11, <1>12, <1>13, <1>14, <1>15, <1>16, <1>17, <1>18 DEF Next, LoopThread

\* The functors queued after a push_back are those queued before and the new one.
LEMMA ToSetAppend ==
  ASSUME NEW s \in Seq(Nat), NEW x \in Nat
  PROVE  ToSet(Append(s, x)) = ToSet(s) \cup {x}
<1> DEFINE q == Append(s, x)
<1>1. Len(q) = Len(s) + 1 /\ DOMAIN q = 1 .. Len(s) + 1 /\ DOMAIN s = 1 .. Len(s)
  OBVIOUS
<1>2. (\A i \in 1 .. Len(s) : q[i] = s[i]) /\ q[Len(s) + 1] = x
  OBVIOUS
<1>3. ASSUME NEW y PROVE y \in ToSet(q) <=> y \in ToSet(s) \/ y = x
  BY <1>1, <1>2 DEF ToSet
<1> QED
  BY <1>3

\* Every step keeps each queued functor covered by a wakeup.
LEMMA NextWakeupInv == IInv /\ [Next]_vars => WakeupInv'
<1> SUFFICES ASSUME IInv, [Next]_vars PROVE WakeupInv'
  OBVIOUS
<1> USE DEF IInv, TypeOK, ControlInv, WakeupInv, Covered, loopVars
<1>1. CASE \E t \in Callers : QueueInLoop(t)
  BY <1>1 DEF QueueInLoop, PushFunctor
<1>2. CASE \E t \in Callers : Quit(t)
  BY <1>2 DEF Quit
<1>3. CASE \E t \in Callers : Wakeup(t)
  BY <1>3 DEF Wakeup
<1>4. CASE LoopThreadQueueInLoop
  <2>1. CASE callingPendingFunctors
    BY <1>4, <2>1 DEF LoopThreadQueueInLoop, NeedsWakeup
  <2>2. CASE loopPc = "init"
    <3>1. pendingFunctors' = Append(pendingFunctors, Submitted + 1)
      BY <1>4 DEF LoopThreadQueueInLoop, PushFunctor
    <3>2. ToSet(pendingFunctors') = ToSet(pendingFunctors) \cup {Submitted + 1}
      BY <3>1, ToSetAppend DEF Submitted
    <3>3. Covered => Covered'
      BY <1>4, <2>2, <3>2 DEF LoopThreadQueueInLoop
    <3> QED
      BY <2>2, <3>3
  <2>3. CASE loopPc = "dispatch"
    BY <1>4, <2>3 DEF LoopThreadQueueInLoop
  <2> QED
    BY <1>4, <2>1, <2>2, <2>3 DEF LoopThreadQueueInLoop, InUserCode
<1>5. CASE LoopThreadQuit
  BY <1>5 DEF LoopThreadQuit
<1>6. CASE BodyReturns
  BY <1>6 DEF BodyReturns
<1>7. CASE StartLoop
  BY <1>7 DEF StartLoop
<1>8. CASE TestQuit
  BY <1>8 DEF TestQuit
<1>9. CASE PollEvents
  BY <1>9 DEF PollEvents
<1>10. CASE PollNothing
  BY <1>10 DEF PollNothing
<1>11. CASE HandleWakeup
  BY <1>11 DEF HandleWakeup
<1>12. CASE \E c \in Channels : HandleEvent(c)
  BY <1>12 DEF HandleEvent
<1>13. CASE HandlersDone
  BY <1>13 DEF HandlersDone
<1>14. CASE SwapFunctors
  <2>1. ToSet(pendingFunctors') = {}
    BY <1>14 DEF SwapFunctors, ToSet
  <2> QED
    BY <1>14, <2>1 DEF SwapFunctors
<1>15. CASE RunFunctor
  BY <1>15 DEF RunFunctor
<1>16. CASE FunctorsDone
  BY <1>16 DEF FunctorsDone
<1>17. CASE \E c \in Channels : IoArrives(c)
  BY <1>17 DEF IoArrives
<1>18. CASE UNCHANGED vars
  BY <1>18 DEF vars
<1> QED
  BY <1>1, <1>2, <1>3, <1>4, <1>5, <1>6, <1>7, <1>8, <1>9,
     <1>10, <1>11, <1>12, <1>13, <1>14, <1>15, <1>16, <1>17, <1>18 DEF Next, LoopThread

\* Every step keeps the inductive invariant.
LEMMA NextIInv == IInv /\ [Next]_vars => IInv'
  BY NextTypeOK, NextControlInv, NextWakeupInv DEF IInv

\* The inductive invariant holds in every state of every run of the reactor.
LEMMA Invariance == Spec => []IInv
  BY InitIInv, NextIInv, PTL DEF Spec

\* No functor is left waiting in pendingFunctors_ while the loop sleeps in
\* epoll_wait without a wakeup come or coming (queueInLoop).
THEOREM WakeupNotLost == Spec => []NoLostWakeup
<1>1. IInv => NoLostWakeup
  BY DEF IInv, WakeupInv, NoLostWakeup
<1> QED
  BY <1>1, Invariance, PTL

-----------------------------------------------------------------------------
(* The reactor implements the task queue.                                  *)

\* Every step of the reactor, with the swap hidden, is a step of the task queue
\* or leaves it as it was.
LEMMA NextImplements == IInv /\ [Next]_vars => [Tasks!Next]_(Tasks!vars)
<1> SUFFICES ASSUME IInv, [Next]_vars PROVE [Tasks!Next]_(Tasks!vars)
  OBVIOUS
<1> USE DEF IInv, TypeOK, ControlInv, loopVars
<1> DEFINE todo == functors \o pendingFunctors
<1>0. ASSUME loopPc # "done", PushFunctor, UNCHANGED loopVars PROVE Tasks!Submit
  <2>1. Len(executed) + Len(todo) + 1 = Submitted + 1
    BY DEF Submitted
  <2>2. todo' = Append(todo, Submitted + 1)
    BY <1>0 DEF PushFunctor
  <2> QED
    BY <1>0, <2>1, <2>2 DEF Tasks!Submit
<1>1. CASE RunFunctor
  <2>1. Head(todo) = Head(functors) /\ Tail(todo) = Tail(functors) \o pendingFunctors /\ todo # <<>>
    BY <1>1 DEF RunFunctor
  <2> QED
    BY <1>1, <2>1 DEF RunFunctor, Tasks!Next, Tasks!Run
<1>2. CASE SwapFunctors
  <2>1. todo = pendingFunctors /\ todo' = pendingFunctors
    BY <1>2 DEF SwapFunctors
  <2> QED
    BY <1>2, <2>1 DEF SwapFunctors, Tasks!vars
<1>3. CASE \E t \in Callers : QueueInLoop(t)
  BY <1>0, <1>3 DEF QueueInLoop, Tasks!Next
<1>4. CASE LoopThreadQueueInLoop
  <2>1. loopPc # "done"
    BY <1>4 DEF LoopThreadQueueInLoop, InUserCode
  <2> QED
    BY <1>0, <1>4, <2>1 DEF LoopThreadQueueInLoop, Tasks!Next
<1>5. CASE TestQuit
  BY <1>5 DEF TestQuit, Tasks!Next, Tasks!Close, Tasks!vars
<1>6. CASE \/ \E t \in Callers : Quit(t) \/ Wakeup(t)
           \/ LoopThreadQuit \/ BodyReturns \/ HandleWakeup
           \/ \E c \in Channels : HandleEvent(c) \/ IoArrives(c)
           \/ UNCHANGED vars
  BY <1>6 DEF Quit, Wakeup, LoopThreadQuit, BodyReturns, HandleWakeup, HandleEvent,
              IoArrives, vars, Tasks!vars
<1>7. CASE StartLoop \/ PollEvents \/ PollNothing \/ HandlersDone \/ FunctorsDone
  BY <1>7 DEF StartLoop, PollEvents, PollNothing, HandlersDone, FunctorsDone, Tasks!vars
<1> QED
  BY <1>1, <1>2, <1>3, <1>4, <1>5, <1>6, <1>7 DEF Next, LoopThread

\* The reactor runs what its users queue as a task queue would: one at a
\* time, in the order queued, until loop() returns.
THEOREM Implementation == Spec => ImplementsTaskQueue
<1>1. Init => Tasks!Init
  BY DEF Init, Tasks!Init
<1> QED
  BY <1>1, Invariance, NextImplements, PTL DEF Spec, ImplementsTaskQueue, Tasks!Spec

-----------------------------------------------------------------------------
(* The task queue, and so the reactor, runs every task once and in order.  *)

Numbered(ran, todo) == \A i \in 1 .. Len(ran) + Len(todo) : (ran \o todo)[i] = i

FifoInv == Numbered(executed, functors \o pendingFunctors)

\* Submitting gives the next number to the new task.
LEMMA SubmitNumbered ==
  ASSUME NEW ran \in Seq(Nat), NEW todo \in Seq(Nat), Numbered(ran, todo)
  PROVE  Numbered(ran, Append(todo, Len(ran) + Len(todo) + 1))
<1> DEFINE all == ran \o todo
           n   == Len(ran) + Len(todo)
<1>1. all \in Seq(Nat) /\ Len(all) = n /\ n \in Nat
  OBVIOUS
<1>2. ran \o Append(todo, n + 1) = Append(all, n + 1)
  OBVIOUS
<1>3. Len(Append(todo, n + 1)) = Len(todo) + 1
  OBVIOUS
<1>4. \A i \in 1 .. n : all[i] = i
  BY DEF Numbered
<1> HIDE DEF all
<1>5. \A i \in 1 .. n + 1 : Append(all, n + 1)[i] = i
  BY <1>1, <1>4
<1> QED
  BY <1>1, <1>2, <1>3, <1>5 DEF Numbered

\* Running moves the oldest task from one list to the end of the other.
LEMMA RunNumbered ==
  ASSUME NEW ran \in Seq(Nat), NEW todo \in Seq(Nat), todo # <<>>, Numbered(ran, todo)
  PROVE  Numbered(Append(ran, Head(todo)), Tail(todo))
<1> DEFINE moved == Append(ran, Head(todo)) \o Tail(todo)
           all   == ran \o todo
<1>0. todo \in Seq(Nat) /\ Len(todo) > 0 /\ Head(todo) \in Nat /\ Tail(todo) \in Seq(Nat)
      /\ Len(Tail(todo)) = Len(todo) - 1
  OBVIOUS
<1>1. moved = all
  <2>1. moved \in Seq(Nat) /\ all \in Seq(Nat) /\ Len(moved) = Len(all)
    BY <1>0
  <2>2. \A i \in 1 .. Len(all) : moved[i] = all[i]
    BY <1>0
  <2> HIDE DEF moved, all
  <2> QED
    BY <2>1, <2>2, SeqEqual
<1>2. Len(Append(ran, Head(todo))) + Len(Tail(todo)) = Len(ran) + Len(todo)
  BY <1>0
<1> QED
  BY <1>1, <1>2 DEF Numbered

\* Every step keeps the functors in order.
LEMMA NextFifoInv == IInv /\ FifoInv /\ [Next]_vars => FifoInv'
<1> SUFFICES ASSUME IInv, FifoInv, [Tasks!Next]_(Tasks!vars) PROVE FifoInv'
  BY NextImplements
<1> USE DEF IInv, TypeOK
<1> DEFINE todo == functors \o pendingFunctors
<1>1. todo \in Seq(Nat) /\ Numbered(executed, todo)
  BY DEF FifoInv
<1>2. CASE Tasks!Submit
  BY <1>1, <1>2, SubmitNumbered DEF Tasks!Submit, FifoInv
<1>3. CASE Tasks!Run
  BY <1>1, <1>3, RunNumbered DEF Tasks!Run, FifoInv
<1>4. CASE Tasks!Close \/ UNCHANGED Tasks!vars
  BY <1>1, <1>4 DEF Tasks!Close, Tasks!vars, FifoInv
<1> QED
  BY <1>2, <1>3, <1>4 DEF Tasks!Next

\* Each functor is run at most once, none is skipped, and in the order in
\* which the functors were pushed (queueInLoop, doPendingFunctors).
THEOREM FunctorsInOrder == Spec => []FifoExactlyOnce
<1>1. Init => FifoInv
  BY DEF Init, FifoInv, Numbered
<1>2. IInv /\ FifoInv => FifoExactlyOnce
  <2> SUFFICES ASSUME IInv, FifoInv PROVE FifoExactlyOnce
    OBVIOUS
  <2>1. (executed \o functors) \o pendingFunctors = executed \o (functors \o pendingFunctors)
    BY DEF IInv, TypeOK
  <2>2. Len(executed \o (functors \o pendingFunctors))
          = Len(executed) + Len(functors \o pendingFunctors)
    BY DEF IInv, TypeOK
  <2> QED
    BY <2>1, <2>2 DEF FifoInv, Numbered, FifoExactlyOnce
<1> QED
  BY <1>1, <1>2, Invariance, NextFifoInv, PTL DEF Spec

-----------------------------------------------------------------------------
(* TcpClient: what the user has been told says how far the client is.      *)

UpDownCleanup == <<"up", "down", "cleanup">>

\* Which callbacks have been called, and which of them runs.
HeardInv ==
  /\ heard \in {<<>>, <<"error">>, <<"up">>, <<"up", "down">>, UpDownCleanup}
  /\ pc = "up" => heard = <<"up">>
  /\ pc = "down" <=> heard = <<"up", "down">>
  /\ pc = "cleanup" => heard = UpDownCleanup
  /\ pc = "error" => heard = <<"error">>

\* connect() is tried again only as long as nothing has come of it.
RetryInv ==
  /\ ~called => heard = <<>> /\ connectTimes = 0
  /\ retrying => called /\ heard = <<>> /\ connectTimes <= maxRetryTimes

\* The connection's channel is in the poller until connectionDestroyed, which
\* onCleanup has queued by the time it returns.
ChannelInv ==
  /\ reading <=> heard = <<"up">>
  /\ inPoller => heard \in {<<"up">>, <<"up", "down">>, UpDownCleanup}
  /\ reading \/ pc \in {"down", "cleanup"} => inPoller /\ ~destroying
  /\ destroying => heard = UpDownCleanup
  /\ pc = "loop" /\ heard = UpDownCleanup => (inPoller <=> destroying)

\* The user lets go after an error or a cleanup, not before.
OwnerInv ==
  /\ owned <=> dropped = "no"
  /\ ~owned => heard \in {<<"error">>, UpDownCleanup}
  /\ ~owned /\ pc = "cleanup" => dropped = "cleanup"
  /\ failure => dropped = "cleanup"

ClientInv == ClientTypeOK /\ HeardInv /\ RetryInv /\ ChannelInv /\ OwnerInv

\* What a callback adds to what was heard.
LEMMA Heard ==
  /\ Append(<<>>, "up") = <<"up">>
  /\ Append(<<>>, "error") = <<"error">>
  /\ Append(<<"up">>, "down") = <<"up", "down">>
  /\ Append(<<"up", "down">>, "cleanup") = UpDownCleanup
<1> DEFINE S == {"up", "down", "cleanup", "error"}
<1>1. /\ Append(<<>>, "up") = <<"up">>
      /\ Append(<<>>, "error") = <<"error">>
  OBVIOUS
<1>2. Append(<<"up">>, "down") = <<"up", "down">>
  <2> DEFINE s == Append(<<"up">>, "down")
             t == <<"up", "down">>
  <2>1. s \in Seq(S) /\ t \in Seq(S) /\ Len(s) = 2 /\ Len(t) = 2
    OBVIOUS
  <2>2. s[1] = t[1] /\ s[2] = t[2]
    OBVIOUS
  <2> HIDE DEF s, t
  <2>3. \A i \in 1 .. Len(s) : s[i] = t[i]
    BY <2>1, <2>2
  <2>4. s = t
    BY <2>1, <2>3, SeqEqual
  <2> QED BY <2>4 DEF s, t
<1>3. Append(<<"up", "down">>, "cleanup") = UpDownCleanup
  <2> DEFINE s == Append(<<"up", "down">>, "cleanup")
             t == UpDownCleanup
  <2>1. s \in Seq(S) /\ t \in Seq(S) /\ Len(s) = 3 /\ Len(t) = 3
    BY DEF UpDownCleanup
  <2>2. s[1] = t[1] /\ s[2] = t[2] /\ s[3] = t[3]
    BY DEF UpDownCleanup
  <2> HIDE DEF s, t
  <2>3. \A i \in 1 .. Len(s) : s[i] = t[i]
    BY <2>1, <2>2
  <2>4. s = t
    BY <2>1, <2>3, SeqEqual
  <2> QED BY <2>4 DEF s, t
<1> QED BY <1>1, <1>2, <1>3

\* Nothing that was heard is like anything else.
LEMMA HeardDiffer ==
  /\ <<"error">> # <<>> /\ <<"up">> # <<>> /\ <<"up", "down">> # <<>> /\ UpDownCleanup # <<>>
  /\ <<"error">> # <<"up">> /\ <<"error">> # <<"up", "down">> /\ <<"error">> # UpDownCleanup
  /\ <<"up">> # <<"up", "down">> /\ <<"up">> # UpDownCleanup
  /\ <<"up", "down">> # UpDownCleanup
BY DEF UpDownCleanup

\* The constructor.
LEMMA ClientInitInv == ClientInit => ClientInv
<1> SUFFICES ASSUME ClientInit PROVE ClientInv
  OBVIOUS
<1>1. ClientTypeOK
  <2>1. /\ retrying \in BOOLEAN /\ called \in BOOLEAN /\ peerGone \in BOOLEAN
        /\ reading \in BOOLEAN /\ inPoller \in BOOLEAN /\ destroying \in BOOLEAN
        /\ owned \in BOOLEAN /\ failure \in BOOLEAN
    BY Zenon DEF ClientInit
  <2> QED BY <2>1 DEF ClientInit, ClientTypeOK, maxRetryTimes, maxRetryDelayMs
<1>2. HeardInv /\ RetryInv /\ ChannelInv /\ OwnerInv
  BY HeardDiffer DEF ClientInit, HeardInv, RetryInv, ChannelInv, OwnerInv, maxRetryTimes
<1> QED BY <1>1, <1>2 DEF ClientInv

\* All the proofs need of maxRetryTimes and maxRetryDelayMs_.
LEMMA RetryConstants == maxRetryTimes \in Nat /\ maxRetryDelayMs \in Nat /\ maxRetryDelayMs > 0
  BY DEF maxRetryTimes, maxRetryDelayMs

\* The types after an attempt to connect.
LEMMA AttemptType ==
  ASSUME ClientTypeOK, connectTimes <= maxRetryTimes, Attempt,
         called' = TRUE, UNCHANGED <<peerGone, owned, dropped, failure>>
  PROVE  ClientTypeOK'
<1> DEFINE Socks == {"idle", "connecting", "established", "refused", "timedOut", "connected", "closed"}
           Words == Seq({"up", "down", "cleanup", "error"})
           Times == 0 .. maxRetryTimes + 1
           Delays == 1 .. 2 * maxRetryDelayMs
<1>1. connectTimes \in Times /\ retryDelayMs \in Delays /\ sock \in Socks /\ heard \in Words
  BY DEF ClientTypeOK
<1>2. connectTimes + 1 \in Times /\ 0 \in Times /\ Backoff \in Delays
  BY <1>1, RetryConstants DEF Backoff
<1>3. \A r \in ConnectResults : r[2] \in Socks
  BY <1>1 DEF ConnectResults
<1>4. Append(heard, "up") \in Words /\ Append(heard, "error") \in Words
  BY <1>1
<1> HIDE DEF Socks, Words, Times, Delays
<1>5. retrying' \in BOOLEAN
  BY Zenon DEF Attempt
<1>6. connectTimes' \in Times /\ retryDelayMs' \in Delays /\ sock' \in Socks /\ heard' \in Words
  <2>1. CASE \E r \in ConnectResults : InitConnection /\ sock' = r[2]
    BY <1>1, <1>2, <1>3, <1>4, <2>1, Zenon DEF InitConnection, Tell
  <2>2. CASE \E r \in ConnectResults : Retry /\ sock' = r[2]
    BY <1>1, <1>2, <1>3, <2>2, Zenon DEF Retry
  <2>3. CASE GiveUp
    <3>1. "closed" \in Socks
      BY DEF Socks
    <3> QED BY <1>1, <1>2, <1>4, <2>3, <3>1, Zenon DEF GiveUp, Tell
  <2> QED BY <2>1, <2>2, <2>3, Zenon DEF Attempt
<1>7. /\ state' \in {"kDisconnected", "kConnected", "kConnectError"}
      /\ conn' \in {"kConnecting", "kConnected", "kDisconnecting", "kDisconnected"}
      /\ pc' \in {"loop", "up", "down", "cleanup", "error"}
  BY DEF ClientTypeOK, Attempt, InitConnection, Retry, GiveUp, Tell
<1>8. reading' \in BOOLEAN /\ inPoller' \in BOOLEAN /\ destroying' \in BOOLEAN
  BY Zenon DEF ClientTypeOK, Attempt, InitConnection, Retry, GiveUp
<1>9. /\ called' \in BOOLEAN /\ peerGone' \in BOOLEAN /\ owned' \in BOOLEAN
      /\ dropped' \in {"no", "loop", "cleanup", "error"} /\ failure' \in BOOLEAN
  BY Zenon DEF ClientTypeOK
<1> QED BY <1>5, <1>6, <1>7, <1>8, <1>9, Zenon DEF ClientTypeOK, Socks, Words, Times, Delays

\* An attempt is made by connect() or by the timer, before anything has been heard.
LEMMA AttemptStep ==
  ASSUME ClientInv, pc = "loop", owned, ~called \/ retrying, Attempt, peerGone' = peerGone,
         called' = TRUE, owned' = owned, dropped' = dropped, failure' = failure
  PROVE  ClientInv'
<1>2. heard = <<>> /\ connectTimes \in 0 .. maxRetryTimes
  <2>1. heard = <<>> /\ (connectTimes = 0 \/ connectTimes <= maxRetryTimes)
    BY Zenon DEF ClientInv, RetryInv
  <2> QED BY <2>1 DEF ClientInv, ClientTypeOK, maxRetryTimes
<1>1. ClientTypeOK'
  BY <1>2, AttemptType DEF ClientInv, maxRetryTimes
<1>3. ~reading /\ ~inPoller /\ ~destroying
  BY <1>2, HeardDiffer DEF ClientInv, ChannelInv
<1>4. CASE InitConnection /\ retrying' = FALSE
  <2>1. heard' = <<"up">> /\ pc' = "up" /\ reading' /\ inPoller' /\ ~destroying'
    BY <1>2, <1>3, <1>4, Heard DEF InitConnection, Tell
  <2> QED BY <1>1, <1>4, <2>1, HeardDiffer DEF ClientInv, HeardInv, RetryInv, ChannelInv, OwnerInv
<1>5. CASE Retry /\ connectTimes < maxRetryTimes
  BY <1>1, <1>2, <1>3, <1>5, HeardDiffer
     DEF ClientInv, ClientTypeOK, HeardInv, RetryInv, ChannelInv, OwnerInv, Retry, maxRetryTimes
<1>6. CASE GiveUp /\ retrying' = FALSE
  <2>1. heard' = <<"error">> /\ pc' = "error" /\ ~reading' /\ ~inPoller' /\ ~destroying'
    BY <1>2, <1>3, <1>6, Heard DEF GiveUp, Tell
  <2> QED BY <1>1, <1>6, <2>1, HeardDiffer DEF ClientInv, HeardInv, RetryInv, ChannelInv, OwnerInv
<1> QED BY <1>4, <1>5, <1>6 DEF Attempt

\* Every other step is a call of the user's, an event of the connection or the network.
LEMMA ClientNextInv == ClientInv /\ [ClientNext]_clientVars => ClientInv'
<1> SUFFICES ASSUME ClientInv, [ClientNext]_clientVars PROVE ClientInv'
  OBVIOUS
<1> USE DEF ClientInv
<1>1. CASE Connect
  BY <1>1, AttemptStep DEF Connect, userVars
<1>2. CASE RetryTimer
  <2>1. owned
    BY <1>2, HeardDiffer DEF RetryTimer, RetryInv, OwnerInv
  <2>2. failure' = failure /\ called' = TRUE
    BY <1>2, <2>1 DEF RetryTimer, ClientAlive, RetryInv, ClientTypeOK
  <2> QED BY <1>2, <2>1, <2>2, AttemptStep DEF RetryTimer, userVars
<1>3. CASE Shutdown
  <2>1. ClientTypeOK'
    BY <1>3 DEF Shutdown, ClientTypeOK, tryVars, userVars
  <2> QED BY <1>3, <2>1 DEF Shutdown, tryVars, userVars, HeardInv, RetryInv, ChannelInv, OwnerInv
<1>4. CASE Drop
  <2>1. heard \in {<<"error">>, UpDownCleanup}
    BY <1>4 DEF Drop, HeardInv
  <2>2. ClientTypeOK'
    <3>1. pc \in {"loop", "cleanup", "error"} /\ owned' \in BOOLEAN /\ dropped' = pc
      BY <1>4 DEF Drop
    <3>2. /\ UNCHANGED <<state, connectTimes, retryDelayMs, retrying, called, sock, peerGone>>
          /\ UNCHANGED <<conn, reading, inPoller, destroying, pc, failure, heard>>
      BY <1>4 DEF Drop, tryVars
    <3> QED BY <3>1, <3>2 DEF ClientTypeOK
  <2> QED BY <1>4, <2>1, <2>2, HeardDiffer
         DEF Drop, tryVars, HeardInv, RetryInv, ChannelInv, OwnerInv
<1>5. CASE HandleClose
  <2>1. owned /\ heard = <<"up">> /\ inPoller /\ ~destroying
    BY <1>5, HeardDiffer DEF HandleClose, ChannelInv, OwnerInv
  <2>2. failure' = failure /\ heard' = <<"up", "down">>
    BY <1>5, <2>1, Heard DEF HandleClose, ClientAlive, ClientTypeOK, Tell
  <2>3. ClientTypeOK'
    <3>1. /\ state' = "kDisconnected" /\ conn' = "kDisconnected" /\ pc' = "down"
          /\ reading' = FALSE /\ failure' = failure /\ heard' = Append(heard, "down")
      BY <1>5, <2>2 DEF HandleClose, Tell
    <3>2. /\ UNCHANGED <<connectTimes, retryDelayMs, retrying, called, sock, peerGone>>
          /\ UNCHANGED <<inPoller, destroying, owned, dropped>>
      BY <1>5 DEF HandleClose, tryVars, userVars
    <3>3. heard' \in Seq({"up", "down", "cleanup", "error"})
      BY <3>1 DEF ClientTypeOK
    <3>4. /\ state' \in {"kDisconnected", "kConnected", "kConnectError"}
          /\ conn' \in {"kConnecting", "kConnected", "kDisconnecting", "kDisconnected"}
          /\ pc' \in {"loop", "up", "down", "cleanup", "error"} /\ reading' \in BOOLEAN
      BY <3>1
    <3>5. /\ connectTimes' \in 0 .. maxRetryTimes + 1 /\ retryDelayMs' \in 1 .. 2 * maxRetryDelayMs
          /\ sock' \in {"idle", "connecting", "established", "refused", "timedOut", "connected", "closed"}
          /\ dropped' \in {"no", "loop", "cleanup", "error"}
      BY <3>2 DEF ClientTypeOK
    <3>6. /\ retrying' \in BOOLEAN /\ called' \in BOOLEAN /\ peerGone' \in BOOLEAN
          /\ inPoller' \in BOOLEAN /\ destroying' \in BOOLEAN /\ owned' \in BOOLEAN
          /\ failure' \in BOOLEAN
      BY <3>1, <3>2 DEF ClientTypeOK
    <3> QED BY <3>3, <3>4, <3>5, <3>6 DEF ClientTypeOK
  <2>4. pc' = "down" /\ ~reading' /\ UNCHANGED <<connectTimes, retrying, called, inPoller>>
    BY <1>5 DEF HandleClose, tryVars, Tell
  <2>5. UNCHANGED <<destroying, owned, dropped>>
    BY <1>5 DEF HandleClose, userVars
  <2>6. HeardInv' /\ RetryInv'
    BY <2>1, <2>2, <2>4, HeardDiffer DEF HeardInv, RetryInv
  <2>7. ChannelInv' /\ OwnerInv'
    BY <2>1, <2>2, <2>4, <2>5, HeardDiffer DEF ChannelInv, OwnerInv
  <2> QED BY <2>3, <2>6, <2>7
<1>6. CASE OnCleanup
  <2>1. heard = <<"up", "down">> /\ heard' = UpDownCleanup
    BY <1>6, Heard DEF OnCleanup, Tell, HeardInv
  <2>2. ClientTypeOK'
    BY <1>6, <2>1 DEF OnCleanup, ClientTypeOK, tryVars, userVars, Tell, UpDownCleanup
  <2> QED BY <1>6, <2>1, <2>2, HeardDiffer
         DEF OnCleanup, tryVars, userVars, Tell, HeardInv, RetryInv, ChannelInv, OwnerInv
<1>7. CASE Cleanup
  <2>1. heard = UpDownCleanup /\ (~owned => dropped = "cleanup")
    BY <1>7 DEF Cleanup, HeardInv, OwnerInv
  <2>2. ClientTypeOK'
    BY <1>7 DEF Cleanup, ClientTypeOK, tryVars, userVars
  <2> QED BY <1>7, <2>1, <2>2, HeardDiffer
         DEF Cleanup, tryVars, userVars, HeardInv, RetryInv, ChannelInv, OwnerInv
<1>8. CASE CallbackReturns
  <2>1. failure' = failure /\ heard \in {<<"up">>, <<"error">>}
    BY <1>8, HeardDiffer DEF CallbackReturns, HeardInv, OwnerInv, ClientTypeOK
  <2>2. ClientTypeOK'
    BY <1>8, <2>1 DEF CallbackReturns, ClientTypeOK, tryVars, userVars
  <2> QED BY <1>8, <2>1, <2>2, HeardDiffer
         DEF CallbackReturns, tryVars, userVars, HeardInv, RetryInv, ChannelInv, OwnerInv
<1>9. CASE ConnectionDestroyed
  <2>1. heard = UpDownCleanup /\ ~reading /\ inPoller
    BY <1>9, HeardDiffer DEF ConnectionDestroyed, ChannelInv
  <2>2. failure' = failure
    BY <1>9, <2>1 DEF ConnectionDestroyed, ConnAlive, ClientTypeOK
  <2>3. ClientTypeOK'
    <3>1. destroying' \in BOOLEAN /\ inPoller' \in BOOLEAN /\ failure' = failure
      BY <1>9, <2>2 DEF ConnectionDestroyed
    <3>2. /\ UNCHANGED <<state, connectTimes, retryDelayMs, retrying, called, sock, peerGone>>
          /\ UNCHANGED <<conn, reading, pc, owned, dropped, heard>>
      BY <1>9 DEF ConnectionDestroyed, tryVars, userVars
    <3> QED BY <3>1, <3>2 DEF ClientTypeOK
  <2> QED BY <1>9, <2>1, <2>2, <2>3, HeardDiffer
         DEF ConnectionDestroyed, tryVars, userVars, HeardInv, RetryInv, ChannelInv, OwnerInv
<1>10. CASE Handshake
  <2>1. ClientTypeOK'
    BY <1>10 DEF Handshake, ClientTypeOK, tryVars, userVars
  <2> QED BY <1>10, <2>1 DEF Handshake, tryVars, userVars, HeardInv, RetryInv, ChannelInv, OwnerInv
<1>11. CASE PeerCloses
  <2>1. ClientTypeOK'
    BY <1>11 DEF PeerCloses, ClientTypeOK, tryVars, userVars
  <2> QED BY <1>11, <2>1 DEF PeerCloses, tryVars, userVars, HeardInv, RetryInv, ChannelInv, OwnerInv
<1>12. CASE UNCHANGED clientVars
  BY <1>12 DEF clientVars, ClientTypeOK, HeardInv, RetryInv, ChannelInv, OwnerInv
<1> QED
  BY <1>1, <1>2, <1>3, <1>4, <1>5, <1>6, <1>7, <1>8, <1>9, <1>10, <1>11, <1>12 DEF ClientNext

\* ClientInv holds throughout.
LEMMA ClientInvariant == ClientSpec => []ClientInv
  BY ClientInitInv, ClientNextInv, PTL DEF ClientSpec

\* The client's variables keep their types: connect() makes maxRetryTimes attempts
\* and one more call that gives up, and its delay is at most twice maxRetryDelayMs_.
THEOREM ClientTypeCorrect == ClientSpec => []ClientTypeOK
<1>1. ClientInv => ClientTypeOK
  BY DEF ClientInv
<1> QED BY <1>1, ClientInvariant, PTL

\* The user is told of one error and nothing else, or of up, down and cleanup, in
\* this order (connect, onConnection, onCleanup).
THEOREM CallbacksOnce == ClientSpec => []CallbackProtocol
<1>1. ClientInv => CallbackProtocol
  <2> DEFINE t == <<"up", "down", "cleanup">>
  <2>1. SubSeq(t, 1, 1) = <<"up">> /\ SubSeq(t, 1, 2) = <<"up", "down">> /\ SubSeq(t, 1, 3) = t
    <3>1. t \in Seq({"up", "down", "cleanup"}) /\ Len(t) = 3
      OBVIOUS
    <3>2. SubSeq(t, 1, 3) = t
      BY <3>1, SubSeqFull
    <3>3. SubSeq(t, 1, 0) = <<>>
      BY SubSeqEmpty
    <3>4. SubSeq(t, 1, 1) = SubSeq(t, 1, 0) \o <<t[1]>>
      BY <3>1, SubSeqRecursiveSecond
    <3>5. SubSeq(t, 1, 2) = SubSeq(t, 1, 1) \o <<t[2]>>
      BY <3>1, SubSeqRecursiveSecond
    <3>6. SubSeq(t, 1, 1) = <<"up">>
      <4>1. <<>> \o <<t[1]>> = <<t[1]>>
        BY ConcatEmptySeq
      <4> QED BY <3>3, <3>4, <4>1
    <3>7. <<"up">> \o <<"down">> = Append(<<"up">>, "down")
      BY AppendIsConcat
    <3> QED BY <3>1, <3>2, <3>5, <3>6, <3>7, Heard
  <2>2. Len(<<"up">>) = 1 /\ Len(<<"up", "down">>) = 2 /\ Len(t) = 3
    OBVIOUS
  <2> QED BY <2>1, <2>2 DEF ClientInv, HeardInv, CallbackProtocol, UpDownCleanup
<1> QED BY <1>1, ClientInvariant, PTL

\* A client that was dropped outside cleanupCallback_ is used no more, and its
\* connection lives until its channel is out of the poller (connect, onCleanup).
THEOREM ClientSafeToDrop == ClientSpec => []SafeToDrop
<1>1. ClientInv => SafeToDrop
  BY HeardDiffer
     DEF ClientInv, HeardInv, ChannelInv, OwnerInv, SafeToDrop, ConnAlive, ClientAlive, ClientTypeOK
<1> QED BY <1>1, ClientInvariant, PTL
=============================================================================
