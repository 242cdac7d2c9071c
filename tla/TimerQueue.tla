------------------------------ MODULE TimerQueue ------------------------------
(***************************************************************************)
(* The timers of a loop (matelib/TimerQueue.cc, Timer.h): an ordered set   *)
(* of (when, Timer* ) entries and one timerfd, armed for one expiration at *)
(* a time.                                                                 *)
(*                                                                         *)
(* Time is counted in units of the shortest delay the code arms, 100       *)
(* microseconds.  A timer is its address; entries with the same key are    *)
(* ordered by it.  Callbacks run user code on the loop's thread, which may *)
(* add and cancel timers at once (runInLoop runs inline); other threads    *)
(* queue those operations as functors, which the loop runs in order        *)
(* between its handlers (module EventLoop).                                *)
(***************************************************************************)
EXTENDS Integers, Sequences

CONSTANTS
  Timers,     \* the addresses a Timer can have, each used once
  Delays,     \* the delays given to runAfter
  Intervals,  \* the intervals given to runEvery
  MaxTime,    \* bound: the clock stops there
  MaxQueue    \* bound: functors waiting at a time

ASSUME TimersAssumption == Timers \subseteq Nat
ASSUME DelaysAssumption == Delays \subseteq Nat /\ Intervals \subseteq Nat \ {0}
ASSUME BoundsAssumption == MaxTime \in Nat /\ MaxQueue \in Nat

VARIABLES
  now,             \* the clock
  heap,            \* each timer: "unused" (not yet new'ed), "live" or "deleted"
  expiration,      \* Timer::expiration_
  interval,        \* Timer::intervalInSec_, 0 for a one-shot timer
  idWhen,          \* TimerId::when_, as the caller of addTimer got it
  functors,        \* the operations queued by other threads
  timers,          \* timers_
  timerfd,         \* when the timerfd becomes readable, or Disarmed
  pc,              \* "idle", or "run" inside handleRead
  handleNow,       \* the local now of handleRead
  expired,         \* the local vector of handleRead, as a set of entries
  toRun,           \* those of its entries whose callbacks are still to run
  cancelingTimers, \* cancelingTimers_
  ran,             \* history: the timers that ran at least once
  cancelled,       \* history: the timers cancelTimerInLoop was called for
  missed           \* history: those it was called for before their addTimerInLoop

vars == <<now, heap, expiration, interval, idWhen, functors, timers, timerfd,
          pc, handleNow, expired, toRun, cancelingTimers, ran, cancelled, missed>>

timerVars == <<heap, expiration, interval, idWhen>>
handlerVars == <<pc, handleNow, expired, toRun>>
history == <<ran, cancelled, missed>>

Disarmed == -1

Entries == [when : Nat, timer : Timers]
Entry(t) == [when |-> idWhen[t], timer |-> t]
TimersOf(S) == {e.timer : e \in S}

TypeOK ==
  /\ now \in Nat
  /\ heap \in [Timers -> {"unused", "live", "deleted"}]
  /\ expiration \in [Timers -> Nat]
  /\ interval \in [Timers -> Nat]
  /\ idWhen \in [Timers -> Nat]
  /\ functors \in Seq([op : {"add", "cancel"}, timer : Timers])
  /\ timers \in SUBSET Entries
  /\ timerfd \in Nat \cup {Disarmed}
  /\ pc \in {"idle", "run"}
  /\ handleNow \in Nat
  /\ expired \in SUBSET Entries
  /\ toRun \in SUBSET expired
  /\ cancelingTimers \in SUBSET Entries
  /\ ran \in SUBSET Timers
  /\ cancelled \in SUBSET Timers
  /\ missed \in SUBSET Timers

Init ==
  /\ now = 0
  /\ heap = [t \in Timers |-> "unused"]
  /\ expiration = [t \in Timers |-> 0]
  /\ interval = [t \in Timers |-> 0]
  /\ idWhen = [t \in Timers |-> 0]
  /\ functors = <<>>
  /\ timers = {}
  /\ timerfd = Disarmed
  /\ pc = "idle"
  /\ handleNow = 0
  /\ expired = {}
  /\ toRun = {}
  /\ cancelingTimers = {}
  /\ ran = {}
  /\ cancelled = {}
  /\ missed = {}

-----------------------------------------------------------------------------
(* The order of timers_ and the timerfd.                                   *)

Before(e, f) == e.when < f.when \/ (e.when = f.when /\ e.timer < f.timer)

\* e is *S.begin().
IsBegin(e, S) == e \in S /\ \A f \in S \ {e} : Before(e, f)

\* resetTimerfd: timerfd_settime to the given expiration, at least one unit away.
Arm(when) == IF when > now + 1 THEN when ELSE now + 1

Readable == timerfd # Disarmed /\ now >= timerfd

-----------------------------------------------------------------------------
(* The operations, as the loop's thread performs them.                     *)

\* Faulty variant: the timerfd is armed for an empty queue only.
IntoEmpty(when) == timers = {}

\* addTimerInLoop's test: the queue is empty or the timer goes before its begin().
IsEarliest(when) == \A e \in timers : when < e.when

\* addTimerInLoop.
AddTimerInLoop(t, when) ==
  /\ timers' = timers \cup {[when |-> when, timer |-> t]}
  /\ timerfd' = IF IsEarliest(when) THEN Arm(when) ELSE timerfd
  /\ UNCHANGED <<now, handlerVars, cancelingTimers, history>>

\* t's addTimerInLoop is still to run.
Queued(t) == \E i \in DOMAIN functors : functors[i] = [op |-> "add", timer |-> t]

\* cancelTimerInLoop.  callingExpiredTimers_ is true exactly while pc = "run".
CancelTimerInLoop(t) ==
  /\ IF Entry(t) \in timers
       THEN /\ timers' = timers \ {Entry(t)}
            /\ heap' = [heap EXCEPT ![t] = "deleted"]
            /\ UNCHANGED cancelingTimers
       ELSE /\ cancelingTimers' = IF pc = "run" THEN cancelingTimers \cup {Entry(t)}
                                               ELSE cancelingTimers
            /\ UNCHANGED <<timers, heap>>
  /\ cancelled' = cancelled \cup {t}
  /\ missed' = IF Queued(t) THEN missed \cup {t} ELSE missed
  /\ UNCHANGED <<now, expiration, interval, idWhen, timerfd, handlerVars, ran>>

-----------------------------------------------------------------------------
(* Calls.                                                                  *)

\* addTimer's new Timer(cb, when, interval) and the TimerId it returns.
NewTimer(t, when, every) ==
  /\ heap[t] = "unused"
  /\ heap' = [heap EXCEPT ![t] = "live"]
  /\ expiration' = [expiration EXCEPT ![t] = when]
  /\ interval' = [interval EXCEPT ![t] = every]
  /\ idWhen' = [idWhen EXCEPT ![t] = when]

\* The arguments of runAfter(delay) and runEvery(interval).
Requests == [delay : Delays, every : {0}] \cup {[delay |-> i, every |-> i] : i \in Intervals}

\* User code on the loop's thread: in another channel's handler or a functor,
\* or in a timer's callback (at least one has been entered).
InUserCode == pc = "idle" \/ toRun # expired

LoopThreadAdd(t, r) ==
  /\ InUserCode
  /\ NewTimer(t, now + r.delay, r.every)
  /\ AddTimerInLoop(t, now + r.delay)
  /\ UNCHANGED functors

LoopThreadCancel(t) ==
  /\ InUserCode
  /\ heap[t] # "unused"
  /\ CancelTimerInLoop(t)
  /\ UNCHANGED functors

Post(op, t) ==
  /\ Len(functors) < MaxQueue
  /\ functors' = Append(functors, [op |-> op, timer |-> t])

OtherThreadAdd(t, r) ==
  /\ NewTimer(t, now + r.delay, r.every)
  /\ Post("add", t)
  /\ UNCHANGED <<now, timers, timerfd, handlerVars, cancelingTimers, history>>

OtherThreadCancel(t) ==
  /\ heap[t] # "unused"
  /\ Post("cancel", t)
  /\ UNCHANGED <<now, timerVars, timers, timerfd, handlerVars, cancelingTimers, history>>

-----------------------------------------------------------------------------
(* The loop.                                                               *)

RunFunctor ==
  /\ pc = "idle"
  /\ functors # <<>>
  /\ functors' = Tail(functors)
  /\ LET f == Head(functors)
     IN  \/ /\ f.op = "add"
            /\ AddTimerInLoop(f.timer, expiration[f.timer])
            /\ UNCHANGED timerVars
         \/ /\ f.op = "cancel"
            /\ CancelTimerInLoop(f.timer)

\* Faulty variants: the entries of the next unit of time expire too; the sentry is
\* below the entries whose key is now.
ExpiredTooSoon == {e \in timers : e.when <= now + 1}
ExpiredBefore == {e \in timers : e.when < now}

\* getExpired: the sentry it searches for is above every entry whose key is now.
Expired == {e \in timers : e.when <= now}

\* The timerfd is readable: handleRead up to its first callback.
HandleRead ==
  /\ pc = "idle"
  /\ Readable
  /\ timerfd' = Disarmed
  /\ cancelingTimers' = {}
  /\ handleNow' = now
  /\ expired' = Expired
  /\ toRun' = expired'
  /\ timers' = timers \ expired'
  /\ pc' = "run"
  /\ UNCHANGED <<now, timerVars, functors, history>>

\* it->second->run().
RunExpired(e) ==
  /\ pc = "run"
  /\ IsBegin(e, toRun)
  /\ toRun' = toRun \ {e}
  /\ ran' = ran \cup {e.timer}
  /\ UNCHANGED <<now, timerVars, functors, timers, timerfd, pc, handleNow, expired,
                 cancelingTimers, cancelled, missed>>

\* Faulty variant: every repeating timer is restarted, cancelled or not.
RestartedAll == {e \in expired : interval[e.timer] > 0}

\* The timers reset restarts.
Restarted == {e \in expired : interval[e.timer] > 0 /\ e \notin cancelingTimers}

\* Faulty variant: the timers it deletes are put back too.
ReinsertedAll == expired

\* The entries it puts back: those of the timers it restarts, with the key they had.
Reinserted == Restarted

\* reset, after the last callback.
Reset ==
  /\ pc = "run"
  /\ toRun = {}
  /\ timers' = timers \cup Reinserted
  /\ expiration' = [t \in Timers |-> IF t \in TimersOf(Restarted)
                                       THEN handleNow + interval[t] ELSE expiration[t]]
  /\ heap' = [t \in Timers |-> IF t \in TimersOf(expired \ Restarted)
                                 THEN "deleted" ELSE heap[t]]
  /\ IF timers' = {}
       THEN UNCHANGED timerfd
       ELSE \E e \in timers' : IsBegin(e, timers') /\ timerfd' = Arm(expiration'[e.timer])
  /\ pc' = "idle"
  /\ expired' = {}
  /\ UNCHANGED <<now, interval, idWhen, functors, handleNow, toRun, cancelingTimers,
                 history>>

Tick ==
  /\ now < MaxTime
  /\ now' = now + 1
  /\ UNCHANGED <<timerVars, functors, timers, timerfd, handlerVars, cancelingTimers,
                 history>>

Next ==
  \/ \E t \in Timers, r \in Requests : LoopThreadAdd(t, r) \/ OtherThreadAdd(t, r)
  \/ \E t \in Timers : LoopThreadCancel(t) \/ OtherThreadCancel(t)
  \/ RunFunctor
  \/ HandleRead
  \/ \E e \in toRun : RunExpired(e)
  \/ Reset
  \/ Tick

Spec == Init /\ [][Next]_vars

-----------------------------------------------------------------------------
(* Properties.                                                             *)

\* No timer is forgotten or long overdue (addTimerInLoop, reset): whenever the queue holds
\* a timer and handleRead is not at work, the timerfd is armed, and for no later than any
\* timer's expiration (but for the minimal delay, howMuchTimeFromNow) while no repeating
\* timer has run.  Once some have, past keys that reset put back may hide an earlier timer;
\* it is late then, but by no more than one of their intervals, from its expiration or from
\* the last round if that came after it.
TimerfdArmed ==
  pc = "idle" /\ timers # {} =>
    /\ timerfd # Disarmed
    /\ \E late \in {0} \cup {interval[t] : t \in ran} : \A e \in timers :
         \/ timerfd <= Arm(expiration[e.timer] + late)
         \/ timerfd <= Arm(handleNow + late)

\* Ownership of a Timer (new in addTimer, delete in cancelTimerInLoop and
\* reset): a live timer is owned by one queued functor, one entry of timers_
\* or one entry of expired; a deleted one is in none of them, so no callback,
\* restart or delete reaches freed memory, and nothing leaks.
Ownership ==
  /\ \A e, f \in timers \cup expired : e.timer = f.timer => e = f
  /\ timers \cap expired = {}
  /\ \A t \in Timers :
       /\ heap[t] = "live" <=> (Queued(t) \/ t \in TimersOf(timers \cup expired))
       /\ ~(Queued(t) /\ t \in TimersOf(timers \cup expired))

\* Cancelling is final (cancelTimerInLoop, cancelingTimers_): once the loop has
\* cancelled a timer it held, the timer never goes back to timers_.  A timer
\* cancelled inside handleRead may at most finish the batch it was in.
CancelIsFinal == (cancelled \ missed) \cap TimersOf(timers) = {}

\* A timer's first callback is never early, and a one-shot timer has only one
\* (getExpired, reset).
FirstRunOnTime ==
  [][\A e \in toRun : RunExpired(e) =>
       /\ e.timer \notin ran => now >= expiration[e.timer]
       /\ interval[e.timer] = 0 => e.timer \notin ran]_vars

\* Every timer that is due is taken (getExpired): none whose expiration has come is
\* left in timers_, under whatever key reset put it, to wait for another expiration.
DueTimersTaken ==
  [][HandleRead =>
       \A t \in TimersOf(timers) : expiration[t] <= now => t \in TimersOf(expired')]_vars

\* TimerQueue.cc:129: when the earliest expiration of the queue changes, the timerfd
\* is armed again.  So a timer added between two rounds that expires before all the
\* others should have it armed for itself.
EarlierTimerArms ==
  [][pc = "idle" /\ pc' = "idle" =>
       \A t \in TimersOf(timers' \ timers) :
         (\A u \in TimersOf(timers) : expiration'[t] < expiration[u])
           => timerfd' <= Arm(expiration'[t])]_vars

\* Timer.h:35: a repeating timer's next expiration is the time of its run plus
\* its interval.  Its callback should not run before that.
NeverEarly == [][\A e \in toRun : RunExpired(e) => now >= expiration[e.timer]]_vars

\* The times that Timer.h:35, TimerQueue.cc:129 and TimerQueue.cc:220 promise: no callback
\* comes before its timer's expiration, and between two rounds the timerfd is armed for no
\* later than the timer that expires first, whichever of them repeat (restart,
\* addTimerInLoop, reset).
OnTime ==
  [][/\ \A e \in toRun : RunExpired(e) => now >= expiration[e.timer]
     /\ pc' = "idle" => \A t \in TimersOf(timers') : timerfd' <= Arm(expiration'[t])]_vars
=============================================================================
