-------------------------- MODULE TimerQueue_proofs --------------------------
(***************************************************************************)
(* Proofs about the timers of a loop, for any set of addresses, any delays *)
(* and intervals and any number of functors that wait: who owns a Timer,   *)
(* that cancelling is final, when callbacks run and what the timerfd is    *)
(* armed for.                                                              *)
(***************************************************************************)
EXTENDS TimerQueue, SequenceTheorems, TLAPS

-----------------------------------------------------------------------------
(* The inductive invariant.                                                *)

\* A TimerId finds its timer's entry: the key of an entry is the when_ that the
\* caller got, also after a restart.
EntryInv == \A e \in timers \cup expired : e = Entry(e.timer)

\* Each timer is added once, and only a timer that exists is added or cancelled.
QueueInv ==
  /\ \A i, j \in DOMAIN functors :
       functors[i].op = "add" /\ functors[j] = functors[i] => i = j
  /\ \A i \in DOMAIN functors : heap[functors[i].timer] # "unused"

\* A live timer has one owner.
OwnerInv ==
  /\ timers \cap expired = {}
  /\ \A t \in Timers : heap[t] = "live" <=> (Queued(t) \/ Entry(t) \in timers \cup expired)
  /\ \A t \in Timers : ~(Queued(t) /\ Entry(t) \in timers \cup expired)

IdleInv == pc = "idle" => expired = {}

\* A timer cancelled in the loop's hands is in nobody's, but for the batch it is in;
\* there reset finds it in cancelingTimers_.
CancelInv ==
  \A t \in cancelled :
    /\ heap[t] # "unused"
    /\ t \notin missed => /\ ~Queued(t)
                          /\ Entry(t) \notin timers
                          /\ Entry(t) \in expired => Entry(t) \in cancelingTimers

\* Only a timer that ran has been restarted, and it is not queued; a one-shot timer that ran runs no more;
\* and what getExpired took out was due.
RunInv ==
  /\ \A t \in ran : /\ heap[t] # "unused" /\ ~Queued(t)
                    /\ interval[t] = 0 => Entry(t) \notin timers \cup toRun
  /\ \A t \in Timers : t \notin ran \/ interval[t] = 0 => expiration[t] = idWhen[t]
  /\ \A e \in expired : e.when <= handleNow /\ (e \notin toRun => e.timer \in ran)
  /\ handleNow <= now
  /\ \A t \in Timers : heap[t] = "unused" => interval[t] = 0

\* Whether an entry's key is its timer's expiration: reset puts the others back.
Fresh(e) == expiration[e.timer] = e.when

\* The intervals of the timers that ran.
Lates == {0} \cup {interval[t] : t \in ran}

\* An entry waits for an expiration that is not too far off.
InTime(e, late) ==
  \/ timerfd <= Arm(handleNow + late)
  \/ Fresh(e) /\ timerfd <= Arm(e.when + late)

\* What the timerfd is armed for.  A past key is in timers_ only between two rounds, and is not
\* after the last round's now: so a timer that goes before it, or is hidden by it, is not
\* much later than that round.
ArmInv ==
  /\ pc = "idle" /\ timers # {} => timerfd # Disarmed
  /\ pc = "idle" => \E late \in Lates : \A e \in timers : InTime(e, late)
  /\ \A e \in timers : Fresh(e) \/ (pc = "idle" /\ e.when <= handleNow)

IInv ==
  /\ TypeOK
  /\ EntryInv
  /\ QueueInv
  /\ OwnerInv
  /\ IdleInv
  /\ CancelInv
  /\ RunInv
  /\ ArmInv

Ops == [op : {"add", "cancel"}, timer : Timers]

-----------------------------------------------------------------------------
(* The queue of functors.                                                  *)

\* Appending a functor queues its timer if it is an addition.
LEMMA QueuedAppend ==
  ASSUME functors \in Seq(Ops), NEW f \in Ops, functors' = Append(functors, f), NEW u \in Timers
  PROVE  Queued(u)' <=> Queued(u) \/ f = [op |-> "add", timer |-> u]
<1>1. /\ functors' \in Seq(Ops) /\ Len(functors') = Len(functors) + 1
      /\ \A i \in 1 .. Len(functors) : functors'[i] = functors[i]
      /\ functors'[Len(functors) + 1] = f
  BY AppendProperties
<1>2. /\ DOMAIN functors = 1 .. Len(functors) /\ DOMAIN functors' = 1 .. Len(functors')
      /\ Len(functors) \in Nat
  BY <1>1, LenProperties
<1>3. /\ DOMAIN functors' = DOMAIN functors \cup {Len(functors) + 1}
      /\ \A i \in DOMAIN functors : functors'[i] = functors[i]
  BY <1>1, <1>2
<1> QED BY <1>1, <1>3 DEF Queued

\* The elements of a queue that has lost its head.
LEMMA TailElements ==
  ASSUME functors \in Seq(Ops), functors # <<>>, functors' = Tail(functors)
  PROVE  /\ functors' \in Seq(Ops)
         /\ 1 \in DOMAIN functors /\ functors[1] = Head(functors) /\ Head(functors) \in Ops
         /\ \A i \in DOMAIN functors' : /\ i + 1 \in DOMAIN functors /\ i + 1 # 1 /\ i \in Nat
                                        /\ functors'[i] = functors[i + 1]
         /\ \A j \in DOMAIN functors \ {1} : \E i \in DOMAIN functors' : functors'[i] = functors[j]
<1>1. /\ functors' \in Seq(Ops) /\ Len(functors') = Len(functors) - 1
      /\ \A i \in 1 .. Len(functors') : functors'[i] = functors[i + 1]
      /\ Head(functors) \in Ops /\ Head(functors) = functors[1]
  BY HeadTailProperties
<1>2. /\ DOMAIN functors = 1 .. Len(functors) /\ DOMAIN functors' = 1 .. Len(functors')
      /\ Len(functors) \in Nat /\ Len(functors) # 0
  BY <1>1, LenProperties, EmptySeq
<1>3. 1 \in DOMAIN functors
  BY <1>2
<1>4. \A i \in DOMAIN functors' : i \in Nat /\ i + 1 \in DOMAIN functors /\ i + 1 # 1
  BY <1>1, <1>2
<1>5. ASSUME NEW j \in DOMAIN functors \ {1}
      PROVE  \E i \in DOMAIN functors' : functors'[i] = functors[j]
  <2>1. j - 1 \in DOMAIN functors' /\ (j - 1) + 1 = j
    BY <1>1, <1>2
  <2> QED BY <1>1, <1>2, <2>1
<1> QED BY <1>1, <1>2, <1>3, <1>4, <1>5

\* Running a functor takes its timer out of the queue if it is an addition, and no
\* other.
LEMMA QueuedTail ==
  ASSUME functors \in Seq(Ops), functors # <<>>, functors' = Tail(functors), QueueInv,
         NEW u \in Timers
  PROVE  Queued(u)' <=> Queued(u) /\ Head(functors) # [op |-> "add", timer |-> u]
<1> DEFINE a == [op |-> "add", timer |-> u]
<1>1. Queued(u)' => Queued(u)
  BY TailElements DEF Queued
<1>2. ASSUME Queued(u)', Head(functors) = a PROVE FALSE
  <2>1. PICK i \in DOMAIN functors' : functors'[i] = a
    BY <1>2 DEF Queued
  <2>2. /\ i + 1 \in DOMAIN functors /\ i + 1 # 1 /\ 1 \in DOMAIN functors
        /\ functors[i + 1] = a /\ functors[1] = a
    BY <1>2, <2>1, TailElements
  <2>3. functors[1].op = "add" /\ functors[i + 1] = functors[1]
    BY <2>2
  <2> QED BY <2>2, <2>3 DEF QueueInv
<1>3. ASSUME Queued(u), Head(functors) # a PROVE Queued(u)'
  <2>1. PICK j \in DOMAIN functors : functors[j] = a
    BY <1>3 DEF Queued
  <2>2. j # 1
    BY <1>3, <2>1, TailElements
  <2> QED BY <2>1, <2>2, TailElements DEF Queued
<1> QED BY <1>1, <1>2, <1>3

\* Fewer functors, and no timer becomes unused.
LEMMA QueueShrinks ==
  ASSUME functors \in Seq(Ops), QueueInv,
         functors' = functors \/ (functors # <<>> /\ functors' = Tail(functors)),
         \A t \in Timers : heap[t] # "unused" => heap'[t] # "unused"
  PROVE  QueueInv'
<1>0. \A i \in DOMAIN functors : functors[i].timer \in Timers
  <2>1. \A i \in DOMAIN functors : functors[i] \in Ops
    BY LenProperties, ElementOfSeq
  <2> QED BY <2>1 DEF Ops
<1>1. CASE functors' = functors
  BY <1>0, <1>1 DEF QueueInv
<1>2. CASE functors # <<>> /\ functors' = Tail(functors)
  <2>1. ASSUME NEW i \in DOMAIN functors', NEW j \in DOMAIN functors',
               functors'[i].op = "add", functors'[j] = functors'[i]
        PROVE  i = j
    <3>1. /\ i + 1 \in DOMAIN functors /\ j + 1 \in DOMAIN functors /\ i \in Nat /\ j \in Nat
          /\ functors'[i] = functors[i + 1] /\ functors'[j] = functors[j + 1]
      BY <1>2, TailElements
    <3>2. functors[i + 1].op = "add" /\ functors[j + 1] = functors[i + 1]
      BY <2>1, <3>1
    <3>3. i + 1 = j + 1
      BY <3>1, <3>2 DEF QueueInv
    <3> QED BY <3>1, <3>3
  <2>2. ASSUME NEW i \in DOMAIN functors' PROVE heap'[functors'[i].timer] # "unused"
    <3>1. i + 1 \in DOMAIN functors /\ functors'[i] = functors[i + 1]
      BY <1>2, <2>2, TailElements
    <3> QED BY <1>0, <3>1 DEF QueueInv
  <2> QED BY <2>1, <2>2 DEF QueueInv
<1> QED BY <1>1, <1>2

\* A functor for a timer that is not queued yet, or that cancels.
LEMMA QueueGrows ==
  ASSUME functors \in Seq(Ops), QueueInv, NEW f \in Ops, functors' = Append(functors, f),
         \A t \in Timers : heap[t] # "unused" => heap'[t] # "unused",
         heap'[f.timer] # "unused", f.op = "add" => ~Queued(f.timer)
  PROVE  QueueInv'
<1>1. /\ functors' \in Seq(Ops) /\ Len(functors') = Len(functors) + 1
      /\ \A i \in 1 .. Len(functors) : functors'[i] = functors[i]
      /\ functors'[Len(functors) + 1] = f
  BY AppendProperties
<1>2. /\ DOMAIN functors = 1 .. Len(functors) /\ DOMAIN functors' = 1 .. Len(functors')
      /\ Len(functors) \in Nat
  BY <1>1, LenProperties
<1>3. \A i \in DOMAIN functors' : i \in DOMAIN functors \/ i = Len(functors) + 1
  BY <1>1, <1>2
<1>4. \A i \in DOMAIN functors : functors'[i] = functors[i] /\ functors[i] \in Ops
  BY <1>1, <1>2
<1>5. ASSUME NEW i \in DOMAIN functors, functors[i] = f, f.op = "add" PROVE FALSE
  <2>1. f = [op |-> "add", timer |-> f.timer]
    BY <1>5 DEF Ops
  <2> QED BY <1>5, <2>1 DEF Queued
<1>6. ASSUME NEW i \in DOMAIN functors', NEW j \in DOMAIN functors',
             functors'[i].op = "add", functors'[j] = functors'[i]
      PROVE  i = j
  BY <1>1, <1>3, <1>4, <1>5, <1>6 DEF QueueInv
<1>7. ASSUME NEW i \in DOMAIN functors' PROVE heap'[functors'[i].timer] # "unused"
  <2>1. CASE i \in DOMAIN functors
    BY <1>4, <2>1 DEF QueueInv, Ops
  <2>2. CASE i = Len(functors) + 1
    BY <1>1, <2>2
  <2> QED BY <1>3, <2>1, <2>2
<1> QED BY <1>6, <1>7 DEF QueueInv

-----------------------------------------------------------------------------
(* Types, keys and the timerfd.                                            *)

LEMMA TypeOps == TypeOK => functors \in Seq(Ops)
  BY DEF TypeOK, Ops

\* The timerfd is armed at least one unit ahead, and later for a later key.
LEMMA ArmType ==
  ASSUME now \in Nat, NEW w \in Nat
  PROVE  /\ Arm(w) \in Nat /\ Arm(w) # Disarmed
         /\ \A v \in Nat : w <= v => Arm(w) <= Arm(v)
  BY DEF Arm, Disarmed

LEMMA LatesType == TypeOK => Lates \subseteq Nat
  BY DEF TypeOK, Lates

\* What addTimerInLoop does to the timerfd.
LEMMA AddArms ==
  ASSUME TypeOK, ArmInv, NEW t \in Timers, NEW when \in Nat,
         AddTimerInLoop(t, when), expiration'[t] = when,
         \A u \in ran : interval'[u] = interval[u],
         \A f \in timers : expiration'[f.timer] = expiration[f.timer]
  PROVE  ArmInv' /\ timerfd' \in Nat \cup {Disarmed}
<1> DEFINE e == [when |-> when, timer |-> t]
<1>1. /\ timers' = timers \cup {e} /\ now' = now /\ pc' = pc /\ handleNow' = handleNow
      /\ ran' = ran /\ ran \subseteq Timers
      /\ timerfd' = IF IsEarliest(when) THEN Arm(when) ELSE timerfd
      /\ now \in Nat /\ handleNow \in Nat /\ timers \in SUBSET Entries
      /\ timerfd \in Nat \cup {Disarmed}
  BY DEF AddTimerInLoop, handlerVars, history, TypeOK
<1>2. Arm(when) \in Nat /\ Arm(when) # Disarmed
  BY <1>1, ArmType
<1>3. timerfd' \in Nat \cup {Disarmed}
  BY <1>1, <1>2
<1>4. pc' = "idle" => timerfd' # Disarmed
  <2>1. CASE IsEarliest(when)
    BY <1>1, <1>2, <2>1
  <2>2. CASE ~IsEarliest(when)
    <3>1. timers # {}
      BY <2>2 DEF IsEarliest
    <3> QED BY <1>1, <2>2, <3>1 DEF ArmInv
  <2> QED BY <2>1, <2>2
<1>5. Lates' = Lates /\ Fresh(e)' /\ \A f \in timers : f.when \in Nat /\ (Fresh(f)' <=> Fresh(f))
  <2>1. Lates' = Lates
    BY <1>1 DEF Lates
  <2> QED BY <1>1, <2>1 DEF Fresh, Entries
<1>6. \A w : Arm(w)' = Arm(w)
  BY <1>1 DEF Arm
<1>7. ASSUME pc = "idle", NEW late \in Lates, \A f \in timers : InTime(f, late)
      PROVE  \A f \in timers \cup {e} : InTime(f, late)'
  <2>1. late \in Nat
    BY LatesType
  <2>2. CASE IsEarliest(when)
    <3>1. ASSUME NEW f \in timers PROVE InTime(f, late)'
      <4>1. f.when \in Nat /\ when <= f.when
        BY <1>5, <2>2 DEF IsEarliest
      <4>2. Arm(when) <= Arm(f.when + late)
        <5>1. f.when + late \in Nat /\ when <= f.when + late
          BY <2>1, <4>1
        <5> QED BY <1>1, <5>1, ArmType
      <4>3. CASE Fresh(f)
        BY <1>1, <1>5, <1>6, <2>2, <4>2, <4>3 DEF InTime
      <4>4. CASE ~Fresh(f)
        <5>1. f.when <= handleNow
          BY <4>4 DEF ArmInv
        <5>2. handleNow + late \in Nat /\ when <= handleNow + late
          BY <1>1, <2>1, <4>1, <5>1
        <5>3. Arm(when) <= Arm(handleNow + late)
          BY <1>1, <5>2, ArmType
        <5> QED BY <1>1, <1>6, <2>2, <5>3 DEF InTime
      <4> QED BY <4>3, <4>4
    <3>2. InTime(e, late)'
      <4>1. when + late \in Nat /\ when <= when + late
        BY <2>1
      <4>2. Arm(when) <= Arm(when + late)
        BY <1>1, <4>1, ArmType
      <4> QED BY <1>1, <1>5, <1>6, <2>2, <4>2 DEF InTime
    <3> QED BY <3>1, <3>2
  <2>3. CASE ~IsEarliest(when)
    <3>1. timerfd' = timerfd
      BY <1>1, <2>3
    <3>2. \A f \in timers : InTime(f, late)'
      BY <1>1, <1>5, <1>6, <1>7, <3>1 DEF InTime
    <3>3. PICK g \in timers : ~(when < g.when)
      BY <2>3 DEF IsEarliest
    <3>4. g.when \in Nat /\ g.when <= when
      BY <1>5, <3>3
    <3>5. ASSUME timerfd <= Arm(handleNow + late) PROVE InTime(e, late)'
      BY <1>1, <1>6, <3>1, <3>5 DEF InTime
    <3>6. ASSUME timerfd <= Arm(g.when + late) PROVE InTime(e, late)'
      <4>1. g.when + late \in Nat /\ when + late \in Nat /\ g.when + late <= when + late
        BY <2>1, <3>4
      <4>2. /\ Arm(g.when + late) <= Arm(when + late)
            /\ Arm(g.when + late) \in Nat /\ Arm(when + late) \in Nat
        BY <1>1, <4>1, ArmType
      <4>3. timerfd <= Arm(when + late)
        BY <1>1, <3>6, <4>2 DEF Disarmed
      <4>4. Arm(when + late)' = Arm(when + late)
        BY <1>1 DEF Arm
      <4>5. timerfd' <= Arm(when + late)'
        BY <3>1, <4>3, <4>4
      <4>6. e.when = when
        OBVIOUS
      <4> QED BY <1>5, <4>5, <4>6 DEF InTime
    <3>7. InTime(e, late)'
      BY <1>7, <3>3, <3>5, <3>6 DEF InTime
    <3> QED BY <3>2, <3>7
  <2> QED BY <2>2, <2>3
<1>8. \A f \in timers \cup {e} : Fresh(f)' \/ (pc' = "idle" /\ f.when <= handleNow')
  BY <1>1, <1>5 DEF ArmInv
<1>9. pc' = "idle" => \E late \in Lates' : \A f \in timers' : InTime(f, late)'
  BY <1>1, <1>5, <1>7 DEF ArmInv
<1>10. ArmInv'
  BY <1>1, <1>4, <1>8, <1>9 DEF ArmInv
<1> QED BY <1>3, <1>10

\* A later clock arms no earlier.
LEMMA LaterOf ==
  ASSUME NEW n \in Nat, NEW m \in Nat, n <= m, NEW armed \in Nat \cup {-1}, NEW w \in Nat,
         armed <= (IF w > n + 1 THEN w ELSE n + 1)
  PROVE  armed <= (IF w > m + 1 THEN w ELSE m + 1)
OBVIOUS

LEMMA ArmLater ==
  ASSUME NEW n \in Nat, now = n, NEW m \in Nat, now' = m, n <= m,
         timerfd \in Nat \cup {Disarmed}, NEW w \in Nat, timerfd <= Arm(w)
  PROVE  timerfd <= Arm(w)'
<1>1. timerfd \in Nat \cup {-1} /\ timerfd <= (IF w > n + 1 THEN w ELSE n + 1)
  BY DEF Arm, Disarmed
<1>2. timerfd <= (IF w > m + 1 THEN w ELSE m + 1)
  BY <1>1, LaterOf
<1>3. Arm(w)' = IF w > m + 1 THEN w ELSE m + 1
  BY DEF Arm
<1> QED BY <1>2, <1>3

\* Entries that do not come or move, on a clock that may: the timerfd is right still.
LEMMA StillArmed ==
  ASSUME TypeOK, ArmInv, timers' \subseteq timers, timerfd' = timerfd, handleNow' = handleNow,
         now' \in Nat, now <= now', pc' = pc, ran' = ran,
         \A u \in ran : interval'[u] = interval[u],
         \A f \in timers : expiration'[f.timer] = expiration[f.timer]
  PROVE  ArmInv'
<1>1. /\ Lates' = Lates
      /\ \A f \in timers : f.when \in Nat /\ (Fresh(f)' <=> Fresh(f))
      /\ now \in Nat /\ handleNow \in Nat /\ timerfd \in Nat \cup {Disarmed}
  <2>1. Lates' = Lates
    BY DEF Lates
  <2>2. \A f \in timers : f.when \in Nat /\ (Fresh(f)' <=> Fresh(f))
    BY DEF Fresh, TypeOK, Entries
  <2> QED BY <2>1, <2>2 DEF TypeOK
<1>2. ASSUME NEW late \in Lates, NEW f \in timers, InTime(f, late)
      PROVE  InTime(f, late)'
  <2>1. handleNow + late \in Nat /\ f.when + late \in Nat
    BY <1>1, LatesType
  <2>2. timerfd <= Arm(handleNow + late) => timerfd <= Arm(handleNow + late)'
    BY <1>1, <2>1, ArmLater
  <2>3. timerfd <= Arm(f.when + late) => timerfd <= Arm(f.when + late)'
    BY <1>1, <2>1, ArmLater
  <2> QED BY <1>1, <1>2, <2>2, <2>3 DEF InTime
<1>3. pc' = "idle" => \E late \in Lates' : \A f \in timers' : InTime(f, late)'
  BY <1>1, <1>2 DEF ArmInv
<1>4. \A f \in timers' : Fresh(f)' \/ (pc' = "idle" /\ f.when <= handleNow')
  BY <1>1 DEF ArmInv
<1> QED BY <1>3, <1>4 DEF ArmInv

-----------------------------------------------------------------------------
(* Adding a timer.                                                         *)

LEMMA RequestTypes ==
  ASSUME NEW r \in Requests
  PROVE  r.delay \in Nat /\ r.every \in Nat
<1>1. CASE r \in [delay : Delays, every : {0}]
  <2>1. r.delay \in Delays /\ r.every = 0
    BY <1>1
  <2>2. \A d \in Delays : d \in Nat
    BY DelaysAssumption
  <2> QED BY <2>1, <2>2
<1>2. CASE r \in {[delay |-> i, every |-> i] : i \in Intervals}
  <2>1. PICK i \in Intervals : r = [delay |-> i, every |-> i]
    BY <1>2
  <2>2. i \in Nat
    BY DelaysAssumption
  <2> QED BY <2>1, <2>2
<1> QED BY <1>1, <1>2 DEF Requests

\* new Timer: a timer that nobody knows yet.
LEMMA NewTimerTypes ==
  ASSUME TypeOK, NEW t \in Timers, NEW when \in Nat, NEW every \in Nat, NewTimer(t, when, every)
  PROVE  /\ heap' \in [Timers -> {"unused", "live", "deleted"}]
         /\ expiration' \in [Timers -> Nat] /\ interval' \in [Timers -> Nat]
         /\ idWhen' \in [Timers -> Nat]
         /\ heap[t] = "unused" /\ heap'[t] = "live"
         /\ expiration'[t] = when /\ interval'[t] = every /\ idWhen'[t] = when
         /\ \A u \in Timers \ {t} : /\ heap'[u] = heap[u] /\ expiration'[u] = expiration[u]
                                    /\ interval'[u] = interval[u] /\ idWhen'[u] = idWhen[u]
  BY DEF NewTimer, TypeOK

LEMMA NewTimerUnknown ==
  ASSUME IInv, NEW t \in Timers, heap[t] = "unused"
  PROVE  /\ ~Queued(t) /\ t \notin ran /\ t \notin cancelled
         /\ \A e \in timers \cup expired : e.timer # t /\ e.timer \in Timers
         /\ interval[t] = 0
<1>1. \A e \in timers \cup expired : e = Entry(e.timer) /\ e.timer \in Timers
  BY DEF IInv, EntryInv, TypeOK, Entries
<1>2. ~Queued(t) /\ Entry(t) \notin timers \cup expired
  BY DEF IInv, OwnerInv
<1>3. t \notin ran /\ t \notin cancelled /\ interval[t] = 0
  BY DEF IInv, RunInv, CancelInv
<1> QED BY <1>1, <1>2, <1>3

LEMMA LoopThreadAddKeeps ==
  ASSUME IInv, NEW t \in Timers, NEW r \in Requests, LoopThreadAdd(t, r)
  PROVE  IInv'
<1> DEFINE when == now + r.delay
           e == [when |-> when, timer |-> t]
<1>0. TypeOK /\ now \in Nat
  BY DEF IInv, TypeOK
<1>1. TypeOK /\ now \in Nat /\ r.every \in Nat /\ when \in Nat
  BY <1>0, RequestTypes
<1>2. /\ NewTimer(t, when, r.every) /\ AddTimerInLoop(t, when) /\ functors' = functors
      /\ timers' = timers \cup {e}
      /\ UNCHANGED <<now, pc, handleNow, expired, toRun, cancelingTimers, ran, cancelled, missed>>
  BY DEF LoopThreadAdd, AddTimerInLoop, handlerVars, history
<1> HIDE DEF when
<1>3. /\ heap' \in [Timers -> {"unused", "live", "deleted"}]
      /\ expiration' \in [Timers -> Nat] /\ interval' \in [Timers -> Nat]
      /\ idWhen' \in [Timers -> Nat]
      /\ heap[t] = "unused" /\ heap'[t] = "live"
      /\ expiration'[t] = when /\ interval'[t] = r.every /\ idWhen'[t] = when
      /\ \A u \in Timers \ {t} : /\ heap'[u] = heap[u] /\ expiration'[u] = expiration[u]
                                 /\ interval'[u] = interval[u] /\ idWhen'[u] = idWhen[u]
  BY <1>1, <1>2, NewTimerTypes
<1>4. /\ ~Queued(t) /\ t \notin ran /\ t \notin cancelled
      /\ \A f \in timers \cup expired : f.timer # t /\ f.timer \in Timers
      /\ interval[t] = 0
  BY <1>3, NewTimerUnknown
<1>5. /\ Entry(t)' = e
      /\ \A u \in Timers \ {t} : Entry(u)' = Entry(u) /\ Entry(u).timer = u /\ Entry(u) # e
      /\ \A u \in Timers : Queued(u)' <=> Queued(u)
      /\ e \notin timers \cup expired
  BY <1>2, <1>3, <1>4 DEF Entry, Queued
<1>6. ArmInv' /\ timerfd' \in Nat \cup {Disarmed}
  <2>1. /\ \A u \in ran : interval'[u] = interval[u]
        /\ \A f \in timers : expiration'[f.timer] = expiration[f.timer]
    BY <1>1, <1>3, <1>4 DEF TypeOK
  <2> QED BY <1>1, <1>2, <1>3, <2>1, AddArms DEF IInv
<1>7. TypeOK'
  <2>1. timers' \in SUBSET Entries
    BY <1>1, <1>2 DEF TypeOK, Entries
  <2> QED BY <1>2, <1>3, <1>6, <2>1, <1>1 DEF TypeOK
<1>8. EntryInv'
  <2>1. ASSUME NEW f \in timers \cup expired PROVE f = Entry(f.timer)'
    BY <1>4, <1>5 DEF IInv, EntryInv
  <2> QED BY <1>2, <1>5, <2>1 DEF EntryInv
<1>9. QueueInv'
  BY <1>1, <1>2, <1>3, TypeOps, QueueShrinks DEF IInv
<1>10. OwnerInv'
  BY <1>2, <1>3, <1>4, <1>5 DEF IInv, OwnerInv
<1>11. IdleInv'
  BY <1>2 DEF IInv, IdleInv
<1>12. CancelInv'
  BY <1>1, <1>2, <1>3, <1>4, <1>5 DEF IInv, CancelInv, TypeOK
<1>13. RunInv'
  <2>1. \A u \in ran : u \in Timers \ {t}
    BY <1>1, <1>4 DEF TypeOK
  <2> QED BY <1>1, <1>2, <1>3, <1>4, <1>5, <2>1 DEF IInv, RunInv
<1> QED BY <1>6, <1>7, <1>8, <1>9, <1>10, <1>11, <1>12, <1>13 DEF IInv

LEMMA OtherThreadAddKeeps ==
  ASSUME IInv, NEW t \in Timers, NEW r \in Requests, OtherThreadAdd(t, r)
  PROVE  IInv'
<1> DEFINE when == now + r.delay
           a == [op |-> "add", timer |-> t]
<1>1. TypeOK /\ now \in Nat /\ r.every \in Nat /\ when \in Nat /\ functors \in Seq(Ops) /\ a \in Ops
  BY RequestTypes, TypeOps DEF IInv, TypeOK, Ops
<1>2. /\ NewTimer(t, when, r.every) /\ functors' = Append(functors, a)
      /\ UNCHANGED <<now, pc, handleNow, expired, toRun, cancelingTimers, ran, cancelled, missed,
                     timers, timerfd>>
  BY DEF OtherThreadAdd, Post, handlerVars, history
<1> HIDE DEF when
<1>3. /\ heap' \in [Timers -> {"unused", "live", "deleted"}]
      /\ expiration' \in [Timers -> Nat] /\ interval' \in [Timers -> Nat]
      /\ idWhen' \in [Timers -> Nat]
      /\ heap[t] = "unused" /\ heap'[t] = "live"
      /\ expiration'[t] = when /\ interval'[t] = r.every /\ idWhen'[t] = when
      /\ \A u \in Timers \ {t} : /\ heap'[u] = heap[u] /\ expiration'[u] = expiration[u]
                                 /\ interval'[u] = interval[u] /\ idWhen'[u] = idWhen[u]
  BY <1>1, <1>2, NewTimerTypes
<1>4. /\ ~Queued(t) /\ t \notin ran /\ t \notin cancelled
      /\ \A f \in timers \cup expired : f.timer # t /\ f.timer \in Timers
      /\ interval[t] = 0
  BY <1>3, NewTimerUnknown
<1>5. /\ \A u \in Timers \ {t} : Entry(u)' = Entry(u)
      /\ Entry(t)'.timer = t
      /\ \A u \in Timers : Queued(u)' <=> Queued(u) \/ u = t
  <2>1. \A u \in Timers : Queued(u)' <=> Queued(u) \/ a = [op |-> "add", timer |-> u]
    BY <1>1, <1>2, QueuedAppend
  <2>2. \A u \in Timers : a = [op |-> "add", timer |-> u] <=> u = t
    <3>1. \A u \in Timers : a = [op |-> "add", timer |-> u] => a.timer = u
      OBVIOUS
    <3> QED BY <3>1
  <2> QED BY <1>3, <2>1, <2>2 DEF Entry
<1>e. Entry(t)' \notin timers \cup expired /\ (\A u \in Timers : u # t => Entry(u)' = Entry(u))
  BY <1>4, <1>5
<1>6. ArmInv'
  <2>1. /\ \A u \in ran : interval'[u] = interval[u]
        /\ \A f \in timers : expiration'[f.timer] = expiration[f.timer]
    BY <1>1, <1>3, <1>4 DEF TypeOK
  <2> QED BY <1>1, <1>2, <2>1, StillArmed DEF IInv
<1>7. TypeOK'
  BY <1>1, <1>2, <1>3, AppendProperties DEF TypeOK, Ops
<1>8. EntryInv'
  BY <1>2, <1>4, <1>5 DEF IInv, EntryInv
<1>9. QueueInv'
  BY <1>1, <1>2, <1>3, <1>4, QueueGrows DEF IInv
<1>10. OwnerInv'
  <2>1. ASSUME NEW u \in Timers
        PROVE  /\ heap'[u] = "live" <=> (Queued(u)' \/ Entry(u)' \in timers \cup expired)
               /\ ~(Queued(u)' /\ Entry(u)' \in timers \cup expired)
    <3>1. CASE u = t
      BY <1>3, <1>5, <1>e, <3>1
    <3>2. CASE u # t
      BY <1>3, <1>5, <1>e, <3>2 DEF IInv, OwnerInv
    <3> QED BY <3>1, <3>2
  <2> QED BY <1>2, <2>1 DEF IInv, OwnerInv
<1>11. IdleInv'
  BY <1>2 DEF IInv, IdleInv
<1>12. CancelInv'
  BY <1>1, <1>2, <1>3, <1>4, <1>5 DEF IInv, CancelInv, TypeOK
<1>13. RunInv'
  <2>1. \A u \in ran : u \in Timers \ {t}
    BY <1>1, <1>4 DEF TypeOK
  <2>2. ASSUME NEW u \in ran
        PROVE  /\ heap'[u] # "unused" /\ ~Queued(u)'
               /\ interval'[u] = 0 => Entry(u)' \notin timers \cup toRun
    BY <1>3, <1>5, <2>1, <2>2 DEF IInv, RunInv
  <2>3. \A u \in Timers : u \notin ran \/ interval'[u] = 0 => expiration'[u] = idWhen'[u]
    BY <1>3 DEF IInv, RunInv
  <2>4. \A u \in Timers : heap'[u] = "unused" => interval'[u] = 0
    BY <1>3 DEF IInv, RunInv
  <2> QED BY <1>2, <2>2, <2>3, <2>4 DEF IInv, RunInv
<1> QED BY <1>6, <1>7, <1>8, <1>9, <1>10, <1>11, <1>12, <1>13 DEF IInv

\* addTimerInLoop of a queued timer.
LEMMA RunAddKeeps ==
  ASSUME IInv, NEW t \in Timers, pc = "idle", functors # <<>>,
         Head(functors) = [op |-> "add", timer |-> t], functors' = Tail(functors),
         AddTimerInLoop(t, expiration[t]), UNCHANGED timerVars
  PROVE  IInv'
<1> DEFINE e == [when |-> expiration[t], timer |-> t]
<1>1. TypeOK /\ functors \in Seq(Ops) /\ expiration[t] \in Nat
  BY TypeOps DEF IInv, TypeOK
<1>2. /\ timers' = timers \cup {e}
      /\ UNCHANGED <<now, pc, handleNow, expired, toRun, cancelingTimers, ran, cancelled, missed,
                     heap, expiration, interval, idWhen>>
  BY DEF AddTimerInLoop, handlerVars, history, timerVars
<1>3. Queued(t)
  BY <1>1, TailElements DEF Queued
<1>4. heap[t] = "live" /\ Entry(t) \notin timers \cup expired /\ expired = {}
  BY <1>3 DEF IInv, OwnerInv, IdleInv
<1>5. t \notin ran /\ (t \in cancelled => t \in missed) /\ expiration[t] = idWhen[t]
  BY <1>3 DEF IInv, RunInv, CancelInv
<1>6. /\ e = Entry(t) /\ \A u \in Timers : Entry(u)' = Entry(u)
      /\ \A u \in Timers \ {t} : Entry(u) # e
  BY <1>2, <1>5 DEF Entry
<1>7. \A u \in Timers : Queued(u)' <=> Queued(u) /\ u # t
  <2>1. \A u \in Timers : [op |-> "add", timer |-> t] = [op |-> "add", timer |-> u] <=> t = u
    <3>1. \A u \in Timers : [op |-> "add", timer |-> u].timer = u
      OBVIOUS
    <3> QED BY <3>1
  <2>2. \A u \in Timers : Queued(u)' <=> Queued(u) /\ Head(functors) # [op |-> "add", timer |-> u]
    BY <1>1, QueuedTail DEF IInv
  <2> QED BY <2>1, <2>2
<1>8. ArmInv' /\ timerfd' \in Nat \cup {Disarmed}
  BY <1>1, <1>2, AddArms DEF IInv
<1>9. TypeOK'
  <2>1. timers' \in SUBSET Entries
    BY <1>1, <1>2 DEF TypeOK, Entries
  <2>2. functors' \in Seq(Ops)
    BY <1>1, TailElements
  <2> QED BY <1>1, <1>2, <1>8, <2>1, <2>2 DEF TypeOK, Ops
<1>10. EntryInv'
  <2>1. \A f \in timers \cup expired : f = Entry(f.timer) /\ f.timer \in Timers
    BY <1>1 DEF IInv, EntryInv, TypeOK, Entries
  <2>2. \A f \in timers' \cup expired' : f = Entry(f.timer) /\ f.timer \in Timers
    BY <1>2, <1>6, <2>1
  <2> QED BY <1>6, <2>2 DEF EntryInv
<1>11. QueueInv'
  BY <1>1, <1>2, QueueShrinks DEF IInv
<1>12. OwnerInv'
  BY <1>2, <1>4, <1>6, <1>7 DEF IInv, OwnerInv
<1>13. IdleInv'
  BY <1>2 DEF IInv, IdleInv
<1>14. CancelInv'
  <2>1. cancelled \subseteq Timers
    BY <1>1 DEF TypeOK
  <2> QED BY <1>2, <1>5, <1>6, <1>7, <2>1 DEF IInv, CancelInv
<1>15. RunInv'
  <2>1. ran \subseteq Timers
    BY <1>1 DEF TypeOK
  <2> QED BY <1>2, <1>5, <1>6, <1>7, <2>1 DEF IInv, RunInv
<1> QED BY <1>8, <1>9, <1>10, <1>11, <1>12, <1>13, <1>14, <1>15 DEF IInv

-----------------------------------------------------------------------------
(* Cancelling a timer.                                                     *)

\* cancelTimerInLoop, called by the loop's thread or taken out of the queue.
LEMMA CancelKeeps ==
  ASSUME IInv, NEW t \in Timers, heap[t] # "unused", CancelTimerInLoop(t),
         \/ functors' = functors
         \/ /\ functors # <<>> /\ functors' = Tail(functors)
            /\ Head(functors) = [op |-> "cancel", timer |-> t]
  PROVE  IInv'
<1>1. TypeOK /\ functors \in Seq(Ops) /\ cancelled \subseteq Timers /\ ran \subseteq Timers
  BY TypeOps DEF IInv, TypeOK
<1>2. /\ UNCHANGED <<now, expiration, interval, idWhen, timerfd, pc, handleNow, expired, toRun, ran>>
      /\ cancelled' = cancelled \cup {t}
      /\ missed' = IF Queued(t) THEN missed \cup {t} ELSE missed
  BY DEF CancelTimerInLoop, handlerVars
<1>3. /\ \A u \in Timers : Entry(u)' = Entry(u) /\ Entry(u).timer = u
      /\ \A u \in Timers : Queued(u)' <=> Queued(u)
      /\ functors' \in Seq(Ops)
  <2>1. \A u \in Timers : Entry(u)' = Entry(u) /\ Entry(u).timer = u
    BY <1>2 DEF Entry
  <2>2. CASE functors' = functors
    BY <1>1, <2>1, <2>2 DEF Queued
  <2>3. CASE /\ functors # <<>> /\ functors' = Tail(functors)
             /\ Head(functors) = [op |-> "cancel", timer |-> t]
    <3>1. \A u \in Timers : Head(functors) # [op |-> "add", timer |-> u]
      BY <2>3
    <3>2. \A u \in Timers : Queued(u)' <=> Queued(u)
      BY <1>1, <2>3, <3>1, QueuedTail DEF IInv
    <3> QED BY <1>1, <2>1, <2>3, <3>2, TailElements
  <2> QED BY <2>2, <2>3
<1>4. \A e \in timers \cup expired : e = Entry(e.timer) /\ e.timer \in Timers /\ e \in Entries
  BY <1>1 DEF IInv, EntryInv, TypeOK, Entries
<1>5. CASE Entry(t) \in timers
  <2>1. /\ timers' = timers \ {Entry(t)} /\ cancelingTimers' = cancelingTimers
        /\ heap' = [heap EXCEPT ![t] = "deleted"]
    BY <1>5 DEF CancelTimerInLoop
  <2>2. /\ heap'[t] = "deleted" /\ \A u \in Timers \ {t} : heap'[u] = heap[u]
        /\ heap' \in [Timers -> {"unused", "live", "deleted"}]
    BY <1>1, <2>1 DEF TypeOK
  <2>3. ~Queued(t) /\ Entry(t) \notin expired
    BY <1>5 DEF IInv, OwnerInv
  <2>4. \A u \in Timers \ {t} : Entry(u) # Entry(t)
    BY <1>3
  <2>5. TypeOK'
    BY <1>1, <1>2, <1>3, <2>1, <2>2 DEF TypeOK, Ops
  <2>6. EntryInv'
    BY <1>2, <1>3, <1>4, <2>1 DEF EntryInv
  <2>7. QueueInv'
    BY <1>1, <2>2, QueueShrinks DEF IInv
  <2>8. OwnerInv'
    <3>1. ASSUME NEW u \in Timers
          PROVE  /\ heap'[u] = "live" <=> (Queued(u) \/ Entry(u) \in timers' \cup expired)
                 /\ ~(Queued(u) /\ Entry(u) \in timers' \cup expired)
      <4>1. CASE u = t
        BY <2>1, <2>2, <2>3, <4>1
      <4>2. CASE u # t
        BY <2>1, <2>2, <2>4, <4>2 DEF IInv, OwnerInv
      <4> QED BY <4>1, <4>2
    <3> QED BY <1>2, <1>3, <2>1, <3>1 DEF IInv, OwnerInv
  <2>9. IdleInv'
    BY <1>2 DEF IInv, IdleInv
  <2>10. CancelInv'
    BY <1>1, <1>2, <1>3, <2>1, <2>2, <2>3 DEF IInv, CancelInv
  <2>11. RunInv'
    BY <1>1, <1>2, <1>3, <2>1, <2>2 DEF IInv, RunInv
  <2>12. ArmInv'
    <3>1. ArmInv /\ now' \in Nat /\ now <= now'
      BY <1>1, <1>2 DEF IInv, TypeOK
    <3> QED BY <1>1, <1>2, <2>1, <3>1, StillArmed
  <2> QED BY <2>5, <2>6, <2>7, <2>8, <2>9, <2>10, <2>11, <2>12 DEF IInv
<1>6. CASE Entry(t) \notin timers
  <2>1. /\ UNCHANGED <<timers, heap>>
        /\ cancelingTimers' = IF pc = "run" THEN cancelingTimers \cup {Entry(t)} ELSE cancelingTimers
    BY <1>6 DEF CancelTimerInLoop
  <2>2. Entry(t) \in Entries
    BY <1>1 DEF Entry, Entries, TypeOK
  <2>3. TypeOK'
    BY <1>1, <1>2, <1>3, <2>1, <2>2 DEF TypeOK, Ops
  <2>4. EntryInv'
    BY <1>2, <1>3, <1>4, <2>1 DEF EntryInv
  <2>5. QueueInv'
    BY <1>1, <2>1, QueueShrinks DEF IInv
  <2>6. OwnerInv'
    BY <1>2, <1>3, <2>1 DEF IInv, OwnerInv
  <2>7. IdleInv'
    BY <1>2 DEF IInv, IdleInv
  <2>8. CancelInv'
    <3>1. Entry(t) \in expired => Entry(t) \in cancelingTimers'
      BY <1>1, <2>1 DEF IInv, IdleInv, TypeOK
    <3>2. cancelingTimers \subseteq cancelingTimers'
      BY <2>1
    <3>3. t \notin missed' => ~Queued(t)
      BY <1>2
    <3> QED BY <1>1, <1>2, <1>3, <1>6, <2>1, <3>1, <3>2, <3>3 DEF IInv, CancelInv
  <2>9. RunInv'
    BY <1>1, <1>2, <1>3, <2>1 DEF IInv, RunInv
  <2>10. ArmInv'
    BY <1>1, <1>2, <2>1, StillArmed DEF IInv, TypeOK
  <2> QED BY <2>3, <2>4, <2>5, <2>6, <2>7, <2>8, <2>9, <2>10 DEF IInv
<1> QED BY <1>5, <1>6

LEMMA OtherThreadCancelKeeps ==
  ASSUME IInv, NEW t \in Timers, OtherThreadCancel(t)
  PROVE  IInv'
<1> DEFINE c == [op |-> "cancel", timer |-> t]
<1>1. TypeOK /\ functors \in Seq(Ops) /\ c \in Ops /\ cancelled \subseteq Timers /\ ran \subseteq Timers
  BY TypeOps DEF IInv, TypeOK, Ops
<1>2. /\ functors' = Append(functors, c) /\ heap[t] # "unused"
      /\ UNCHANGED <<now, heap, expiration, interval, idWhen, timers, timerfd, pc, handleNow, expired,
                     toRun, cancelingTimers, ran, cancelled, missed>>
  BY DEF OtherThreadCancel, Post, timerVars, handlerVars, history
<1>3. /\ \A u \in Timers : Entry(u)' = Entry(u)
      /\ \A u \in Timers : Queued(u)' <=> Queued(u)
  <2>1. \A u \in Timers : c # [op |-> "add", timer |-> u]
    OBVIOUS
  <2> QED BY <1>1, <1>2, <2>1, QueuedAppend DEF Entry
<1>4. TypeOK'
  BY <1>1, <1>2, AppendProperties DEF TypeOK, Ops
<1>5. EntryInv'
  <2>1. \A e \in timers \cup expired : e.timer \in Timers
    BY <1>1 DEF TypeOK, Entries
  <2> QED BY <1>2, <1>3, <2>1 DEF IInv, EntryInv
<1>6. QueueInv'
  <2>1. c.op # "add" /\ c.timer = t
    OBVIOUS
  <2> QED BY <1>1, <1>2, <2>1, QueueGrows DEF IInv
<1>7. OwnerInv'
  BY <1>2, <1>3 DEF IInv, OwnerInv
<1>8. IdleInv'
  BY <1>2 DEF IInv, IdleInv
<1>9. CancelInv'
  BY <1>1, <1>2, <1>3 DEF IInv, CancelInv
<1>10. RunInv'
  BY <1>1, <1>2, <1>3 DEF IInv, RunInv
<1>11. ArmInv'
  BY <1>1, <1>2, StillArmed DEF IInv, TypeOK
<1> QED BY <1>4, <1>5, <1>6, <1>7, <1>8, <1>9, <1>10, <1>11 DEF IInv

-----------------------------------------------------------------------------
(* handleRead.                                                             *)

LEMMA HandleReadKeeps ==
  ASSUME IInv, HandleRead
  PROVE  IInv'
<1>1. TypeOK /\ cancelled \subseteq Timers /\ ran \subseteq Timers /\ now \in Nat
  BY DEF IInv, TypeOK
<1>2. /\ pc = "idle" /\ pc' = "run" /\ timerfd' = Disarmed /\ cancelingTimers' = {}
      /\ handleNow' = now /\ expired' = Expired /\ toRun' = expired'
      /\ timers' = timers \ Expired
      /\ UNCHANGED <<now, heap, expiration, interval, idWhen, functors, ran, cancelled, missed>>
  BY DEF HandleRead, timerVars, history
<1>3. /\ expired = {} /\ Expired \subseteq timers /\ timers' \cup expired' = timers
      /\ \A u \in Timers : Entry(u)' = Entry(u) /\ (Queued(u)' <=> Queued(u))
      /\ \A e \in timers : e.timer \in Timers /\ e.when \in Nat
  BY <1>1, <1>2 DEF IInv, IdleInv, Expired, Entry, Queued, TypeOK, Entries
<1>4. TypeOK'
  BY <1>1, <1>2, <1>3 DEF TypeOK
<1>5. EntryInv'
  BY <1>3 DEF IInv, EntryInv
<1>6. QueueInv'
  BY <1>2 DEF IInv, QueueInv
<1>7. OwnerInv'
  BY <1>2, <1>3 DEF IInv, OwnerInv
<1>8. IdleInv' /\ ArmInv'
  <2>1. ASSUME NEW e \in timers' PROVE Fresh(e)'
    <3>1. e \in timers /\ ~(e.when <= now) /\ e.when \in Nat
      BY <1>2, <1>3 DEF Expired
    <3>2. handleNow <= now /\ handleNow \in Nat
      BY DEF IInv, RunInv, TypeOK
    <3>3. Fresh(e)
      BY <1>1, <3>1, <3>2 DEF IInv, ArmInv
    <3> QED BY <1>2, <3>3 DEF Fresh
  <2> QED BY <1>2, <2>1 DEF IdleInv, ArmInv
<1>9. CancelInv'
  BY <1>1, <1>2, <1>3 DEF IInv, CancelInv
<1>10. RunInv'
  <2>1. \A e \in expired' : e.when <= handleNow'
    BY <1>2 DEF Expired
  <2> QED BY <1>1, <1>2, <1>3, <2>1 DEF IInv, RunInv
<1> QED BY <1>4, <1>5, <1>6, <1>7, <1>8, <1>9, <1>10 DEF IInv

LEMMA RunExpiredKeeps ==
  ASSUME IInv, NEW e \in toRun, RunExpired(e)
  PROVE  IInv'
<1>1. /\ TypeOK /\ cancelled \subseteq Timers /\ ran \subseteq Timers /\ toRun \subseteq expired
      /\ e \in expired /\ e.timer \in Timers
  BY DEF IInv, TypeOK, Entries
<1>2. /\ pc = "run" /\ toRun' = toRun \ {e} /\ ran' = ran \cup {e.timer}
      /\ UNCHANGED <<now, heap, expiration, interval, idWhen, functors, timers, timerfd, pc,
                     handleNow, expired, cancelingTimers, cancelled, missed>>
  BY DEF RunExpired, timerVars
<1>3. /\ \A u \in Timers : Entry(u)' = Entry(u) /\ (Queued(u)' <=> Queued(u))
      /\ \A f \in timers \cup expired : f.timer \in Timers
      /\ e = Entry(e.timer)
  BY <1>1, <1>2 DEF IInv, EntryInv, Entry, Queued, TypeOK, Entries
<1>4. TypeOK'
  BY <1>1, <1>2 DEF TypeOK
<1>5. EntryInv'
  BY <1>2, <1>3 DEF IInv, EntryInv
<1>6. QueueInv'
  BY <1>2 DEF IInv, QueueInv
<1>7. OwnerInv'
  BY <1>2, <1>3 DEF IInv, OwnerInv
<1>8. IdleInv' /\ ArmInv'
  BY <1>1, <1>2 DEF IInv, IdleInv, ArmInv, Fresh
<1>9. CancelInv'
  BY <1>1, <1>2, <1>3 DEF IInv, CancelInv
<1>10. RunInv'
  <2>1. /\ heap[e.timer] # "unused" /\ ~Queued(e.timer) /\ Entry(e.timer) \notin timers
    BY <1>1, <1>3 DEF IInv, OwnerInv
  <2>2. ASSUME NEW u \in ran'
        PROVE  /\ heap[u] # "unused" /\ ~Queued(u)
               /\ interval[u] = 0 => Entry(u) \notin timers \cup toRun'
    <3>1. CASE u = e.timer
      BY <1>2, <1>3, <2>1, <3>1
    <3>2. CASE u \in ran
      BY <1>2, <3>2 DEF IInv, RunInv
    <3> QED BY <1>2, <2>2, <3>1, <3>2
  <2>3. \A u \in ran' : u \in Timers
    BY <1>1, <1>2
  <2>4. \A f \in expired : f.when <= handleNow /\ (f \notin toRun' => f.timer \in ran')
    BY <1>2 DEF IInv, RunInv
  <2> QED BY <1>2, <1>3, <2>2, <2>3, <2>4 DEF IInv, RunInv
<1> QED BY <1>4, <1>5, <1>6, <1>7, <1>8, <1>9, <1>10 DEF IInv

\* reset: the one-shot and the cancelled timers are deleted, the others go back.
LEMMA ResetKeeps ==
  ASSUME IInv, Reset
  PROVE  IInv'
<1>1. /\ TypeOK /\ cancelled \subseteq Timers /\ ran \subseteq Timers /\ now \in Nat /\ handleNow \in Nat
      /\ timerfd \in Nat \cup {Disarmed}
  BY DEF IInv, TypeOK
<1>2. /\ pc = "run" /\ pc' = "idle" /\ toRun = {} /\ expired' = {}
      /\ timers' = timers \cup Restarted
      /\ UNCHANGED <<now, interval, idWhen, functors, handleNow, toRun, cancelingTimers, ran,
                     cancelled, missed>>
  BY DEF Reset, history, Reinserted
<1>3. /\ expiration' = [t \in Timers |-> IF t \in TimersOf(Restarted)
                                           THEN handleNow + interval[t] ELSE expiration[t]]
      /\ heap' = [t \in Timers |-> IF t \in TimersOf(expired \ Restarted)
                                     THEN "deleted" ELSE heap[t]]
  BY DEF Reset
<1>4. /\ \A u \in Timers : Entry(u)' = Entry(u) /\ Entry(u).timer = u /\ (Queued(u)' <=> Queued(u))
      /\ \A e \in timers \cup expired : /\ e.timer \in Timers /\ e.when \in Nat /\ e \in Entries
                                       /\ e = Entry(e.timer)
      /\ Restarted \subseteq expired
  BY <1>1, <1>2 DEF IInv, EntryInv, Entry, Queued, TypeOK, Entries, Restarted
<1>5. \A S \in SUBSET expired : \A u \in Timers : u \in TimersOf(S) <=> Entry(u) \in S
  BY <1>4 DEF TimersOf
<1>6. \A u \in Timers :
        /\ Entry(u) \in Restarted => expiration'[u] = handleNow + interval[u]
        /\ Entry(u) \notin Restarted => expiration'[u] = expiration[u]
        /\ Entry(u) \in expired \ Restarted => heap'[u] = "deleted"
        /\ Entry(u) \notin expired \ Restarted => heap'[u] = heap[u]
  BY <1>3, <1>4, <1>5
<1>7. /\ expiration' \in [Timers -> Nat]
      /\ heap' \in [Timers -> {"unused", "live", "deleted"}]
  BY <1>1, <1>3 DEF TypeOK
<1>8. \/ timers' = {} /\ timerfd' = timerfd
      \/ \E e \in timers' : IsBegin(e, timers') /\ timerfd' = Arm(expiration'[e.timer])
  BY DEF Reset
<1>9. timerfd' \in Nat \cup {Disarmed} /\ (timers' # {} => timerfd' # Disarmed)
  <2>1. \A e \in timers' : expiration'[e.timer] \in Nat
    BY <1>2, <1>4, <1>7
  <2> QED BY <1>1, <1>8, <2>1, ArmType
<1>10. TypeOK'
  BY <1>1, <1>2, <1>4, <1>7, <1>9 DEF TypeOK
<1>11. EntryInv'
  BY <1>2, <1>4 DEF EntryInv
<1>12. QueueInv'
  <2>1. \A u \in Timers : heap[u] # "unused" => heap'[u] # "unused"
    BY <1>6
  <2> QED BY <1>1, <1>2, <2>1, TypeOps, QueueShrinks DEF IInv
<1>13. OwnerInv'
  <2>1. ASSUME NEW u \in Timers
        PROVE  /\ heap'[u] = "live" <=> (Queued(u) \/ Entry(u) \in timers \cup Restarted)
               /\ ~(Queued(u) /\ Entry(u) \in timers \cup Restarted)
    BY <1>4, <1>6 DEF IInv, OwnerInv
  <2> QED BY <1>2, <1>4, <2>1 DEF OwnerInv
<1>14. IdleInv'
  BY <1>2 DEF IdleInv
<1>15. CancelInv'
  <2>1. ASSUME NEW u \in cancelled, u \notin missed
        PROVE  Entry(u) \notin timers \cup Restarted
    BY <2>1 DEF IInv, CancelInv, Restarted
  <2>2. ASSUME NEW u \in cancelled
        PROVE  heap'[u] # "unused"
    BY <1>1, <1>6 DEF IInv, CancelInv
  <2> QED BY <1>1, <1>2, <1>4, <2>1, <2>2 DEF IInv, CancelInv
<1>16. RunInv'
  <2>1. ASSUME NEW u \in ran
        PROVE  /\ heap'[u] # "unused" /\ ~Queued(u)
               /\ interval[u] = 0 => Entry(u) \notin timers \cup Restarted
    BY <1>1, <1>4, <1>6 DEF IInv, RunInv, Restarted
  <2>2. ASSUME NEW u \in Timers, u \notin ran \/ interval[u] = 0
        PROVE  expiration'[u] = idWhen[u]
    <3>1. Entry(u) \notin Restarted
      BY <1>1, <1>2, <1>4, <2>2 DEF IInv, RunInv, Restarted
    <3> QED BY <1>6, <2>2, <3>1 DEF IInv, RunInv
  <2>3. \A u \in Timers : heap'[u] = "unused" => interval[u] = 0
    BY <1>6 DEF IInv, RunInv
  <2> QED BY <1>1, <1>2, <1>4, <2>1, <2>2, <2>3 DEF IInv, RunInv
<1>17. \A f \in timers : Fresh(f) /\ Fresh(f)' /\ f \notin Restarted
  <2>1. \A f \in timers : Fresh(f) /\ f \notin Restarted
    BY <1>2, <1>4 DEF IInv, ArmInv, OwnerInv
  <2> QED BY <1>4, <1>6, <2>1 DEF Fresh
<1>18. \A f \in Restarted : f.when <= handleNow /\ f.timer \in ran
  BY <1>2, <1>4 DEF IInv, RunInv
<1>19. \A w : Arm(w)' = Arm(w)
  BY <1>2 DEF Arm
<1>20. ASSUME NEW e \in timers', IsBegin(e, timers'), timerfd' = Arm(expiration'[e.timer])
       PROVE  \E late \in Lates : \A f \in timers' : InTime(f, late)'
  <2>1. CASE e \in Restarted
    <3>1. expiration'[e.timer] = handleNow + interval[e.timer] /\ interval[e.timer] \in Lates
      BY <1>4, <1>6, <1>18, <2>1 DEF Lates
    <3>2. timerfd' = Arm(handleNow + interval[e.timer]) /\ timerfd' \in Nat
      <4>1. handleNow + interval[e.timer] \in Nat
        BY <1>1, <1>4, <2>1 DEF TypeOK
      <4> QED BY <1>1, <1>20, <3>1, <4>1, ArmType
    <3> QED BY <1>2, <1>19, <3>1, <3>2 DEF InTime
  <2>2. CASE e \in timers
    <3>1. e.when \in Nat /\ timerfd' = Arm(e.when)
      BY <1>4, <1>17, <1>20, <2>2 DEF Fresh
    <3>2. ASSUME NEW f \in timers' PROVE InTime(f, 0)'
      <4>1. f.when \in Nat /\ e.when <= f.when
        BY <1>2, <1>4, <1>20, <3>1 DEF IsBegin, Before
      <4>2. CASE f \in timers
        <5>1. Arm(e.when) <= Arm(f.when) /\ f.when + 0 = f.when
          BY <1>1, <3>1, <4>1, ArmType
        <5> QED BY <1>17, <1>19, <3>1, <4>2, <5>1 DEF InTime
      <4>3. CASE f \in Restarted
        <5>1. e.when <= handleNow /\ handleNow + 0 = handleNow
          BY <1>1, <1>18, <3>1, <4>1, <4>3
        <5>2. Arm(e.when) <= Arm(handleNow)
          BY <1>1, <3>1, <5>1, ArmType
        <5> QED BY <1>2, <1>19, <3>1, <5>1, <5>2 DEF InTime
      <4> QED BY <1>2, <4>2, <4>3
    <3> QED BY <3>2 DEF Lates
  <2> QED BY <1>2, <2>1, <2>2
<1>21. ArmInv'
  <2>1. Lates' = Lates
    BY <1>2 DEF Lates
  <2>2. \E late \in Lates' : \A f \in timers' : InTime(f, late)'
    <3>1. CASE timers' = {}
      BY <3>1 DEF Lates
    <3>2. CASE timers' # {}
      BY <1>8, <1>20, <2>1, <3>2
    <3> QED BY <3>1, <3>2
  <2>3. \A f \in timers' : Fresh(f)' \/ f.when <= handleNow'
    BY <1>2, <1>17, <1>18
  <2> QED BY <1>2, <1>9, <2>2, <2>3 DEF ArmInv
<1> QED BY <1>10, <1>11, <1>12, <1>13, <1>14, <1>15, <1>16, <1>21 DEF IInv

\* Time passes.
LEMMA TickKeeps ==
  ASSUME IInv, Tick
  PROVE  IInv'
<1>1. /\ TypeOK /\ now \in Nat /\ handleNow \in Nat /\ now' = now + 1
      /\ UNCHANGED <<heap, expiration, interval, idWhen, functors, timers, timerfd, pc, handleNow,
                     expired, toRun, cancelingTimers, ran, cancelled, missed>>
  BY DEF Tick, IInv, TypeOK, timerVars, handlerVars, history
<1>2. \A u : Entry(u)' = Entry(u) /\ (Queued(u)' <=> Queued(u))
  BY <1>1 DEF Entry, Queued
<1>3. TypeOK' /\ IdleInv' /\ QueueInv'
  BY <1>1 DEF IInv, TypeOK, IdleInv, QueueInv
<1>4. EntryInv' /\ OwnerInv' /\ CancelInv'
  BY <1>1, <1>2 DEF IInv, EntryInv, OwnerInv, CancelInv
<1>5. RunInv'
  BY <1>1, <1>2 DEF IInv, RunInv
<1>6. ArmInv'
  BY <1>1, StillArmed DEF IInv
<1> QED BY <1>3, <1>4, <1>5, <1>6 DEF IInv

-----------------------------------------------------------------------------
(* The invariant holds.                                                    *)

LEMMA InitIInv == Init => IInv
<1> SUFFICES ASSUME Init PROVE IInv
  OBVIOUS
<1>1. functors = <<>> /\ DOMAIN functors = {}
  BY DEF Init
<1>2. TypeOK
  BY <1>1 DEF Init, TypeOK
<1> QED BY <1>1, <1>2 DEF Init, IInv, EntryInv, QueueInv, OwnerInv, Queued, IdleInv, CancelInv, RunInv,
          ArmInv, Lates

LEMMA NextIInv ==
  ASSUME IInv, [Next]_vars
  PROVE  IInv'
<1>1. CASE UNCHANGED vars
  <2>1. /\ \A u : Entry(u)' = Entry(u) /\ (Queued(u)' <=> Queued(u))
    BY <1>1 DEF vars, Entry, Queued
  <2>2. ArmInv'
    BY <1>1, StillArmed DEF vars, IInv, TypeOK
  <2> QED BY <1>1, <2>1, <2>2 DEF vars, IInv, TypeOK, EntryInv, QueueInv, OwnerInv, IdleInv, CancelInv,
            RunInv
<1>2. ASSUME NEW t \in Timers, NEW r \in Requests, LoopThreadAdd(t, r) PROVE IInv'
  BY <1>2, LoopThreadAddKeeps
<1>3. ASSUME NEW t \in Timers, NEW r \in Requests, OtherThreadAdd(t, r) PROVE IInv'
  BY <1>3, OtherThreadAddKeeps
<1>4. ASSUME NEW t \in Timers, LoopThreadCancel(t) PROVE IInv'
  BY <1>4, CancelKeeps DEF LoopThreadCancel
<1>5. ASSUME NEW t \in Timers, OtherThreadCancel(t) PROVE IInv'
  BY <1>5, OtherThreadCancelKeeps
<1>6. CASE RunFunctor
  <2> DEFINE f == Head(functors)
  <2>1. /\ pc = "idle" /\ functors # <<>> /\ functors' = Tail(functors)
        /\ functors \in Seq(Ops) /\ QueueInv
    BY <1>6, TypeOps DEF RunFunctor, IInv
  <2>2. f \in Ops /\ f.timer \in Timers /\ f = [op |-> f.op, timer |-> f.timer]
    BY <2>1, TailElements DEF Ops
  <2>3. heap[f.timer] # "unused"
    BY <2>1, TailElements DEF QueueInv
  <2>4. CASE f.op = "add" /\ AddTimerInLoop(f.timer, expiration[f.timer]) /\ UNCHANGED timerVars
    BY <2>1, <2>2, <2>4, RunAddKeeps
  <2>5. CASE f.op = "cancel" /\ CancelTimerInLoop(f.timer)
    BY <2>1, <2>2, <2>3, <2>5, CancelKeeps
  <2> QED BY <1>6, <2>4, <2>5 DEF RunFunctor
<1>7. CASE HandleRead
  BY <1>7, HandleReadKeeps
<1>8. ASSUME NEW e \in toRun, RunExpired(e) PROVE IInv'
  BY <1>8, RunExpiredKeeps
<1>9. CASE Reset
  BY <1>9, ResetKeeps
<1>10. CASE Tick
  BY <1>10, TickKeeps
<1> QED BY <1>1, <1>2, <1>3, <1>4, <1>5, <1>6, <1>7, <1>8, <1>9, <1>10 DEF Next

\* Every state the timers of a loop reach satisfies the invariant.
THEOREM Invariant == Spec => []IInv
BY InitIInv, NextIInv, PTL DEF Spec

\* The types of the timers' state (TimerQueue.h, Timer.h).
THEOREM TypeCorrect == Spec => []TypeOK
BY Invariant, PTL DEF IInv

\* addTimerInLoop and reset leave the timerfd armed whenever the queue holds a
\* timer, whichever operations the loop's thread and the others interleave, and for
\* no later than one interval of a repeating timer after any timer's expiration or
\* the last round.
THEOREM TimerfdIsArmed == Spec => []TimerfdArmed
<1>1. ASSUME IInv, pc = "idle", timers # {} PROVE
        /\ timerfd # Disarmed
        /\ \E late \in Lates : \A e \in timers :
             \/ timerfd <= Arm(expiration[e.timer] + late)
             \/ timerfd <= Arm(handleNow + late)
  BY <1>1 DEF IInv, ArmInv, InTime, Fresh
<1>2. IInv => TimerfdArmed
  BY <1>1 DEF TimerfdArmed, Lates
<1> QED BY <1>2, Invariant, PTL

\* The pointer in a queued functor, in timers_ or in expired is the only one to a
\* live Timer; the delete of cancelTimerInLoop and of reset is the last use of it.
THEOREM OneOwner == Spec => []Ownership
<1>1. ASSUME IInv PROVE Ownership
  <2>1. \A e \in timers \cup expired : e = Entry(e.timer) /\ e.timer \in Timers
    BY <1>1 DEF IInv, EntryInv, TypeOK, Entries
  <2>2. \A e, f \in timers \cup expired : e.timer = f.timer => e = f
    BY <2>1
  <2>3. \A t \in Timers : t \in TimersOf(timers \cup expired) <=> Entry(t) \in timers \cup expired
    BY <2>1 DEF TimersOf, Entry
  <2> QED BY <1>1, <2>2, <2>3 DEF IInv, OwnerInv, Ownership
<1> QED BY <1>1, Invariant, PTL

\* A timer that cancelTimerInLoop found in timers_ or in the batch of handleRead
\* never goes back to timers_.
THEOREM CancelFinal == Spec => []CancelIsFinal
<1>1. ASSUME IInv PROVE CancelIsFinal
  <2>1. cancelled \subseteq Timers
    BY <1>1 DEF IInv, TypeOK
  <2>2. \A e \in timers : e = Entry(e.timer)
    BY <1>1 DEF IInv, EntryInv
  <2> QED BY <1>1, <2>1, <2>2 DEF IInv, CancelInv, CancelIsFinal, TimersOf
<1> QED BY <1>1, Invariant, PTL

\* getExpired hands handleRead only what is due, and a one-shot timer once.
THEOREM FirstRunTimely == Spec => FirstRunOnTime
<1>1. ASSUME IInv, NEW e \in toRun, RunExpired(e)
      PROVE  /\ e.timer \notin ran => now >= expiration[e.timer]
             /\ interval[e.timer] = 0 => e.timer \notin ran
  <2>1. /\ e \in expired /\ e.timer \in Timers /\ e = Entry(e.timer) /\ e.when \in Nat
        /\ now \in Nat /\ handleNow \in Nat
    BY <1>1 DEF IInv, TypeOK, Entries, EntryInv
  <2>2. e.when <= now
    BY <1>1, <2>1 DEF IInv, RunInv
  <2>3. e.timer \notin ran => expiration[e.timer] = e.when
    BY <1>1, <2>1 DEF IInv, RunInv, Entry
  <2>4. interval[e.timer] = 0 => e.timer \notin ran
    BY <1>1, <2>1 DEF IInv, RunInv
  <2> QED BY <2>1, <2>2, <2>3, <2>4
<1>2. IInv => [\A e \in toRun : RunExpired(e) =>
                  /\ e.timer \notin ran => now >= expiration[e.timer]
                  /\ interval[e.timer] = 0 => e.timer \notin ran]_vars
  BY <1>1
<1> QED BY <1>2, Invariant, PTL DEF FirstRunOnTime

-----------------------------------------------------------------------------
(* No due timer is left behind.                                            *)

\* The key of an entry is never later than its timer's expiration: restart sets that
\* to a time after the run, and the entry keeps the key it had.
KeyInv == \A t \in Timers : idWhen[t] <= expiration[t]

LEMMA NewTimerKey ==
  ASSUME IInv, KeyInv, NEW t \in Timers, NEW r \in Requests, NewTimer(t, now + r.delay, r.every)
  PROVE  KeyInv'
<1> DEFINE when == now + r.delay
<1>1. TypeOK /\ when \in Nat /\ r.every \in Nat
  BY RequestTypes DEF IInv, TypeOK
<1> HIDE DEF when
<1>2. NewTimer(t, when, r.every)
  BY DEF when
<1>3. /\ expiration'[t] = when /\ idWhen'[t] = when
      /\ \A u \in Timers \ {t} : expiration'[u] = expiration[u] /\ idWhen'[u] = idWhen[u]
  BY <1>1, <1>2, NewTimerTypes
<1> QED BY <1>1, <1>3 DEF KeyInv

LEMMA ResetKey ==
  ASSUME IInv, KeyInv, Reset
  PROVE  KeyInv'
<1>1. /\ idWhen' = idWhen /\ idWhen \in [Timers -> Nat]
      /\ handleNow \in Nat /\ interval \in [Timers -> Nat] /\ expiration \in [Timers -> Nat]
  BY DEF Reset, IInv, TypeOK
<1>2. ASSUME NEW t \in Timers PROVE idWhen[t] <= expiration'[t]
  <2>1. expiration'[t] = IF t \in TimersOf(Restarted)
                           THEN handleNow + interval[t] ELSE expiration[t]
    BY DEF Reset
  <2>2. CASE t \in TimersOf(Restarted)
    <3>1. PICK e \in expired : e.timer = t
      BY <2>2 DEF TimersOf, Restarted
    <3>2. e.when = idWhen[t] /\ e.when <= handleNow
      BY <3>1 DEF IInv, EntryInv, Entry, RunInv
    <3>3. idWhen[t] \in Nat /\ interval[t] \in Nat
      BY <1>1
    <3> QED BY <1>1, <2>1, <2>2, <3>2, <3>3
  <2>3. CASE t \notin TimersOf(Restarted)
    BY <2>1, <2>3 DEF KeyInv
  <2> QED BY <2>2, <2>3
<1> QED BY <1>1, <1>2 DEF KeyInv

LEMMA NextKey ==
  ASSUME IInv, KeyInv, [Next]_vars
  PROVE  KeyInv'
<1>1. ASSUME NEW t \in Timers, NEW r \in Requests, LoopThreadAdd(t, r) \/ OtherThreadAdd(t, r)
      PROVE  KeyInv'
  BY <1>1, NewTimerKey DEF LoopThreadAdd, OtherThreadAdd
<1>2. CASE Reset
  BY <1>2, ResetKey
<1>3. CASE \/ \E t \in Timers : LoopThreadCancel(t) \/ OtherThreadCancel(t)
           \/ RunFunctor \/ HandleRead \/ (\E e \in toRun : RunExpired(e)) \/ Tick
           \/ UNCHANGED vars
  <2>1. UNCHANGED <<idWhen, expiration>>
    BY <1>3 DEF LoopThreadCancel, CancelTimerInLoop, OtherThreadCancel, RunFunctor, HandleRead,
                RunExpired, Tick, timerVars, vars
  <2> QED BY <2>1 DEF KeyInv
<1> QED BY <1>1, <1>2, <1>3 DEF Next

\* getExpired takes every timer whose expiration has come, whatever keys reset left.
THEOREM DueAreTaken == Spec => DueTimersTaken
<1>1. Init => KeyInv
  <2> SUFFICES ASSUME Init, NEW t \in Timers PROVE idWhen[t] <= expiration[t]
    BY DEF KeyInv
  <2>1. idWhen[t] = 0 /\ expiration[t] = 0
    BY DEF Init
  <2> QED BY <2>1
<1>2. IInv /\ KeyInv /\ [Next]_vars => KeyInv'
  BY NextKey
<1>3. ASSUME IInv, KeyInv, HandleRead, NEW t \in TimersOf(timers), expiration[t] <= now
      PROVE  t \in TimersOf(expired')
  <2>1. PICK e \in timers : e.timer = t
    BY DEF TimersOf
  <2>2. t \in Timers /\ e.when = idWhen[t]
    BY <1>3, <2>1 DEF IInv, TypeOK, Entries, EntryInv, Entry
  <2>3. idWhen[t] \in Nat /\ expiration[t] \in Nat /\ now \in Nat
    BY <1>3, <2>2 DEF IInv, TypeOK
  <2>4. e.when <= now
    BY <1>3, <2>2, <2>3 DEF KeyInv
  <2>5. e \in expired'
    BY <1>3, <2>4 DEF HandleRead, Expired
  <2> QED BY <2>1, <2>5 DEF TimersOf
<1>4. IInv /\ KeyInv => [HandleRead => \A t \in TimersOf(timers) :
                           expiration[t] <= now => t \in TimersOf(expired')]_vars
  BY <1>3
<1> QED BY <1>1, <1>2, <1>4, Invariant, PTL DEF Spec, DueTimersTaken
=============================================================================
