--------------------- MODULE ThreadPool_OldServer_proofs ---------------------
(***************************************************************************)
(* Proofs about ThreadPool, for any finite set of workers and any number   *)
(* of tasks; and, after it, about OldServer, for any number of I/O         *)
(* threads, clients and descriptors and any sizes of socket and answer.    *)
(***************************************************************************)
EXTENDS ThreadPool, OldServer, FiniteSetTheorems, SequenceTheorems, TLAPS

-----------------------------------------------------------------------------
(* ThreadPool: types.                                                      *)

\* The initial state is well typed.
LEMMA InitTypeOK == Init => TypeOK
<1> SUFFICES ASSUME Init PROVE TypeOK
  OBVIOUS
<1>1. running \in BOOLEAN
  BY Zenon DEF Init
<1> QED
  BY <1>1 DEF Init, TypeOK

\* Every step keeps the state well typed.
LEMMA NextTypeOK == TypeOK /\ [Next]_vars => TypeOK'
<1> SUFFICES ASSUME TypeOK, [Next]_vars PROVE TypeOK'
  OBVIOUS
<1> USE DEF TypeOK
<1>0. Submitted + 1 \in Nat
  BY DEF Submitted
<1>1. CASE Start
  BY <1>1 DEF Start
<1>2. CASE StartDone
  BY <1>2 DEF StartDone
<1>3. CASE Stop
  BY <1>3 DEF Stop
<1>4. CASE Joined
  BY <1>4 DEF Joined
<1>5. CASE Run
  BY <1>0, <1>5 DEF Run, Notify
<1>6. ASSUME NEW w \in Workers, CreateWorker(w) PROVE TypeOK'
  BY <1>6 DEF CreateWorker
<1>7. ASSUME NEW w \in Workers, Begin(w) PROVE TypeOK'
  BY <1>7 DEF Begin, Goto
<1>8. ASSUME NEW w \in Workers, Test(w) PROVE TypeOK'
  BY <1>8 DEF Test, Goto
<1>9. ASSUME NEW w \in Workers, Take(w) PROVE TypeOK'
  BY <1>9 DEF Take, InTake, Goto
<1>10. ASSUME NEW w \in Workers, Wait(w) PROVE TypeOK'
  BY <1>10 DEF Wait, InTake, Goto
<1>11. ASSUME NEW w \in Workers, TakeNothing(w) PROVE TypeOK'
  BY <1>11 DEF TakeNothing, InTake, Goto
<1>12. ASSUME NEW w \in Workers, WakeSpuriously(w) PROVE TypeOK'
  BY <1>12 DEF WakeSpuriously
<1>13. ASSUME NEW w \in Workers, TaskReturns(w) PROVE TypeOK'
  BY <1>13 DEF TaskReturns, Goto
<1>14. CASE UNCHANGED vars
  BY <1>14 DEF vars
<1> QED
  BY <1>1, <1>2, <1>3, <1>4, <1>5, <1>6, <1>7, <1>8, <1>9, <1>10, <1>11, <1>12, <1>13,
     <1>14 DEF Next, Worker

\* Type correctness of the pool's state; only workers inside take wait.
THEOREM TypeCorrect == Spec => []TypeOK
  BY InitTypeOK, NextTypeOK, PTL DEF Spec

-----------------------------------------------------------------------------
(* ThreadPool: no lost wakeup.                                             *)

\* The workers that have been woken up are finitely many.
LEMMA AwakeFinite == IsFiniteSet(Awake) /\ Cardinality(Awake) \in Nat
<1>1. IsFiniteSet(Awake)
  BY WorkersAssumption, FS_Subset DEF Awake
<1> QED
  BY <1>1, FS_CardinalityType

\* A step that changes neither tasks, waiting nor who is in cond_.wait() keeps
\* WakeupPerTask.
LEMMA SameAwake ==
  ASSUME WakeupPerTask, UNCHANGED <<tasks, waiting>>, Awake' = Awake
  PROVE  WakeupPerTask'
  BY DEF WakeupPerTask

\* Waking a worker up adds it to those awake.
LEMMA OneMoreAwake ==
  ASSUME NEW w \in waiting, TypeOK, waiting' = waiting \ {w}, workerPc' = workerPc
  PROVE  Cardinality(Awake') = Cardinality(Awake) + 1
<1>1. Awake' = Awake \cup {w} /\ w \notin Awake
  BY DEF TypeOK, Awake
<1> QED
  BY <1>1, AwakeFinite, FS_AddElement

\* A worker that leaves take takes at most itself away from those awake.
LEMMA OneLessAwake ==
  ASSUME NEW w \in Workers, NEW pc, TypeOK, InTake(w), pc # "wait", Goto(w, pc),
         waiting' = waiting
  PROVE  Cardinality(Awake') >= Cardinality(Awake) - 1 /\ Cardinality(Awake') \in Nat
<1>1. Awake' = Awake \ {w}
  BY DEF TypeOK, Awake, InTake, Goto
<1>2. CASE w \in Awake
  <2>1. Cardinality(Awake \ {w}) = Cardinality(Awake) - 1
    BY <1>2, AwakeFinite, FS_RemoveElement
  <2>2. IsFiniteSet(Awake \ {w}) /\ Cardinality(Awake \ {w}) \in Nat
    BY AwakeFinite, FS_Subset, FS_CardinalityType
  <2> QED
    BY <1>1, <2>1, <2>2, AwakeFinite
<1>3. CASE w \notin Awake
  BY <1>1, <1>3, AwakeFinite
<1> QED
  BY <1>2, <1>3

\* Every step keeps one woken worker for each queued task.
LEMMA NextWakeup == TypeOK /\ WakeupPerTask /\ [Next]_vars => WakeupPerTask'
<1> SUFFICES ASSUME TypeOK, WakeupPerTask, [Next]_vars PROVE WakeupPerTask'
  OBVIOUS
<1> USE DEF TypeOK
<1>1. CASE Start \/ StartDone \/ Joined \/ UNCHANGED vars
  BY <1>1, SameAwake DEF Start, StartDone, Joined, vars, Awake
<1>2. CASE Stop
  BY <1>2 DEF Stop, WakeupPerTask
<1>3. CASE Run
  <2>1. CASE waiting = {}
    BY <1>3, <2>1 DEF Run, Notify, WakeupPerTask
  <2>2. CASE waiting # {}
    <3>1. PICK w \in waiting : waiting' = waiting \ {w}
      BY <1>3, <2>2 DEF Run, Notify
    <3>2. Cardinality(Awake') = Cardinality(Awake) + 1
      BY <1>3, <3>1, OneMoreAwake DEF Run
    <3>3. Len(tasks') = Len(tasks) + 1
      BY <1>3 DEF Run
    <3> QED
      BY <2>2, <3>2, <3>3, AwakeFinite DEF WakeupPerTask
  <2> QED
    BY <2>1, <2>2
<1>4. ASSUME NEW w \in Workers, CreateWorker(w) PROVE WakeupPerTask'
  BY <1>4, SameAwake DEF CreateWorker, Awake
<1>5. ASSUME NEW w \in Workers, Begin(w) \/ Test(w) \/ TaskReturns(w) PROVE WakeupPerTask'
  <2>1. Awake' = Awake /\ UNCHANGED <<tasks, waiting>>
    BY <1>5 DEF Begin, Test, TaskReturns, Goto, Awake
  <2> QED
    BY <2>1, SameAwake
<1>6. ASSUME NEW w \in Workers, Take(w) PROVE WakeupPerTask'
  <2>1. Cardinality(Awake') >= Cardinality(Awake) - 1 /\ Cardinality(Awake') \in Nat
    BY <1>6, OneLessAwake DEF Take
  <2>2. Len(tasks') = Len(tasks) - 1 /\ Len(tasks) \in Nat
    BY <1>6 DEF Take
  <2>3. waiting' = waiting
    BY <1>6 DEF Take
  <2> QED
    BY <2>1, <2>2, <2>3, AwakeFinite DEF WakeupPerTask
<1>7. ASSUME NEW w \in Workers, Wait(w) PROVE WakeupPerTask'
  <2>1. tasks' = <<>>
    BY <1>7 DEF Wait
  <2>2. Awake' \subseteq Workers
    BY DEF Awake
  <2>3. Cardinality(Awake') \in Nat
    BY <2>2, WorkersAssumption, FS_Subset, FS_CardinalityType
  <2> QED
    BY <2>1, <2>3 DEF WakeupPerTask
<1>8. ASSUME NEW w \in Workers, TakeNothing(w) PROVE WakeupPerTask'
  <2>1. Cardinality(Awake') \in Nat
    BY <1>8, OneLessAwake DEF TakeNothing
  <2>2. tasks' = <<>>
    BY <1>8 DEF TakeNothing
  <2> QED
    BY <2>1, <2>2 DEF WakeupPerTask
<1>9. ASSUME NEW w \in Workers, WakeSpuriously(w) PROVE WakeupPerTask'
  <2>1. Cardinality(Awake') = Cardinality(Awake) + 1
    BY <1>9, OneMoreAwake DEF WakeSpuriously
  <2> QED
    BY <1>9, <2>1, AwakeFinite DEF WakeSpuriously, WakeupPerTask
<1> QED
  BY <1>1, <1>2, <1>3, <1>4, <1>5, <1>6, <1>7, <1>8, <1>9 DEF Next, Worker

\* While workers sleep in take, every queued task has a worker awake for it:
\* run never leaves a task to a pool that sleeps (run, take, stop).
THEOREM NoTaskSleepsUnattended == Spec => []WakeupPerTask
<1>1. Init => WakeupPerTask
  BY DEF Init, WakeupPerTask
<1> QED
  BY <1>1, InitTypeOK, NextTypeOK, NextWakeup, PTL DEF Spec

-----------------------------------------------------------------------------
(* ThreadPool: the pool implements the task queue.                         *)

\* Every step of the pool is a step of the task queue or leaves it as it was.
LEMMA NextImplements == TypeOK /\ [Next]_vars => [Tasks!Next]_(Tasks!vars)
<1> SUFFICES ASSUME TypeOK, [Next]_vars PROVE [Tasks!Next]_(Tasks!vars)
  OBVIOUS
<1> USE DEF TypeOK
<1>1. CASE Start \/ StartDone \/ Stop \/ Joined \/ UNCHANGED vars
  BY <1>1 DEF Start, StartDone, Stop, Joined, vars, Tasks!vars
<1>2. CASE Run
  BY <1>2 DEF Run, Submitted, Tasks!Next, Tasks!Submit
<1>3. ASSUME NEW w \in Workers,
             CreateWorker(w) \/ Begin(w) \/ Test(w) \/ Wait(w) \/ TakeNothing(w)
               \/ WakeSpuriously(w) \/ TaskReturns(w)
      PROVE  UNCHANGED Tasks!vars
  BY <1>3 DEF CreateWorker, Begin, Test, Wait, TakeNothing, WakeSpuriously, TaskReturns,
              Tasks!vars
<1>4. ASSUME NEW w \in Workers, Take(w) PROVE Tasks!Next
  BY <1>4 DEF Take, Tasks!Next, Tasks!Run
<1> QED
  BY <1>1, <1>2, <1>3, <1>4 DEF Next, Worker

\* Whichever workers take them, the tasks start in the order of run, each once
\* and none skipped (run, take).
THEOREM Implementation == Spec => ImplementsTaskQueue
<1>1. Init => Tasks!Init
  BY DEF Init, Tasks!Init
<1> QED
  BY <1>1, InitTypeOK, NextTypeOK, NextImplements, PTL DEF Spec, ImplementsTaskQueue, Tasks!Spec

-----------------------------------------------------------------------------
(* OldServer: the inductive invariant.                                     *)

\* Types.
Units == Nat \X (1 .. ReplySize)
Functors == [op : {"established", "remove", "destroyed"}, conn : Conns]
Actives == [channel : 0 .. MaxClients + 1, revents : SUBSET {"in", "out", "hup", "err"}]

LoopType ==
  [pc : {"poll", "events", "functors"}, active : SUBSET Actives, pending : Seq(Functors),
   functors : Seq(Functors), done : Nat, woken : BOOLEAN]

ConnType ==
  [life : {"none", "queued", "turnedAway", "posted", "up", "closed", "down", "freed"},
   fd : 0 .. MaxFds, loop : Loops, connected : BOOLEAN, needDisconn : BOOLEAN,
   output : Seq(Units), events : SUBSET {"in", "out"}, state : {"new", "added", "deleted"},
   sock : Seq(Units), inbox : Nat, peer : {"open", "closed", "reset"}, error : BOOLEAN,
   shut : BOOLEAN, got : Seq(Units), answers : Nat, requests : Nat]

OldTypeOK ==
  /\ threadNum \in 0 .. MaxThreads
  /\ limit \in Fds
  /\ next \in 0 .. MaxThreads
  /\ loop \in [Loops -> LoopType]
  /\ channels \in [Loops -> [Fds -> 0 .. MaxClients]]
  /\ conn \in [Conns -> ConnType]
  /\ map \in SUBSET Conns
  /\ backlog \in Seq(Conns)

\* A connection by itself: what its life says of its channel and its flags.
ConnInv(k) ==
  /\ k.life \notin {"up", "closed", "down"} =>
       /\ k.state = "new" /\ k.events = {} /\ ~k.connected /\ ~k.shut
       /\ k.output = <<>> /\ k.sock = <<>> /\ k.got = <<>>
  /\ k.life = "up" => k.state = "added" /\ "in" \in k.events /\ (IsWriting(k) \/ k.output = <<>>)
  /\ k.life = "closed" => k.state = "deleted" /\ k.events = {} /\ ~k.connected
  /\ k.life = "down" => k.state = "new" /\ k.events = {} /\ ~k.connected
  /\ k.shut => ~k.connected /\ ~IsWriting(k) /\ k.output = <<>>
  /\ Len(k.sock) <= SockSize
  /\ Whole(Stream(k), k.answers)

\* The clients come in order; those in the queue are there once.
AcceptInv ==
  /\ next < threadNum \/ next = 0
  /\ \E n \in 0 .. MaxClients : \A c \in Conns : conn[c].life # "none" <=> c <= n
  /\ \A i \in DOMAIN backlog : conn[backlog[i]].life = "queued"
  /\ \A i, j \in DOMAIN backlog : backlog[i] = backlog[j] => i = j

\* The functors that loop r has still to run.
Todo(r) == SubSeq(r.functors, r.done + 1, Len(r.functors)) \o r.pending

\* Functor e of loop l, and what its connection has come to.
FunctorInv(l, e) ==
  /\ e.op = "established" => conn[e.conn].life = "posted" /\ conn[e.conn].loop = l
  /\ e.op = "remove" =>
       /\ conn[e.conn].life = "closed" /\ e.conn \in map
       /\ l = Main /\ conn[e.conn].loop # Main
  /\ e.op = "destroyed" =>
       conn[e.conn].life = "closed" /\ e.conn \notin map /\ conn[e.conn].loop = l

\* A connection has one functor at a time.
Has(t, e) == \E i \in DOMAIN t : t[i] = e
Unique(t) == \A i, j \in DOMAIN t : t[i].conn = t[j].conn => i = j

QueueInv ==
  \A l \in Loops :
    /\ Unique(Todo(loop[l]))
    /\ \A e \in Functors : Has(Todo(loop[l]), e) => FunctorInv(l, e)

\* Where a loop is.
LoopInv ==
  \A l \in Loops :
    /\ loop[l].done <= Len(loop[l].functors)
    /\ loop[l].pc # "functors" => loop[l].functors = <<>> /\ loop[l].done = 0
    /\ loop[l].pc # "events" => loop[l].active = {}

\* The channels that a loop has still to handle.
ActiveInv ==
  \A l \in Loops :
    /\ \A a \in loop[l].active :
         /\ a.channel = Acceptor => l = Main /\ backlog # <<>>
         /\ a.channel \in Conns => conn[a.channel].life = "up" /\ conn[a.channel].loop = l
    /\ \A a, b \in loop[l].active : a.channel = b.channel => a = b

\* What keeps a connection alive, until it is down.
Kept(c) ==
  /\ conn[c].life \in {"posted", "up"} => c \in map
  /\ c \in map => conn[c].life \in {"posted", "up", "closed"}
  /\ conn[c].life = "closed" /\ c \notin map =>
       \E l \in Loops : \E i \in DOMAIN Todo(loop[l]) : Todo(loop[l])[i].conn = c

HolderInv == \A c \in Conns : Kept(c)

\* Whose a descriptor is, and which connection is in which poller.
FdInv ==
  /\ \A c \in Existing : conn[c].fd \in Fds
  /\ \A c, d \in Existing : conn[c].fd = conn[d].fd => c = d

ChannelInv ==
  /\ \A l \in Loops, f \in Fds : channels[l][f] # NoConn =>
       LET k == conn[channels[l][f]]
       IN  k.life \in {"up", "closed"} /\ k.fd = f /\ k.loop = l
  /\ \A c \in Conns : conn[c].life \in {"up", "closed"} =>
       channels[conn[c].loop][conn[c].fd] = c

\* All of it: the connections, the functors, the channels and what keeps alive what.
OldInv ==
  /\ OldTypeOK
  /\ \A c \in Conns : ConnInv(conn[c])
  /\ AcceptInv /\ QueueInv /\ LoopInv /\ ActiveInv /\ HolderInv /\ FdInv /\ ChannelInv

-----------------------------------------------------------------------------
(* OldServer: streams of units.                                            *)

\* The bounds are numbers, and there is a descriptor, room in a socket and an answer.
LEMMA Sizes ==
  /\ MaxThreads \in Nat /\ MaxClients \in Nat /\ MaxFds \in Nat /\ MaxFds > 0
  /\ SockSize \in Nat /\ SockSize > 0 /\ ReplySize \in Nat /\ ReplySize > 0
BY OldBoundsAssumption, OldSizesAssumption

\* What onMessage sends.
LEMMA ReplyType ==
  ASSUME NEW n \in Nat
  PROVE  /\ Reply(n) \in Seq(Units) /\ Len(Reply(n)) = ReplySize
         /\ \A j \in 1 .. ReplySize : Reply(n)[j] = <<n, j>>
<1>1. Reply(n) \in [1 .. ReplySize -> Units]
  BY DEF Reply, Units
<1>2. Reply(n) \in Seq(Units) /\ Len(Reply(n)) = ReplySize
  BY <1>1, Sizes, SeqDef, LenProperties
<1> QED BY <1>2 DEF Reply

\* Answers that are whole stay so when another one is begun.
LEMMA WholeGrows ==
  ASSUME NEW s \in Seq(Units), NEW n \in Nat, Whole(s, n)
  PROVE  Whole(s, n + 1)
<1>1. \A j \in DOMAIN s : s[j][1] \in Nat
  BY DEF Units
<1> QED BY <1>1 DEF Whole

\* A whole answer behind whole answers.
LEMMA WholeAppend ==
  ASSUME NEW s \in Seq(Units), NEW n \in Nat, Whole(s, n)
  PROVE  Whole(s \o Reply(n + 1), n + 1)
<1> DEFINE r == Reply(n + 1)
           t == s \o r
<1>1. /\ r \in Seq(Units) /\ Len(r) = ReplySize
      /\ \A j \in 1 .. ReplySize : r[j] = <<n + 1, j>>
  BY ReplyType
<1> HIDE DEF r
<1>2. /\ t \in Seq(Units) /\ Len(t) = Len(s) + ReplySize
      /\ \A i \in 1 .. Len(s) : t[i] = s[i]
      /\ \A j \in 1 .. ReplySize : t[Len(s) + j] = <<n + 1, j>>
  <2>1. t \in Seq(Units) /\ Len(t) = Len(s) + ReplySize
    BY <1>1, ConcatProperties
  <2>2. \A i \in 1 .. Len(s) + Len(r) : t[i] = IF i <= Len(s) THEN s[i] ELSE r[i - Len(s)]
    BY <1>1, ConcatProperties
  <2>3. ASSUME NEW j \in 1 .. ReplySize PROVE t[Len(s) + j] = <<n + 1, j>>
    <3>1. Len(s) + j \in 1 .. Len(s) + Len(r) /\ ~(Len(s) + j <= Len(s)) /\ Len(s) + j - Len(s) = j
      BY <1>1, Sizes
    <3>2. t[Len(s) + j] = r[j]
      BY <2>2, <3>1
    <3> QED BY <1>1, <3>2
  <2>4. ASSUME NEW i \in 1 .. Len(s) PROVE t[i] = s[i]
    BY <1>1, <2>2, Sizes
  <2> QED BY <2>1, <2>3, <2>4
<1> HIDE DEF t
<1>3. t[1][2] = 1
  <2>1. CASE s = <<>>
    <3>1. Len(s) + 1 = 1 /\ 1 \in 1 .. ReplySize
      BY <2>1, Sizes
    <3>2. t[Len(s) + 1] = <<n + 1, 1>>
      BY <1>2, <3>1
    <3> QED BY <3>1, <3>2
  <2>2. CASE s # <<>>
    BY <1>2, <2>2 DEF Whole
  <2> QED BY <2>1, <2>2
<1>4. t[Len(t)][2] = ReplySize
  BY <1>2, Sizes
<1>5. \A i \in DOMAIN t : t[i][1] <= n + 1
  <2> SUFFICES ASSUME NEW i \in 1 .. Len(t) PROVE t[i][1] <= n + 1
    BY <1>2
  <2>1. CASE i <= Len(s)
    <3>1. t[i] = s[i] /\ s[i] \in Units /\ s[i][1] <= n
      BY <1>2, <2>1 DEF Whole
    <3> QED BY <3>1 DEF Units
  <2>2. CASE i > Len(s)
    <3>1. t[Len(s) + (i - Len(s))] = <<n + 1, i - Len(s)>>
      BY <1>2, <2>2, Sizes
    <3> QED BY <2>2, <3>1
  <2> QED BY <2>1, <2>2
<1>6. \A i \in 1 .. Len(t) - 1 : Follows(t[i], t[i + 1])
  <2> SUFFICES ASSUME NEW i \in 1 .. Len(t) - 1 PROVE Follows(t[i], t[i + 1])
    OBVIOUS
  <2>1. CASE i < Len(s)
    <3>1. i \in 1 .. Len(s) /\ i + 1 \in 1 .. Len(s) /\ i \in 1 .. Len(s) - 1
      BY <1>2, <2>1
    <3>2. t[i] = s[i] /\ t[i + 1] = s[i + 1]
      BY <1>2, <3>1
    <3> QED BY <3>1, <3>2 DEF Whole
  <2>2. CASE i = Len(s)
    <3>1. t[i][2] = ReplySize /\ t[i][1] <= n /\ t[i] \in Units
      BY <1>2, <2>2 DEF Whole
    <3>2. t[i + 1] = <<n + 1, 1>>
      BY <1>2, <2>2, Sizes
    <3>3. t[i][1] \in Nat /\ t[i + 1][1] = n + 1 /\ t[i + 1][2] = 1
      BY <3>1, <3>2 DEF Units
    <3> QED BY <3>1, <3>3, Sizes DEF Follows
  <2>3. CASE i > Len(s)
    <3> DEFINE j == i - Len(s)
    <3>1. j \in 1 .. ReplySize /\ j + 1 \in 1 .. ReplySize /\ i = Len(s) + j /\ i + 1 = Len(s) + (j + 1)
      BY <1>2, <2>3, Sizes
    <3>2. t[i] = <<n + 1, j>> /\ t[i + 1] = <<n + 1, j + 1>>
      BY <1>2, <3>1
    <3> QED BY <3>1, <3>2, Sizes DEF Follows
  <2> QED BY <2>1, <2>2, <2>3
<1> QED BY <1>3, <1>4, <1>5, <1>6 DEF Whole, t, r

\* Two streams of units make one.
LEMMA ConcatType ==
  ASSUME NEW r \in Seq(Units), NEW s \in Seq(Units)
  PROVE  r \o s \in Seq(Units)
BY ConcatProperties

\* Only the units and their order matter.
LEMMA Associative ==
  ASSUME NEW r \in Seq(Units), NEW s \in Seq(Units), NEW t \in Seq(Units)
  PROVE  (r \o s) \o t = r \o (s \o t)
BY ConcatAssociative

\* What was cut for the socket and what is kept are what there was.
LEMMA CutTogether ==
  ASSUME NEW u \in Seq(Units), NEW n \in 0 .. Len(u)
  PROVE  /\ SubSeq(u, 1, n) \in Seq(Units) /\ Len(SubSeq(u, 1, n)) = n
         /\ Behind(u, n) \in Seq(Units) /\ Len(Behind(u, n)) = Len(u) - n
         /\ SubSeq(u, 1, n) \o Behind(u, n) = u
<1> DEFINE a == SubSeq(u, 1, n)
           b == SubSeq(u, n + 1, Len(u))
           ab == a \o b
<1>1. /\ a \in Seq(Units) /\ Len(a) = n /\ \A i \in 1 .. n : a[i] = u[i]
  BY SubSeqProperties
<1>2. b \in Seq(Units) /\ Len(b) = Len(u) - n /\ \A i \in 1 .. Len(u) - n : b[i] = u[n + i]
  BY SubSeqProperties
<1> HIDE DEF a, b
<1>3. /\ ab \in Seq(Units) /\ Len(ab) = Len(u)
      /\ \A i \in 1 .. n : ab[i] = u[i]
      /\ \A i \in 1 .. Len(u) - n : ab[n + i] = u[n + i]
  BY <1>1, <1>2, ConcatProperties
<1> HIDE DEF ab
<1>4. ASSUME NEW i \in 1 .. Len(ab) PROVE ab[i] = u[i]
  <2>1. CASE i <= n
    BY <1>3, <2>1
  <2>2. CASE i > n
    <3>1. ab[n + (i - n)] = u[n + (i - n)]
      BY <1>3, <2>2
    <3> QED BY <2>2, <3>1
  <2> QED BY <2>1, <2>2
<1>5. ab = u
  BY <1>3, <1>4, SeqEqual
<1> QED BY <1>1, <1>2, <1>5 DEF ab, a, b, Behind

\* Concatenation under a name of its own: steps speak of it and look into it only where
\* they must.
Join(s, t) == s \o t

\* What is joined can be joined in any order.
LEMMA Joining ==
  ASSUME NEW r \in Seq(Units), NEW s \in Seq(Units), NEW t \in Seq(Units)
  PROVE  Join(r, s) \in Seq(Units) /\ Join(Join(r, s), t) = Join(r, Join(s, t))
BY Associative, ConcatType DEF Join

\* What waited and has been written in part.
LEMMA StreamStays ==
  ASSUME NEW g \in Seq(Units), NEW s \in Seq(Units), NEW o \in Seq(Units), NEW n \in 0 .. Len(o)
  PROVE  Join(Join(g, Join(s, SubSeq(o, 1, n))), Behind(o, n)) = Join(Join(g, s), o)
<1> DEFINE a == SubSeq(o, 1, n)
           b == Behind(o, n)
           p == Join(g, s)
<1>1. a \in Seq(Units) /\ b \in Seq(Units) /\ Join(a, b) = o
  BY CutTogether DEF Join
<1> HIDE DEF a, b
<1>2. p \in Seq(Units) /\ Join(g, Join(s, a)) = Join(p, a)
  BY <1>1, Joining
<1> HIDE DEF p
<1>3. Join(Join(p, a), b) = Join(p, Join(a, b))
  BY <1>1, <1>2, Joining
<1>4. Join(Join(g, Join(s, a)), b) = Join(p, o)
  BY <1>1, <1>2, <1>3
<1> QED BY <1>4, Zenon DEF a, b, p

\* A message that is written at once, as far as it can be, and one that is not.
LEMMA StreamGrows ==
  ASSUME NEW g \in Seq(Units), NEW s \in Seq(Units), NEW u \in Seq(Units), NEW n \in 0 .. Len(u)
  PROVE  Join(Join(g, Join(s, SubSeq(u, 1, n))), Join(<<>>, Behind(u, n)))
           = Join(Join(Join(g, s), <<>>), u)
<1> DEFINE b == Behind(u, n)
           x == Join(g, Join(s, SubSeq(u, 1, n)))
           y == Join(g, s)
<1>1. Join(x, b) = Join(y, u)
  BY StreamStays
<1>2. b \in Seq(Units) /\ y \in Seq(Units)
  BY CutTogether, Joining
<1> HIDE DEF b, x, y
<1>3. Join(<<>>, b) = b /\ Join(y, <<>>) = y
  BY <1>2, ConcatEmptySeq DEF Join
<1>4. Join(x, Join(<<>>, b)) = Join(Join(y, <<>>), u)
  BY <1>1, <1>3
<1> QED BY <1>4, Zenon DEF b, x, y

\* What the client reads moves from the socket to it.
LEMMA StreamRead ==
  ASSUME NEW g \in Seq(Units), NEW s \in Seq(Units), s # <<>>, NEW o \in Seq(Units)
  PROVE  /\ Append(g, Head(s)) \in Seq(Units) /\ Tail(s) \in Seq(Units) /\ Len(Tail(s)) = Len(s) - 1
         /\ Append(g, Head(s)) \o Tail(s) \o o = g \o s \o o
<1> DEFINE h == <<Head(s)>>
           t == Tail(s)
<1>1. h \in Seq(Units) /\ t \in Seq(Units) /\ h \o t = s /\ Len(t) = Len(s) - 1 /\ Head(s) \in Units
  BY HeadTailProperties, HeadTailAppend
<1>2. Append(g, Head(s)) = g \o h
  BY <1>1, AppendIsConcat
<1> HIDE DEF h, t
<1>3. ((g \o h) \o t) \o o = (g \o (h \o t)) \o o
  <2>1. h \in Seq(Units) /\ t \in Seq(Units)
    BY <1>1
  <2> QED BY <2>1, Associative
<1>4. Append(g, Head(s)) \in Seq(Units)
  BY <1>1
<1> QED BY <1>1, <1>2, <1>3, <1>4 DEF t

-----------------------------------------------------------------------------
(* OldServer: a connection by itself.                                      *)

\* m is k after a call that may end the connection, but not more.
Handled(k, m) ==
  /\ m \in ConnType /\ ConnInv(m)
  /\ m.fd = k.fd /\ m.loop = k.loop

\* An error that is looked at, or one of write, changes nothing else.
LEMMA ErrorStep ==
  ASSUME NEW k \in ConnType, ConnInv(k)
  PROVE  LET m == [k EXCEPT !.error = FALSE] IN Handled(k, m) /\ m.life = k.life
<1> DEFINE m == [k EXCEPT !.error = FALSE]
<1>1. m \in ConnType
  BY DEF ConnType
<1>2. /\ m.life = k.life /\ m.fd = k.fd /\ m.loop = k.loop /\ m.connected = k.connected
      /\ m.output = k.output /\ m.events = k.events /\ m.state = k.state /\ m.sock = k.sock
      /\ m.shut = k.shut /\ m.got = k.got /\ m.answers = k.answers
  BY DEF ConnType
<1> HIDE DEF m
<1>3. Stream(m) = Stream(k) /\ IsWriting(m) = IsWriting(k)
  BY <1>2 DEF Stream, IsWriting
<1>4. ConnInv(m)
  BY <1>2, <1>3 DEF ConnInv
<1> QED BY <1>1, <1>2, <1>4 DEF Handled, m

\* handleClose of a connection that is up.
LEMMA CloseStep ==
  ASSUME NEW k \in ConnType, ConnInv(k), k.life = "up"
  PROVE  Handled(k, HandleClose(k)) /\ HandleClose(k).life = "closed"
<1> DEFINE m == HandleClose(k)
<1>1. m \in ConnType
  BY DEF ConnType, ConnInv, HandleClose, DisableAll, Update
<1>2. /\ m.life = "closed" /\ m.fd = k.fd /\ m.loop = k.loop /\ m.connected = FALSE
      /\ m.output = k.output /\ m.events = {} /\ m.state = "deleted" /\ m.sock = k.sock
      /\ m.shut = k.shut /\ m.got = k.got /\ m.answers = k.answers
  BY DEF ConnType, ConnInv, HandleClose, DisableAll, Update
<1> HIDE DEF m
<1>3. Stream(m) = Stream(k) /\ ~IsWriting(m)
  BY <1>2 DEF Stream, IsWriting
<1>4. ConnInv(m)
  BY <1>2, <1>3 DEF ConnInv
<1> QED BY <1>1, <1>2, <1>4 DEF Handled, m

\* shutdownInLoop shuts the write side only when nothing waits for it.
LEMMA ShutdownInLoopStep ==
  ASSUME NEW k \in ConnType, ConnInv(k), k.life = "up"
  PROVE  Handled(k, ShutdownInLoop(k)) /\ ShutdownInLoop(k).life = "up"
<1>1. CASE IsWriting(k)
  BY <1>1 DEF ShutdownInLoop, Handled
<1>2. CASE ~IsWriting(k)
  <2> DEFINE m == [k EXCEPT !.connected = FALSE, !.shut = TRUE]
  <2>1. m \in ConnType
    BY DEF ConnType
  <2>2. /\ m.life = k.life /\ m.fd = k.fd /\ m.loop = k.loop /\ m.connected = FALSE
        /\ m.output = k.output /\ m.events = k.events /\ m.state = k.state /\ m.sock = k.sock
        /\ m.got = k.got /\ m.answers = k.answers
    BY DEF ConnType
  <2>3. ShutdownInLoop(k) = m
    BY <1>2 DEF ShutdownInLoop
  <2> HIDE DEF m
  <2>4. Stream(m) = Stream(k) /\ ~IsWriting(m)
    BY <1>2, <2>2 DEF Stream, IsWriting
  <2>5. ConnInv(m)
    BY <1>2, <2>2, <2>4 DEF ConnInv
  <2> QED BY <2>1, <2>2, <2>3, <2>5 DEF Handled
<1> QED BY <1>1, <1>2

\* shutdown, which may have to wait for the output.
LEMMA ShutdownStep ==
  ASSUME NEW k \in ConnType, ConnInv(k), k.life = "up"
  PROVE  Handled(k, Shutdown(k)) /\ Shutdown(k).life = "up"
<1> DEFINE m == [k EXCEPT !.needDisconn = TRUE]
<1>1. m \in ConnType
  BY DEF ConnType
<1>2. /\ m.life = k.life /\ m.fd = k.fd /\ m.loop = k.loop /\ m.connected = k.connected
      /\ m.output = k.output /\ m.events = k.events /\ m.state = k.state /\ m.sock = k.sock
      /\ m.shut = k.shut /\ m.got = k.got /\ m.answers = k.answers
  BY DEF ConnType
<1>3. Shutdown(k) = k \/ Shutdown(k) = ShutdownInLoop(m)
  BY DEF Shutdown
<1> HIDE DEF m
<1>4. Stream(m) = Stream(k) /\ IsWriting(m) = IsWriting(k)
  BY <1>2 DEF Stream, IsWriting
<1>5. ConnInv(m)
  BY <1>2, <1>4 DEF ConnInv
<1>6. Handled(m, ShutdownInLoop(m)) /\ ShutdownInLoop(m).life = "up"
  BY <1>1, <1>2, <1>5, ShutdownInLoopStep
<1> QED BY <1>2, <1>3, <1>6 DEF Handled

\* What write takes.
LEMMA WriteStep ==
  ASSUME NEW k \in ConnType, Len(k.sock) <= SockSize, NEW u \in Seq(Units)
  PROVE  LET n == Taken(k, u)
             s == k.sock \o SubSeq(u, 1, n)
         IN  /\ n \in 0 .. Len(u) /\ s \in Seq(Units) /\ Len(s) <= SockSize
             /\ Write(k, u) = [k EXCEPT !.sock = s]
<1> DEFINE n == Taken(k, u)
           c == SubSeq(u, 1, n)
           s == k.sock \o c
<1>1. k.sock \in Seq(Units) /\ Len(k.sock) \in Nat
  BY DEF ConnType
<1>2. n \in 0 .. Len(u) /\ n <= SockSize - Len(k.sock)
  <2> DEFINE r == SockSize - Len(k.sock)
  <2>1. r \in Nat /\ Len(u) \in Nat
    BY <1>1, Sizes
  <2>2. n = IF Len(u) < r THEN Len(u) ELSE r
    BY DEF Taken, Room
  <2> HIDE DEF n, r
  <2>3. n \in 0 .. Len(u) /\ n <= r
    BY <2>1, <2>2
  <2> QED BY <2>3 DEF r
<1>3. Write(k, u) = [k EXCEPT !.sock = s]
  BY DEF Write
<1> HIDE DEF n
<1>4. c \in Seq(Units) /\ Len(c) = n
  BY <1>2, CutTogether
<1> HIDE DEF c
<1>5. s \in Seq(Units) /\ Len(s) = Len(k.sock) + n
  BY <1>1, <1>4, ConcatProperties
<1> HIDE DEF s
<1>6. Len(s) <= SockSize
  BY <1>1, <1>2, <1>5, Sizes
<1> QED BY <1>2, <1>3, <1>5, <1>6 DEF n, s, c

\* A connection that is up and stays so: what has to be known of its successor.
LEMMA StillUp ==
  ASSUME NEW k \in ConnType, ConnInv(k), k.life = "up", NEW m \in ConnType,
         m.life = "up", m.fd = k.fd, m.loop = k.loop, m.state = "added", "in" \in m.events,
         IsWriting(m) \/ m.output = <<>>, Len(m.sock) <= SockSize,
         m.shut => ~m.connected /\ ~IsWriting(m), Whole(Stream(m), m.answers)
  PROVE  Handled(k, m)
BY DEF ConnInv, Handled

\* handleWrite: nothing, an error, or what fits; the last of it may bring the shutdown.
LEMMA HandleWriteStep ==
  ASSUME NEW k \in ConnType, ConnInv(k), k.life \in {"up", "closed"}
  PROVE  Handled(k, HandleWrite(k)) /\ HandleWrite(k).life = k.life
<1>1. CASE ~IsWriting(k)
  BY <1>1 DEF HandleWrite, Handled
<1>2. CASE IsWriting(k) /\ WriteFails(k)
  BY <1>2, ErrorStep DEF HandleWrite
<1>3. CASE IsWriting(k) /\ ~WriteFails(k)
  <2>0. k.life = "up"
    BY <1>3 DEF ConnInv, IsWriting
  <2> DEFINE n == Taken(k, k.output)
             s == k.sock \o SubSeq(k.output, 1, n)
             b == Behind(k.output, n)
             w == [Write(k, k.output) EXCEPT !.output = b]
             d == DisableWriting(w)
  <2>1. k.output \in Seq(Units) /\ k.sock \in Seq(Units) /\ k.got \in Seq(Units)
    BY DEF ConnType
  <2>2. /\ n \in 0 .. Len(k.output) /\ s \in Seq(Units) /\ Len(s) <= SockSize
        /\ Write(k, k.output) = [k EXCEPT !.sock = s]
    BY <2>1, WriteStep DEF ConnInv
  <2>3. b \in Seq(Units)
    BY <2>1, <2>2, CutTogether
  <2>4. k.got \o s \o b = Stream(k)
    <3>1. n \in 0 .. Len(k.output)
      BY <2>2
    <3> HIDE DEF n
    <3>2. Join(Join(k.got, Join(k.sock, SubSeq(k.output, 1, n))), Behind(k.output, n))
            = Join(Join(k.got, k.sock), k.output)
      BY <2>1, <3>1, StreamStays
    <3> QED BY <3>2, Zenon DEF Stream, Join
  <2>5. HandleWrite(k) = w \/ (b = <<>> /\ HandleWrite(k) \in {ShutdownInLoop(d), d})
    <3>1. w.output = b
      BY DEF Write, ConnType
    <3> HIDE DEF w, d, b
    <3>2. HandleWrite(k) = IF w.output # <<>> THEN w
                           ELSE IF w.needDisconn THEN ShutdownInLoop(d) ELSE d
      BY <1>3 DEF HandleWrite, w, d, b, n
    <3>3. CASE b # <<>>
      BY <3>1, <3>2, <3>3
    <3>4. CASE b = <<>>
      BY <3>1, <3>2, <3>4
    <3> QED BY <3>3, <3>4
  <2> HIDE DEF n, s, b
  <2>6. w = [k EXCEPT !.sock = s, !.output = b]
    BY <2>2
  <2>7. w \in ConnType /\ w.sock = s /\ w.output = b /\ w.events = k.events
    <3>1. s \in Seq(Units)
      BY <2>2
    <3> HIDE DEF w
    <3> QED BY <2>3, <2>6, <3>1 DEF ConnType
  <2>8. /\ w.life = "up" /\ w.fd = k.fd /\ w.loop = k.loop /\ w.state = "added"
        /\ w.connected = k.connected /\ w.shut = k.shut /\ w.got = k.got /\ w.answers = k.answers
    BY <2>0, <2>6 DEF ConnType, ConnInv
  <2> HIDE DEF w
  <2>9. Stream(w) = Stream(k) /\ IsWriting(w) /\ "in" \in w.events /\ ~w.shut
    BY <1>3, <2>0, <2>4, <2>7, <2>8 DEF Stream, IsWriting, ConnInv
  <2>10. Whole(Stream(w), w.answers)
    BY <2>8, <2>9 DEF ConnInv
  <2>11. Handled(k, w)
    BY <2>0, <2>2, <2>7, <2>8, <2>9, <2>10, StillUp
  <2>12. b = <<>> => Handled(w, d) /\ d.life = "up"
    <3> SUFFICES ASSUME b = <<>> PROVE Handled(w, d) /\ d.life = "up"
      OBVIOUS
    <3> DEFINE rest == w.events \ {"out"}
    <3>0. d = [w EXCEPT !.events = rest, !.state = "added"]
      <4>1. rest # {}
        BY <2>9
      <4>2. d = [w EXCEPT !.events = rest,
                          !.state = IF @ = "added" /\ rest = {} THEN "deleted" ELSE "added"]
        BY Zenon DEF d, DisableWriting, Update
      <4> HIDE DEF rest
      <4> QED BY <4>1, <4>2
    <3>1. d \in ConnType /\ d.events = w.events \ {"out"} /\ d.state = "added"
      <4>1. rest \in SUBSET {"in", "out"}
        BY <2>7 DEF ConnType
      <4> HIDE DEF d, rest
      <4>2. d \in ConnType /\ d.events = rest /\ d.state = "added"
        BY <2>7, <3>0, <4>1 DEF ConnType
      <4> QED BY <4>2 DEF rest
    <3>2. /\ d.life = "up" /\ d.fd = w.fd /\ d.loop = w.loop /\ d.connected = w.connected
          /\ d.output = <<>> /\ d.sock = w.sock
          /\ d.shut = w.shut /\ d.got = w.got /\ d.answers = w.answers
      <4> HIDE DEF d, rest
      <4> QED BY <2>7, <2>8, <3>0 DEF ConnType
    <3> HIDE DEF d
    <3>3. Stream(d) = Stream(w) /\ "in" \in d.events
      BY <2>7, <2>9, <3>1, <3>2 DEF Stream
    <3>4. ConnInv(w) /\ Len(d.sock) <= SockSize
      BY <2>2, <2>7, <2>11, <3>2 DEF Handled
    <3> QED BY <2>7, <2>8, <2>9, <2>10, <3>1, <3>2, <3>3, <3>4, StillUp
  <2>13. CASE HandleWrite(k) = w
    BY <2>0, <2>8, <2>11, <2>13
  <2>14. CASE HandleWrite(k) # w
    <3>1. b = <<>>
      BY <2>5, <2>14
    <3>2. Handled(w, d) /\ d.life = "up"
      BY <2>12, <3>1
    <3> HIDE DEF d
    <3>3. Handled(d, ShutdownInLoop(d)) /\ ShutdownInLoop(d).life = "up"
      BY <3>2, ShutdownInLoopStep DEF Handled
    <3> QED BY <2>0, <2>5, <2>11, <2>14, <3>2, <3>3 DEF Handled
  <2> QED BY <2>13, <2>14
<1> QED BY <1>1, <1>2, <1>3

\* send: nothing, all of the message, or what fits and the rest.
LEMMA SendStep ==
  ASSUME NEW k \in ConnType, ConnInv(k), k.life = "up"
  PROVE  Handled(k, Send(k)) /\ Send(k).life = "up"
<1>1. CASE ~k.connected
  BY <1>1 DEF Send, Handled
<1>2. CASE k.connected
  <2> DEFINE a == k.answers + 1
             u == Reply(a)
             j == [k EXCEPT !.answers = a]
             direct == ~IsWriting(j) /\ j.output = <<>>
             n == IF direct THEN Taken(j, u) ELSE 0
             s == j.sock \o SubSeq(u, 1, n)
             o == j.output \o Behind(u, n)
             x == [(IF direct THEN Write(j, u) ELSE j) EXCEPT !.output = o]
  <2>1. /\ k.answers \in Nat /\ k.sock \in Seq(Units) /\ k.output \in Seq(Units) /\ k.got \in Seq(Units)
        /\ Len(k.sock) <= SockSize /\ ~k.shut /\ Whole(Stream(k), k.answers) /\ Stream(k) \in Seq(Units)
    BY <1>2, ConcatType DEF ConnType, ConnInv, Stream
  <2>2. j \in ConnType
    <3>1. a \in Nat
      BY <2>1
    <3> HIDE DEF a
    <3> QED BY <3>1 DEF ConnType
  <2>3. /\ j.life = "up" /\ j.fd = k.fd /\ j.loop = k.loop /\ j.connected /\ j.output = k.output
        /\ j.events = k.events /\ j.state = "added" /\ j.sock = k.sock /\ ~j.shut /\ j.got = k.got
        /\ j.answers = a
    BY <1>2, <2>1 DEF ConnType, ConnInv
  <2>4. /\ Send(k) = k \/ Send(k) = SendInThread(j, u)
        /\ u \in Seq(Units) /\ Len(u) = ReplySize
    <3>1. a \in Nat
      BY <2>1
    <3>2. Send(k) = k \/ Send(k) = SendInThread(j, u)
      BY <1>2, Zenon DEF Send
    <3> HIDE DEF a, j
    <3>3. u \in Seq(Units) /\ Len(u) = ReplySize
      BY <3>1, ReplyType
    <3> QED BY <3>2, <3>3, Zenon
  <2>5. Whole(Stream(k), a) /\ Whole(Stream(k) \o u, a)
    BY <2>1, WholeGrows, WholeAppend
  <2> HIDE DEF a, u, j
  <2>15. /\ j.got \in Seq(Units) /\ j.sock \in Seq(Units) /\ j.output \in Seq(Units)
         /\ u \in Seq(Units)
    BY <2>1, <2>3, <2>4
  <2>6. Stream(j) = Stream(k) /\ IsWriting(j) = IsWriting(k)
    BY <2>3 DEF Stream, IsWriting
  <2>7. "in" \in j.events /\ (IsWriting(j) \/ j.output = <<>>)
    BY <2>3, <2>6 DEF ConnInv
  <2>8. Handled(k, j)
    BY <2>1, <2>2, <2>3, <2>5, <2>6, <2>7, StillUp
  <2>9. /\ n \in 0 .. Len(u) /\ s \in Seq(Units) /\ Len(s) <= SockSize
        /\ (IF direct THEN Write(j, u) ELSE j) = [j EXCEPT !.sock = s]
    <3>1. CASE direct
      BY <2>1, <2>2, <2>3, <2>4, <3>1, WriteStep
    <3>2. CASE ~direct
      <4>1. n = 0 /\ SubSeq(u, 1, 0) = <<>>
        BY <3>2, SubSeqEmpty
      <4>2. s = j.sock
        BY <2>1, <2>3, <4>1, ConcatEmptySeq
      <4>3. n \in 0 .. Len(u)
        BY <2>4, <4>1, Sizes
      <4>4. [j EXCEPT !.sock = j.sock] = j
        BY <2>2 DEF ConnType
      <4> QED BY <2>1, <2>3, <3>2, <4>2, <4>3, <4>4
    <3> QED BY <3>1, <3>2
  <2>10. o \in Seq(Units) /\ (j.got \o s) \o o = Stream(j) \o u
    <3>1. Behind(u, n) \in Seq(Units)
      BY <2>4, <2>9, CutTogether
    <3>2. o \in Seq(Units)
      BY <2>1, <2>3, <3>1, ConcatType
    <3>3. CASE direct
      <4>1. n \in 0 .. Len(u) /\ j.output = <<>>
        BY <2>9, <3>3
      <4> HIDE DEF n
      <4>2. Join(Join(j.got, Join(j.sock, SubSeq(u, 1, n))), Join(<<>>, Behind(u, n)))
              = Join(Join(Join(j.got, j.sock), <<>>), u)
        BY <2>15, <4>1, StreamGrows
      <4>3. (j.got \o (j.sock \o SubSeq(u, 1, n))) \o (<<>> \o Behind(u, n))
              = ((j.got \o j.sock) \o <<>>) \o u
        BY <4>2, Zenon DEF Join
      <4> QED BY <3>2, <4>1, <4>3 DEF Stream
    <3>4. CASE ~direct
      <4>1. n = 0 /\ SubSeq(u, 1, 0) = <<>>
        BY <3>4, SubSeqEmpty
      <4>2. Behind(u, 0) = u
        BY <2>4, SubSeqFull DEF Behind
      <4>3. s = j.sock
        BY <2>1, <2>3, <4>1, ConcatEmptySeq
      <4>4. (j.got \o j.sock) \o (j.output \o u) = ((j.got \o j.sock) \o j.output) \o u
        <5> DEFINE p == j.got \o j.sock
                   q == j.output
        <5>1. p \in Seq(Units) /\ q \in Seq(Units) /\ u \in Seq(Units)
          BY <2>15, ConcatType
        <5> HIDE DEF p, q
        <5>2. (p \o q) \o u = p \o (q \o u)
          BY <5>1, Associative
        <5> QED BY <5>2 DEF p, q
      <4> QED BY <3>2, <4>1, <4>2, <4>3, <4>4 DEF Stream
    <3> QED BY <3>3, <3>4
  <2>11. \/ direct /\ SendInThread(j, u) = [j EXCEPT !.error = FALSE]
         \/ direct /\ n = Len(u) /\ SendInThread(j, u) = Write(j, u)
         \/ n # Len(u) /\ SendInThread(j, u) = EnableWriting(x)
    <3>1. n = Len(u) => direct
      BY <2>4, Sizes
    <3>3. (IF direct THEN Write(j, u) ELSE j).output = j.output
      <4> HIDE DEF s
      <4> QED BY <2>2, <2>9 DEF ConnType
    <3> HIDE DEF direct
    <3>2. SendInThread(j, u) =
            IF direct /\ WriteFails(j) THEN [j EXCEPT !.error = FALSE]
            ELSE IF n = Len(u) THEN Write(j, u)
            ELSE EnableWriting(x)
      BY <2>3, <3>3, Zenon DEF SendInThread, direct
    <3> QED BY <3>1, <3>2
  <2>12. CASE SendInThread(j, u) = [j EXCEPT !.error = FALSE]
    <3>1. Handled(j, [j EXCEPT !.error = FALSE]) /\ [j EXCEPT !.error = FALSE].life = "up"
      BY <2>2, <2>3, <2>8, ErrorStep DEF Handled
    <3> QED BY <1>2, <2>3, <2>4, <2>8, <2>12, <3>1 DEF Handled
  <2>13. CASE direct /\ n = Len(u) /\ SendInThread(j, u) = Write(j, u)
    <3> DEFINE m == [j EXCEPT !.sock = s]
    <3>1. SendInThread(j, u) = m /\ o = <<>>
      <4>1. Behind(u, n) = <<>> /\ j.output = <<>>
        BY <2>4, <2>13, SubSeqEmpty DEF Behind
      <4> QED BY <2>9, <2>13, <4>1, ConcatEmptySeq
    <3> HIDE DEF s, o, n
    <3>2. m \in ConnType
      BY <2>2, <2>9 DEF ConnType
    <3>3. /\ m.life = "up" /\ m.fd = j.fd /\ m.loop = j.loop /\ m.output = <<>>
          /\ m.events = j.events /\ m.state = "added" /\ m.sock = s /\ ~m.shut /\ m.got = j.got
          /\ m.answers = a
      BY <2>2, <2>3, <2>13 DEF ConnType
    <3> HIDE DEF m
    <3>4. Stream(m) = Stream(j) \o u
      BY <2>10, <3>1, <3>3 DEF Stream
    <3>6. m.fd = k.fd /\ m.loop = k.loop /\ Len(m.sock) <= SockSize /\ "in" \in m.events
      BY <2>3, <2>7, <2>9, <3>3
    <3>7. Whole(Stream(m), m.answers)
      BY <2>5, <2>6, <3>3, <3>4
    <3>5. Handled(k, m)
      BY <3>2, <3>3, <3>6, <3>7, StillUp
    <3> QED BY <2>4, <3>1, <3>3, <3>5 DEF Handled
  <2>14. CASE SendInThread(j, u) = EnableWriting(x)
    <3> DEFINE y == [j EXCEPT !.sock = s, !.output = o]
               m == EnableWriting(y)
    <3> HIDE DEF s, o, n
    <3>1. x = y
      BY <2>9
    <3>2. m \in ConnType
      BY <2>2, <2>9, <2>10, Zenon DEF ConnType, EnableWriting, Update
    <3>3. /\ m.life = "up" /\ m.fd = j.fd /\ m.loop = j.loop /\ m.output = o
          /\ m.events = j.events \cup {"out"} /\ m.state = "added" /\ m.sock = s /\ m.connected
          /\ ~m.shut /\ m.got = j.got /\ m.answers = a
      BY <2>2, <2>3 DEF ConnType, EnableWriting, Update
    <3> HIDE DEF m
    <3>4. Stream(m) = Stream(j) \o u /\ IsWriting(m) /\ "in" \in m.events
      BY <2>7, <2>10, <3>3 DEF Stream, IsWriting
    <3>6. m.fd = k.fd /\ m.loop = k.loop /\ Len(m.sock) <= SockSize
      BY <2>3, <2>9, <3>3
    <3>7. Whole(Stream(m), m.answers)
      BY <2>5, <2>6, <3>3, <3>4
    <3>5. Handled(k, m)
      BY <3>2, <3>3, <3>4, <3>6, <3>7, StillUp
    <3> QED BY <2>4, <2>14, <3>1, <3>3, <3>5 DEF Handled, m
  <2> QED BY <2>11, <2>12, <2>13, <2>14
<1> QED BY <1>1, <1>2

\* onMessage, and then handleRead.
LEMMA OnMessageStep ==
  ASSUME NEW k \in ConnType, ConnInv(k), k.life = "up", NEW close \in BOOLEAN
  PROVE  Handled(k, OnMessage(k, close)) /\ OnMessage(k, close).life = "up"
<1> DEFINE m == Send(k)
<1>1. Handled(k, m) /\ m.life = "up"
  BY SendStep
<1> HIDE DEF m
<1>2. Handled(m, Shutdown(m)) /\ Shutdown(m).life = "up"
  BY <1>1, ShutdownStep DEF Handled
<1>3. OnMessage(k, close) \in {m, Shutdown(m)}
  BY DEF OnMessage, m
<1> QED BY <1>1, <1>2, <1>3 DEF Handled

\* handleRead: requests, an error, or the end.
LEMMA HandleReadStep ==
  ASSUME NEW k \in ConnType, ConnInv(k), k.life = "up", NEW close \in BOOLEAN
  PROVE  Handled(k, HandleRead(k, close)) /\ HandleRead(k, close).life \in {"up", "closed"}
<1>1. CASE k.inbox > 0
  <2> DEFINE m == [k EXCEPT !.inbox = 0]
  <2>1. m \in ConnType
    BY DEF ConnType
  <2>2. /\ m.life = k.life /\ m.fd = k.fd /\ m.loop = k.loop /\ m.connected = k.connected
        /\ m.output = k.output /\ m.events = k.events /\ m.state = k.state /\ m.sock = k.sock
        /\ m.shut = k.shut /\ m.got = k.got /\ m.answers = k.answers
    BY DEF ConnType
  <2>3. HandleRead(k, close) = OnMessage(m, close)
    BY <1>1 DEF HandleRead
  <2> HIDE DEF m
  <2>4. Stream(m) = Stream(k) /\ IsWriting(m) = IsWriting(k)
    BY <2>2 DEF Stream, IsWriting
  <2>5. ConnInv(m)
    BY <2>2, <2>4 DEF ConnInv
  <2>6. Handled(m, OnMessage(m, close)) /\ OnMessage(m, close).life = "up"
    BY <2>1, <2>2, <2>5, OnMessageStep
  <2> QED BY <2>2, <2>3, <2>6 DEF Handled
<1>2. CASE ~(k.inbox > 0)
  <2>1. HandleRead(k, close) \in {HandleClose(k), HandleError(k)}
    BY <1>2 DEF HandleRead
  <2>2. Handled(k, HandleError(k)) /\ HandleError(k).life = "up"
    BY ErrorStep DEF HandleError
  <2> QED BY <2>1, <2>2, CloseStep
<1> QED BY <1>1, <1>2

\* handleEvent leaves the connection up, or closed.
LEMMA HandleEventStep ==
  ASSUME NEW k \in ConnType, ConnInv(k), k.life = "up", NEW close \in BOOLEAN,
         NEW revents \in SUBSET {"in", "out", "hup", "err"}
  PROVE  /\ Handled(k, HandleEvent(k, revents, close))
         /\ HandleEvent(k, revents, close).life \in {"up", "closed"}
<1> DEFINE hup == IF "hup" \in revents /\ "in" \notin revents THEN HandleClose(k) ELSE k
           err == IF "err" \in revents THEN HandleError(hup) ELSE hup
           in  == IF "in" \in revents THEN HandleRead(err, close) ELSE err
           out == IF "out" \in revents THEN HandleWrite(in) ELSE in
<1>1. HandleEvent(k, revents, close) = out
  BY DEF HandleEvent
<1>2. Handled(k, hup) /\ hup.life \in {"up", "closed"} /\ ("in" \in revents => hup.life = "up")
  BY CloseStep DEF Handled
<1> HIDE DEF hup
<1>3. Handled(k, err) /\ err.life = hup.life
  <2>1. Handled(hup, HandleError(hup)) /\ HandleError(hup).life = hup.life
    BY <1>2, ErrorStep DEF HandleError, Handled
  <2> QED BY <1>2, <2>1 DEF Handled
<1> HIDE DEF err
<1>4. Handled(k, in) /\ in.life \in {"up", "closed"}
  <2>1. CASE "in" \in revents
    <3>1. Handled(err, HandleRead(err, close)) /\ HandleRead(err, close).life \in {"up", "closed"}
      BY <1>2, <1>3, <2>1, HandleReadStep DEF Handled
    <3> QED BY <1>3, <2>1, <3>1 DEF Handled
  <2>2. CASE "in" \notin revents
    BY <1>2, <1>3, <2>2
  <2> QED BY <2>1, <2>2
<1> HIDE DEF in
<1>5. Handled(k, out) /\ out.life \in {"up", "closed"}
  <2>1. Handled(in, HandleWrite(in)) /\ HandleWrite(in).life = in.life
    BY <1>4, HandleWriteStep DEF Handled
  <2> QED BY <1>4, <2>1 DEF Handled
<1> QED BY <1>1, <1>5

\* connectionEstablished, of a connection that nothing has happened to but requests.
LEMMA EstablishedStep ==
  ASSUME NEW k \in ConnType, ConnInv(k), k.life = "posted"
  PROVE  /\ Handled(k, ConnectionEstablished(k))
         /\ ConnectionEstablished(k).life = "up"
<1> DEFINE m == ConnectionEstablished(k)
<1>1. m \in ConnType
  BY Zenon DEF ConnType, ConnInv, ConnectionEstablished, Update
<1>2. /\ m.life = "up" /\ m.fd = k.fd /\ m.loop = k.loop /\ m.connected
      /\ m.output = k.output /\ m.events = k.events \cup {"in"} /\ m.state = "added"
      /\ m.sock = k.sock /\ m.shut = k.shut /\ m.got = k.got /\ m.answers = k.answers
  BY DEF ConnType, ConnInv, ConnectionEstablished, Update
<1> HIDE DEF m
<1>3. Stream(m) = Stream(k) /\ "in" \in m.events
  BY <1>2 DEF Stream
<1>4. ConnInv(m)
  BY <1>2, <1>3 DEF ConnInv
<1> QED BY <1>1, <1>2, <1>4 DEF Handled, m

\* connectionDestroyed, of a connection that is closed.
LEMMA DestroyedStep ==
  ASSUME NEW k \in ConnType, ConnInv(k), k.life = "closed"
  PROVE  /\ Handled(k, ConnectionDestroyed(k))
         /\ ConnectionDestroyed(k).life = "down"
<1> DEFINE m == ConnectionDestroyed(k)
<1>1. m \in ConnType
  BY Zenon DEF ConnType, ConnInv, ConnectionDestroyed, RemoveChannel, DisableReading, Update
<1>2. /\ m.life = "down" /\ m.fd = k.fd /\ m.loop = k.loop /\ ~m.connected
      /\ m.output = k.output /\ m.events = {} /\ m.state = "new"
      /\ m.sock = k.sock /\ m.shut = k.shut /\ m.got = k.got /\ m.answers = k.answers
  BY DEF ConnType, ConnInv, ConnectionDestroyed, RemoveChannel, DisableReading, Update
<1> HIDE DEF m
<1>3. Stream(m) = Stream(k) /\ ~IsWriting(m)
  BY <1>2 DEF Stream, IsWriting
<1>4. ConnInv(m)
  BY <1>2, <1>3 DEF ConnInv
<1> QED BY <1>1, <1>2, <1>4 DEF Handled, m

\* What is left of a freed connection has sent nothing.
LEMMA FreedStep ==
  ASSUME NEW k \in ConnType
  PROVE  Freed(k) \in ConnType /\ ConnInv(Freed(k)) /\ Freed(k).life = "freed"
<1> DEFINE m == Freed(k)
<1>1. m \in ConnType
  <2>1. Main \in Loops /\ NoFd \in 0 .. MaxFds /\ <<>> \in Seq(Units)
    BY Sizes DEF Main, Loops, NoFd
  <2> QED BY <2>1 DEF ConnType, Freed, NewConn
<1>2. /\ m.life = "freed" /\ ~m.connected /\ ~m.shut /\ m.state = "new" /\ m.events = {}
      /\ m.output = <<>> /\ m.sock = <<>> /\ m.got = <<>> /\ m.answers = 0
  BY DEF Freed, NewConn
<1> HIDE DEF m
<1>3. Stream(m) = <<>>
  BY <1>2, ConcatEmptySeq DEF Stream
<1>4. Whole(Stream(m), m.answers) /\ Len(m.sock) <= SockSize
  BY <1>2, <1>3, Sizes DEF Whole
<1>5. ConnInv(m)
  BY <1>2, <1>4 DEF ConnInv, IsWriting
<1> QED BY <1>1, <1>2, <1>5 DEF m

\* A step of the client: what it does, and the connection as the server sees it.
LEMMA ClientStep ==
  ASSUME NEW k \in ConnType, ConnInv(k), NEW m \in ConnType,
         m.life = k.life, m.connected = k.connected, m.events = k.events, m.state = k.state,
         m.shut = k.shut, m.output = k.output, m.answers = k.answers,
         Len(m.sock) <= SockSize, Stream(m) = Stream(k),
         m.life \notin {"up", "closed", "down"} => m.sock = <<>> /\ m.got = <<>>
  PROVE  ConnInv(m)
BY DEF ConnInv, IsWriting

-----------------------------------------------------------------------------
(* OldServer: the functors that a loop has still to run.                   *)

\* u has the functors that t has, those of c apart.
SameBut(t, u, c) ==
  /\ \A j \in DOMAIN u : u[j].conn # c => \E i \in DOMAIN t : t[i] = u[j]
  /\ \A i \in DOMAIN t : t[i].conn # c => \E j \in DOMAIN u : u[j] = t[i]

\* A functor for a connection that had none.
LEMMA OneMore ==
  ASSUME NEW t \in Seq(Functors), Unique(t), NEW e \in Functors,
         \A i \in DOMAIN t : t[i].conn # e.conn
  PROVE  LET u == Append(t, e)
         IN  /\ u \in Seq(Functors) /\ Unique(u) /\ SameBut(t, u, e.conn)
             /\ \A d \in Functors : Has(u, d) /\ d.conn = e.conn => d = e
             /\ Has(u, e)
<1> DEFINE u == Append(t, e)
<1>1. /\ u \in Seq(Functors) /\ Len(u) = Len(t) + 1
      /\ \A i \in 1 .. Len(t) : u[i] = t[i]
      /\ u[Len(t) + 1] = e
  BY AppendProperties
<1>2. DOMAIN t = 1 .. Len(t) /\ DOMAIN u = 1 .. Len(t) + 1 /\ Len(t) \in Nat
  BY <1>1
<1> HIDE DEF u
<1>3. \A j \in DOMAIN u : j \in DOMAIN t \/ j = Len(t) + 1
  BY <1>2
<1>4. \A i \in DOMAIN t : i \in DOMAIN u /\ i # Len(t) + 1
  BY <1>2
<1>5. Unique(u)
  <2> SUFFICES ASSUME NEW i \in DOMAIN u, NEW j \in DOMAIN u, u[i].conn = u[j].conn
               PROVE  i = j
    BY DEF Unique
  <2>1. CASE i \in DOMAIN t /\ j \in DOMAIN t
    BY <1>1, <1>2, <2>1 DEF Unique
  <2>2. CASE i \in DOMAIN t /\ j = Len(t) + 1
    BY <1>1, <1>2, <2>2
  <2>3. CASE i = Len(t) + 1 /\ j \in DOMAIN t
    BY <1>1, <1>2, <2>3
  <2> QED BY <1>3, <2>1, <2>2, <2>3
<1>6. SameBut(t, u, e.conn)
  BY <1>1, <1>2, <1>3, <1>4 DEF SameBut
<1>7. \A j \in DOMAIN u : u[j].conn = e.conn => u[j] = e
  BY <1>1, <1>2, <1>3
<1>8. Len(t) + 1 \in DOMAIN u
  BY <1>2
<1>9. Has(u, e) /\ \A d \in Functors : Has(u, d) /\ d.conn = e.conn => d = e
  BY <1>1, <1>7, <1>8 DEF Has
<1> QED BY <1>1, <1>5, <1>6, <1>9 DEF u

\* The first functor has gone.
LEMMA OneLess ==
  ASSUME NEW t \in Seq(Functors), Unique(t), t # <<>>
  PROVE  LET u == Tail(t)
         IN  /\ u \in Seq(Functors) /\ Unique(u) /\ SameBut(t, u, t[1].conn)
             /\ \A d \in Functors : Has(u, d) => d.conn # t[1].conn
<1> DEFINE u == Tail(t)
<1>1. /\ u \in Seq(Functors) /\ Len(u) = Len(t) - 1
      /\ \A i \in 1 .. Len(u) : u[i] = t[i + 1]
  BY HeadTailProperties
<1>2. DOMAIN t = 1 .. Len(t) /\ DOMAIN u = 1 .. Len(t) - 1 /\ Len(t) \in Nat /\ 1 \in DOMAIN t
  BY <1>1
<1> HIDE DEF u
<1>3. \A j \in DOMAIN u : j + 1 \in DOMAIN t /\ j + 1 # 1 /\ u[j] = t[j + 1] /\ j \in Nat
  BY <1>1, <1>2
<1>4. \A i \in DOMAIN t : i # 1 => i - 1 \in DOMAIN u /\ u[i - 1] = t[i]
  <2> SUFFICES ASSUME NEW i \in DOMAIN t, i # 1 PROVE i - 1 \in DOMAIN u /\ u[i - 1] = t[i]
    OBVIOUS
  <2>1. i - 1 \in DOMAIN u /\ (i - 1) + 1 = i
    BY <1>2
  <2> QED BY <1>3, <2>1
<1>5. Unique(u)
  BY <1>3 DEF Unique
<1>6. \A j \in DOMAIN u : u[j].conn # t[1].conn
  BY <1>2, <1>3 DEF Unique
<1>7. SameBut(t, u, t[1].conn)
  <2>1. \A j \in DOMAIN u : \E i \in DOMAIN t : t[i] = u[j]
    BY <1>3
  <2>2. \A i \in DOMAIN t : t[i].conn # t[1].conn => i # 1
    OBVIOUS
  <2>3. \A i \in DOMAIN t : t[i].conn # t[1].conn => \E j \in DOMAIN u : u[j] = t[i]
    BY <1>4, <2>2
  <2> QED BY <2>1, <2>3 DEF SameBut
<1>8. \A d \in Functors : Has(u, d) => d.conn # t[1].conn
  BY <1>6 DEF Has
<1> QED BY <1>1, <1>5, <1>7, <1>8 DEF u

\* Nothing changed.
LEMMA NoneChanged ==
  ASSUME NEW t, NEW c
  PROVE  SameBut(t, t, c)
BY DEF SameBut

\* What is left of the functors, in whatever way the loop's record changes.
LEMMA TodoType ==
  ASSUME NEW r \in LoopType, r.done <= Len(r.functors)
  PROVE  /\ Todo(r) \in Seq(Functors)
         /\ SubSeq(r.functors, r.done + 1, Len(r.functors)) \in Seq(Functors)
         /\ r.functors \in Seq(Functors) /\ r.pending \in Seq(Functors) /\ r.done \in Nat
<1> DEFINE f == SubSeq(r.functors, r.done + 1, Len(r.functors))
<1>1. r.functors \in Seq(Functors) /\ r.pending \in Seq(Functors) /\ r.done \in Nat
  BY DEF LoopType
<1>2. f \in Seq(Functors)
  <2> DEFINE g == r.functors
             n == r.done + 1
  <2>1. g \in Seq(Functors) /\ n \in 1 .. Len(g) + 1
    BY <1>1
  <2> HIDE DEF g, n
  <2>2. SubSeq(g, n, Len(g)) \in Seq(Functors)
    BY <2>1, SubSeqProperties
  <2> QED BY <2>2 DEF g, n
<1> HIDE DEF f
<1>3. f \o r.pending \in Seq(Functors)
  BY <1>1, <1>2, ConcatProperties
<1> QED BY <1>1, <1>2, <1>3 DEF Todo, f

\* A functor that is queued is the last to run.
LEMMA TodoQueued ==
  ASSUME NEW r \in LoopType, r.done <= Len(r.functors), NEW m \in LoopType, NEW e \in Functors,
         m.functors = r.functors, m.done = r.done, m.pending = Append(r.pending, e)
  PROVE  Todo(m) = Append(Todo(r), e)
<1> DEFINE f == SubSeq(r.functors, r.done + 1, Len(r.functors))
           p == r.pending
<1>1. f \in Seq(Functors) /\ p \in Seq(Functors) /\ <<e>> \in Seq(Functors)
  BY TodoType
<1>2. Todo(m) = f \o Append(p, e) /\ Todo(r) = f \o p
  BY DEF Todo
<1> HIDE DEF f, p
<1>3. Append(p, e) = p \o <<e>> /\ f \o p \in Seq(Functors)
  BY <1>1, AppendIsConcat, ConcatProperties
<1>4. Append(f \o p, e) = (f \o p) \o <<e>>
  BY <1>3, AppendIsConcat
<1>5. f \o (p \o <<e>>) = (f \o p) \o <<e>>
  BY <1>1, ConcatAssociative
<1> QED BY <1>2, <1>3, <1>4, <1>5

\* All that waits has been swapped out, and all that was swapped out has run.
LEMMA TodoMoved ==
  ASSUME NEW r \in LoopType, NEW m \in LoopType,
         \/ /\ r.functors = <<>> /\ r.done = 0
            /\ m.functors = r.pending /\ m.done = 0 /\ m.pending = <<>>
         \/ /\ r.done = Len(r.functors)
            /\ m.functors = <<>> /\ m.done = 0 /\ m.pending = r.pending
  PROVE  Todo(m) = Todo(r)
<1>1. /\ r.functors \in Seq(Functors) /\ r.pending \in Seq(Functors)
      /\ m.functors \in Seq(Functors) /\ m.pending \in Seq(Functors)
  BY DEF LoopType
<1>2. \A s \in Seq(Functors) : SubSeq(s, Len(s) + 1, Len(s)) = <<>> /\ SubSeq(s, 1, Len(s)) = s
  BY SubSeqEmpty, SubSeqFull
<1>3. \A s \in Seq(Functors) : <<>> \o s = s /\ s \o <<>> = s
  BY ConcatEmptySeq
<1>4. Len(<<>>) = 0 /\ <<>> \in Seq(Functors)
  OBVIOUS
<1>5. CASE /\ r.functors = <<>> /\ r.done = 0
           /\ m.functors = r.pending /\ m.done = 0 /\ m.pending = <<>>
  <2>1. SubSeq(r.functors, r.done + 1, Len(r.functors)) = <<>>
    BY <1>2, <1>4, <1>5
  <2>2. SubSeq(m.functors, m.done + 1, Len(m.functors)) = r.pending
    BY <1>1, <1>2, <1>5
  <2> QED BY <1>1, <1>3, <1>5, <2>1, <2>2 DEF Todo
<1>6. CASE /\ r.done = Len(r.functors)
           /\ m.functors = <<>> /\ m.done = 0 /\ m.pending = r.pending
  <2>1. SubSeq(r.functors, r.done + 1, Len(r.functors)) = <<>>
    BY <1>1, <1>2, <1>6
  <2>2. SubSeq(m.functors, m.done + 1, Len(m.functors)) = <<>>
    BY <1>2, <1>4, <1>6
  <2> QED BY <1>6, <2>1, <2>2 DEF Todo
<1> QED BY <1>5, <1>6

\* An element put in front of a sequence is its head, and the sequence its tail.
LEMMA PutInFront ==
  ASSUME NEW x \in Functors, NEW s \in Seq(Functors)
  PROVE  <<x>> \o s # <<>> /\ (<<x>> \o s)[1] = x /\ Tail(<<x>> \o s) = s
<1> DEFINE o == <<x>>
           t == o \o s
<1>1. o \in Seq(Functors) /\ Len(o) = 1 /\ o[1] = x /\ Len(s) \in Nat
  OBVIOUS
<1> HIDE DEF o
<1>2. /\ t \in Seq(Functors) /\ Len(t) = Len(o) + Len(s)
      /\ \A i \in 1 .. Len(o) + Len(s) : t[i] = IF i <= Len(o) THEN o[i] ELSE s[i - Len(o)]
  BY <1>1, ConcatProperties
<1> HIDE DEF t
<1>3. Len(t) = 1 + Len(s) /\ \A i \in 1 .. 1 + Len(s) : t[i] = IF i <= 1 THEN o[i] ELSE s[i - 1]
  BY <1>1, <1>2
<1>4. t # <<>> /\ t[1] = x
  BY <1>1, <1>3, EmptySeq
<1>5. /\ Tail(t) \in Seq(Functors) /\ Len(Tail(t)) = Len(s)
      /\ \A i \in 1 .. Len(Tail(t)) : Tail(t)[i] = t[i + 1]
  <2>1. Len(t) - 1 = Len(s)
    BY <1>1, <1>3
  <2> QED BY <1>2, <1>4, <2>1, HeadTailProperties
<1>6. ASSUME NEW i \in 1 .. Len(s) PROVE Tail(t)[i] = s[i]
  <2>1. i + 1 \in 1 .. 1 + Len(s) /\ ~(i + 1 <= 1) /\ (i + 1) - 1 = i
    BY <1>1
  <2> QED BY <1>3, <1>5, <2>1
<1>7. Tail(t) = s
  BY <1>5, <1>6, SeqEqual
<1> QED BY <1>4, <1>7 DEF o, t

\* A functor that runs is the first of those left.
LEMMA TodoRun ==
  ASSUME NEW r \in LoopType, r.done < Len(r.functors), NEW m \in LoopType,
         m.functors = r.functors, m.done = r.done + 1, m.pending = r.pending
  PROVE  Todo(r) # <<>> /\ Todo(r)[1] = r.functors[r.done + 1] /\ Todo(m) = Tail(Todo(r))
<1> DEFINE g == r.functors
           n == r.done + 1
           p == r.pending
           h == SubSeq(g, n + 1, Len(g))
           x == g[n]
<1>1. g \in Seq(Functors) /\ n \in 1 .. Len(g) /\ Len(g) \in n .. Len(g) /\ p \in Seq(Functors)
  BY DEF LoopType
<1>2. Todo(r) = SubSeq(g, n, Len(g)) \o p /\ Todo(m) = h \o p
  BY DEF Todo
<1> HIDE DEF g, n, p
<1>3. SubSeq(g, n, Len(g)) = <<x>> \o h
  BY <1>1, SubSeqRecursiveFirst
<1>4. x \in Functors /\ <<x>> \in Seq(Functors) /\ h \in Seq(Functors)
  <2>1. x \in Functors
    BY <1>1
  <2>2. n + 1 \in Int /\ Len(g) \in Int /\ \A i \in n + 1 .. Len(g) : g[i] \in Functors
    BY <1>1
  <2>3. h \in Seq(Functors)
    BY <2>2, SubSeqProperties
  <2> QED BY <2>1, <2>3
<1> HIDE DEF h, x
<1>5. (<<x>> \o h) \o p = <<x>> \o (h \o p) /\ h \o p \in Seq(Functors)
  BY <1>1, <1>4, ConcatAssociative, ConcatProperties
<1> DEFINE hp == h \o p
<1>6. Todo(r) = <<x>> \o hp /\ Todo(m) = hp /\ hp \in Seq(Functors)
  BY <1>2, <1>3, <1>5
<1> HIDE DEF hp
<1> QED BY <1>4, <1>6, PutInFront DEF x, g, n

-----------------------------------------------------------------------------
(* OldServer: what a step leaves as it was.                                *)

\* The step is one of connection c, which becomes k.
Becomes(c, k) == conn' = [conn EXCEPT ![c] = k]

\* Types, and what is known of each connection, after a step of one of them.
LEMMA BecomesType ==
  ASSUME OldInv, NEW c \in Conns, NEW k \in ConnType, ConnInv(k), Becomes(c, k)
  PROVE  /\ conn' \in [Conns -> ConnType] /\ \A d \in Conns : ConnInv(conn'[d])
         /\ conn'[c] = k /\ \A d \in Conns \ {c} : conn'[d] = conn[d]
BY DEF OldInv, OldTypeOK, Becomes

\* Numbers of connections, channels and loops.
LEMMA ConnsAre ==
  /\ \A c \in Conns : c \in Nat /\ c >= 1 /\ c <= MaxClients /\ c # NoConn /\ c # Acceptor /\ c # Wakeup
  /\ Main \in Loops /\ \A l \in Loops : l \in Nat
  /\ \A c \in 0 .. MaxClients : c # NoConn => c \in Conns
BY Sizes DEF Conns, NoConn, Acceptor, Wakeup, Main, Loops

\* What a poller may have under a descriptor.
LEMMA LinksAre == NoConn \in 0 .. MaxClients /\ \A c \in Conns : c \in 0 .. MaxClients
BY Sizes DEF Conns, NoConn

\* queueInLoop.
LEMMA QueueInLoopStep ==
  ASSUME NEW loops \in [Loops -> LoopType], NEW thread \in Loops, NEW l \in Loops, NEW e \in Functors,
         \A r \in Loops : loops[r].done <= Len(loops[r].functors)
  PROVE  LET m == QueueInLoop(loops, thread, l, e)
         IN  /\ m \in [Loops -> LoopType]
             /\ \A r \in Loops : /\ m[r].pc = loops[r].pc /\ m[r].active = loops[r].active
                                 /\ m[r].functors = loops[r].functors /\ m[r].done = loops[r].done
             /\ \A r \in Loops \ {l} : m[r] = loops[r]
             /\ Todo(m[l]) = Append(Todo(loops[l]), e)
<1> DEFINE m == QueueInLoop(loops, thread, l, e)
           w == loops[l].woken \/ thread # l \/ loops[l].pc = "functors"
           p == Append(loops[l].pending, e)
           n == [loops[l] EXCEPT !.pending = p, !.woken = w]
<1>1. m = [loops EXCEPT ![l] = n]
  BY DEF QueueInLoop
<1>2. p \in Seq(Functors)
  BY DEF LoopType
<1>3. w \in BOOLEAN
  BY DEF LoopType
<1> HIDE DEF w, p, m
<1>4. loops[l] \in LoopType
  OBVIOUS
<1>5. n \in LoopType /\ n.pc = loops[l].pc /\ n.active = loops[l].active
      /\ n.functors = loops[l].functors /\ n.done = loops[l].done /\ n.pending = p
  BY <1>2, <1>3, <1>4 DEF LoopType
<1> HIDE DEF n
<1>6. /\ m \in [Loops -> LoopType] /\ m[l] = n /\ \A r \in Loops \ {l} : m[r] = loops[r]
  BY <1>1, <1>5
<1>7. Todo(n) = Append(Todo(loops[l]), e)
  BY <1>4, <1>5, TodoQueued DEF p
<1>8. \A r \in Loops : /\ m[r].pc = loops[r].pc /\ m[r].active = loops[r].active
                       /\ m[r].functors = loops[r].functors /\ m[r].done = loops[r].done
  BY <1>5, <1>6
<1> QED BY <1>6, <1>7, <1>8 DEF m

\* The functors of the other connections stay what they are.
LEMMA QueueStep ==
  ASSUME OldInv, NEW c \in Conns,
         \A d \in Conns \ {c} : conn'[d] = conn[d] /\ (d \in map' <=> d \in map),
         \A l \in Loops :
           /\ SameBut(Todo(loop[l]), Todo(loop'[l]), c) /\ Unique(Todo(loop'[l]))
           /\ \A e \in Functors :
                Has(Todo(loop'[l]), e) /\ e.conn = c => FunctorInv(l, e)'
  PROVE  QueueInv' /\ \A d \in Conns \ {c} : Kept(d)'
<1>1. ASSUME NEW l \in Loops, NEW e \in Functors, Has(Todo(loop'[l]), e)
      PROVE  FunctorInv(l, e)'
  <2>1. CASE e.conn = c
    BY <1>1, <2>1
  <2>2. CASE e.conn # c
    <3>1. Has(Todo(loop[l]), e)
      BY <1>1, <2>2 DEF SameBut, Has
    <3>2. FunctorInv(l, e)
      BY <3>1 DEF OldInv, QueueInv
    <3>3. e.conn \in Conns \ {c}
      BY <2>2 DEF Functors
    <3> QED BY <3>2, <3>3 DEF FunctorInv
  <2> QED BY <2>1, <2>2
<1>2. QueueInv'
  BY <1>1 DEF QueueInv
<1>3. ASSUME NEW d \in Conns \ {c} PROVE Kept(d)'
  <2>1. Kept(d) /\ conn'[d] = conn[d] /\ (d \in map' <=> d \in map)
    BY DEF OldInv, HolderInv
  <2>2. ASSUME NEW l \in Loops, NEW i \in DOMAIN Todo(loop[l]), Todo(loop[l])[i].conn = d
        PROVE  \E j \in DOMAIN Todo(loop'[l]) : Todo(loop'[l])[j].conn = d
    BY <2>2 DEF SameBut
  <2> QED BY <2>1, <2>2 DEF Kept
<1> QED BY <1>2, <1>3

\* All the functors stay, and those of their connections that have them.
LEMMA QueueSame ==
  ASSUME OldInv, map' = map, \A l \in Loops : Todo(loop'[l]) = Todo(loop[l]),
         \A d \in Conns :
           \/ conn'[d].life = conn[d].life /\ conn'[d].loop = conn[d].loop
           \/ /\ conn[d].life \notin {"posted", "up", "closed"}
              /\ conn'[d].life \notin {"posted", "up", "closed"}
  PROVE  QueueInv' /\ HolderInv'
<1>1. ASSUME NEW l \in Loops, NEW e \in Functors, Has(Todo(loop'[l]), e)
      PROVE  FunctorInv(l, e)'
  <2>1. FunctorInv(l, e) /\ e.conn \in Conns
    BY <1>1 DEF OldInv, QueueInv, Functors
  <2>2. e.op \in {"established", "remove", "destroyed"}
    BY DEF Functors
  <2> QED BY <2>1, <2>2 DEF FunctorInv
<1>2. ASSUME NEW d \in Conns PROVE Kept(d)'
  BY DEF OldInv, HolderInv, Kept
<1> QED BY <1>1, <1>2 DEF OldInv, QueueInv, HolderInv

\* Nothing of the connections' place in the program changes.
LEMMA PlaceSame ==
  ASSUME OldInv, channels' = channels,
         \A d \in Conns :
           /\ conn'[d].fd = conn[d].fd /\ conn'[d].loop = conn[d].loop
           /\ conn'[d].life \in {"posted", "up", "closed", "down"}
                <=> conn[d].life \in {"posted", "up", "closed", "down"}
           /\ conn'[d].life \in {"up", "closed"} <=> conn[d].life \in {"up", "closed"}
  PROVE  FdInv' /\ ChannelInv'
<1>2. Existing' = Existing /\ Existing \subseteq Conns
  BY DEF Existing
<1>3. FdInv'
  BY <1>2 DEF OldInv, FdInv
<1>4. ASSUME NEW l \in Loops, NEW f \in Fds, channels[l][f] # NoConn
      PROVE  channels[l][f] \in Conns
  BY <1>4, ConnsAre DEF OldInv, OldTypeOK
<1>5. ChannelInv'
  BY <1>4 DEF OldInv, ChannelInv
<1> QED BY <1>3, <1>5

\* No client comes, and none leaves the queue.
LEMMA AcceptSame ==
  ASSUME OldInv, UNCHANGED <<threadNum, next, backlog>>,
         \A d \in Conns : /\ conn'[d].life = "none" <=> conn[d].life = "none"
                          /\ conn[d].life = "queued" => conn'[d].life = "queued"
  PROVE  AcceptInv'
<1>1. \A i \in DOMAIN backlog : backlog[i] \in Conns
  BY DEF OldInv, OldTypeOK
<1> QED BY <1>1 DEF OldInv, AcceptInv

\* A loop has at most as many channels to handle as before.
LEMMA ActiveStep ==
  ASSUME OldInv, \A l \in Loops : loop'[l].active \subseteq loop[l].active,
         \A l \in Loops : \A a \in loop'[l].active :
           /\ a.channel = Acceptor => backlog' # <<>>
           /\ a.channel \in Conns => /\ conn'[a.channel].life = conn[a.channel].life
                                     /\ conn'[a.channel].loop = conn[a.channel].loop
  PROVE  ActiveInv'
<1>1. ASSUME NEW l \in Loops, NEW a \in loop'[l].active
      PROVE  /\ a.channel = Acceptor => l = Main
             /\ a.channel \in Conns => conn'[a.channel].life = "up" /\ conn'[a.channel].loop = l
             /\ \A b \in loop'[l].active : a.channel = b.channel => a = b
  BY DEF OldInv, ActiveInv
<1> QED BY <1>1 DEF ActiveInv

\* A step that changes no loop.
LEMMA LoopsSame ==
  ASSUME OldInv, loop' = loop
  PROVE  LoopInv'
BY DEF OldInv, LoopInv

-----------------------------------------------------------------------------
(* OldServer: the clients' steps.                                          *)

\* What a client does to its connection leaves the server's part as it is.
LEMMA ClientPreserves ==
  ASSUME OldInv, NEW c \in Conns, NEW k \in ConnType, ConnInv(k), Client(c, k),
         k.life = conn[c].life, k.fd = conn[c].fd, k.loop = conn[c].loop
  PROVE  OldInv'
<1>1. Becomes(c, k) /\ UNCHANGED <<threadNum, limit, next, loop, channels, map, backlog>>
  BY DEF Client, Becomes
<1>2. /\ conn' \in [Conns -> ConnType] /\ \A d \in Conns : ConnInv(conn'[d])
      /\ conn'[c] = k /\ \A d \in Conns \ {c} : conn'[d] = conn[d]
  BY <1>1, BecomesType
<1>3. \A d \in Conns : conn'[d].life = conn[d].life /\ conn'[d].fd = conn[d].fd
                       /\ conn'[d].loop = conn[d].loop
  BY <1>2
<1>4. OldTypeOK'
  BY <1>1, <1>2 DEF OldInv, OldTypeOK
<1>5. AcceptInv'
  BY <1>1, <1>3, AcceptSame
<1>6. QueueInv' /\ HolderInv'
  BY <1>1, <1>3, QueueSame
<1>8. FdInv' /\ ChannelInv'
  BY <1>1, <1>3, PlaceSame
<1>9. ActiveInv'
  BY <1>1, <1>3 DEF OldInv, ActiveInv
<1>10. LoopInv'
  BY <1>1, LoopsSame
<1> QED BY <1>2, <1>4, <1>5, <1>6, <1>8, <1>9, <1>10 DEF OldInv

\* A request comes.
LEMMA ClientSendsPreserves ==
  ASSUME OldInv, NEW c \in Conns, ClientSends(c)
  PROVE  OldInv'
<1> DEFINE k == conn[c]
           m == [k EXCEPT !.requests = @ + 1, !.inbox = @ + 1]
<1>1. k \in ConnType /\ ConnInv(k) /\ Client(c, m)
  BY DEF OldInv, OldTypeOK, ClientSends
<1> HIDE DEF k
<1>2. m \in ConnType
  <2>1. k.requests \in Nat /\ k.inbox \in Nat
    BY <1>1 DEF ConnType
  <2>2. k.requests + 1 \in Nat /\ k.inbox + 1 \in Nat
    BY <2>1
  <2> DEFINE r == k.requests + 1
             i == k.inbox + 1
  <2> HIDE DEF r, i
  <2>3. [k EXCEPT !.requests = r, !.inbox = i] \in ConnType
    BY <1>1, <2>2 DEF ConnType, r, i
  <2> QED BY <2>3 DEF r, i
<1>3. /\ m.life = k.life /\ m.fd = k.fd /\ m.loop = k.loop /\ m.connected = k.connected
      /\ m.output = k.output /\ m.events = k.events /\ m.state = k.state /\ m.sock = k.sock
      /\ m.shut = k.shut /\ m.got = k.got /\ m.answers = k.answers
  BY <1>1 DEF ConnType
<1> HIDE DEF m
<1>4. ConnInv(m)
  <2>1. Stream(m) = Stream(k)
    BY <1>3 DEF Stream
  <2> QED BY <1>1, <1>2, <1>3, <2>1, ClientStep DEF ConnInv
<1> QED BY <1>1, <1>2, <1>3, <1>4, ClientPreserves DEF k

\* The client reads a unit.
LEMMA ClientReadsPreserves ==
  ASSUME OldInv, NEW c \in Conns, ClientReads(c)
  PROVE  OldInv'
<1> DEFINE k == conn[c]
           g == Append(k.got, Head(k.sock))
           t == Tail(k.sock)
           m == [k EXCEPT !.got = g, !.sock = t]
<1>1. k \in ConnType /\ ConnInv(k) /\ Client(c, m) /\ k.sock # <<>>
  BY DEF OldInv, OldTypeOK, ClientReads
<1> HIDE DEF k
<1>2. k.got \in Seq(Units) /\ k.sock \in Seq(Units) /\ k.output \in Seq(Units)
  BY <1>1 DEF ConnType
<1>3. g \in Seq(Units) /\ t \in Seq(Units) /\ Len(t) = Len(k.sock) - 1
      /\ g \o t \o k.output = k.got \o k.sock \o k.output
  <2> DEFINE a == k.got
             s == k.sock
             o == k.output
  <2>1. a \in Seq(Units) /\ s \in Seq(Units) /\ s # <<>> /\ o \in Seq(Units)
    BY <1>1, <1>2
  <2> HIDE DEF a, s, o
  <2>2. /\ Append(a, Head(s)) \in Seq(Units) /\ Tail(s) \in Seq(Units) /\ Len(Tail(s)) = Len(s) - 1
        /\ Append(a, Head(s)) \o Tail(s) \o o = a \o s \o o
    BY <2>1, StreamRead, SMTT(30)
  <2> QED BY <2>2 DEF a, s, o
<1> HIDE DEF g, t
<1>4. m \in ConnType
  BY <1>1, <1>3 DEF ConnType
<1>5. /\ m.life = k.life /\ m.fd = k.fd /\ m.loop = k.loop /\ m.connected = k.connected
      /\ m.output = k.output /\ m.events = k.events /\ m.state = k.state /\ m.sock = t
      /\ m.shut = k.shut /\ m.got = g /\ m.answers = k.answers
  BY <1>1 DEF ConnType
<1> HIDE DEF m
<1>6. ConnInv(m)
  <2>1. Stream(m) = Stream(k)
    BY <1>3, <1>5 DEF Stream
  <2>2. Len(m.sock) <= SockSize
    BY <1>1, <1>2, <1>3, <1>5, Sizes DEF ConnInv
  <2>3. m.life \in {"up", "closed", "down"}
    BY <1>1, <1>5 DEF ConnInv
  <2> QED BY <1>1, <1>4, <1>5, <2>1, <2>2, <2>3, ClientStep
<1> QED BY <1>1, <1>4, <1>5, <1>6, ClientPreserves DEF k, m, g, t

\* The client closes, or resets.
LEMMA ClientEndsPreserves ==
  ASSUME OldInv, NEW c \in Conns, ClientCloses(c) \/ ClientResets(c)
  PROVE  OldInv'
<1> DEFINE k == conn[c]
<1>1. k \in ConnType /\ ConnInv(k)
  BY DEF OldInv, OldTypeOK
<1>2. PICK p \in {"closed", "reset"}, e \in BOOLEAN : Client(c, [k EXCEPT !.peer = p, !.error = e])
  <2>1. CASE ClientCloses(c)
    <3>1. [k EXCEPT !.peer = "closed"] = [k EXCEPT !.peer = "closed", !.error = k.error]
      BY <1>1 DEF ConnType
    <3>2. k.error \in BOOLEAN /\ Client(c, [k EXCEPT !.peer = "closed"])
      BY <1>1, <2>1 DEF ConnType, ClientCloses
    <3> HIDE DEF k
    <3>3. Client(c, [k EXCEPT !.peer = "closed", !.error = k.error])
      BY <3>1, <3>2
    <3> QED BY <3>2, <3>3, Zenon
  <2>2. CASE ClientResets(c)
    BY <2>2, Zenon DEF ClientResets
  <2> QED BY <2>1, <2>2, Zenon
<1> DEFINE m == [k EXCEPT !.peer = p, !.error = e]
<1> HIDE DEF k
<1>3. m \in ConnType
  BY <1>1 DEF ConnType
<1>4. /\ m.life = k.life /\ m.fd = k.fd /\ m.loop = k.loop /\ m.connected = k.connected
      /\ m.output = k.output /\ m.events = k.events /\ m.state = k.state /\ m.sock = k.sock
      /\ m.shut = k.shut /\ m.got = k.got /\ m.answers = k.answers
  BY <1>1 DEF ConnType
<1> HIDE DEF m
<1>5. ConnInv(m)
  <2>1. Stream(m) = Stream(k)
    BY <1>4 DEF Stream
  <2> QED BY <1>1, <1>3, <1>4, <2>1, ClientStep DEF ConnInv
<1> QED BY <1>2, <1>3, <1>4, <1>5, ClientPreserves DEF k, m

\* The clients that have come are 1 .. Arrived.
LEMMA ArrivedIs ==
  ASSUME OldInv
  PROVE  /\ Arrived \in 0 .. MaxClients
         /\ \A c \in Conns : conn[c].life # "none" <=> c <= Arrived
<1>1. PICK n \in 0 .. MaxClients : \A c \in Conns : conn[c].life # "none" <=> c <= n
  BY DEF OldInv, AcceptInv
<1>2. n \in Nat /\ n <= MaxClients /\ MaxClients \in Nat
  BY Sizes
<1>3. {c \in Conns : conn[c].life # "none"} = 1 .. n
  BY <1>1, <1>2 DEF Conns
<1>4. Cardinality(1 .. n) = n
  BY <1>2, FS_Interval
<1> QED BY <1>1, <1>3, <1>4 DEF Arrived

\* A client comes, and goes into the queue.
LEMMA ClientConnectsPreserves ==
  ASSUME OldInv, ClientConnects
  PROVE  OldInv'
<1> DEFINE c == Arrived + 1
           k == [conn[c] EXCEPT !.life = "queued"]
<1>1. /\ Arrived < MaxClients /\ Becomes(c, k) /\ backlog' = Append(backlog, c)
      /\ UNCHANGED <<threadNum, limit, next, loop, channels, map>>
  BY DEF ClientConnects, Becomes
<1>2. c \in Conns /\ conn[c].life = "none" /\ Arrived \in Nat
  <2>1. Arrived \in Nat /\ Arrived + 1 \in Conns /\ ~(Arrived + 1 <= Arrived)
    BY <1>1, ArrivedIs, Sizes DEF Conns
  <2> QED BY <2>1, ArrivedIs
<1> DEFINE n == Arrived
<1>3. \A d \in Conns : conn[d].life # "none" <=> d <= n
  BY ArrivedIs
<1>4. n + 1 \in 0 .. MaxClients /\ c = n + 1 /\ n \in Nat
  BY <1>1, <1>2, Sizes
<1> HIDE DEF c, n
<1>5. conn[c] \in ConnType /\ ConnInv(conn[c])
  BY <1>2 DEF OldInv, OldTypeOK
<1>6. k \in ConnType /\ k.life = "queued" /\ ConnInv(k)
  <2>1. k \in ConnType
    BY <1>5 DEF ConnType
  <2>2. /\ k.life = "queued" /\ k.connected = conn[c].connected
        /\ k.output = conn[c].output /\ k.events = conn[c].events /\ k.state = conn[c].state
        /\ k.sock = conn[c].sock /\ k.shut = conn[c].shut /\ k.got = conn[c].got
        /\ k.answers = conn[c].answers
    BY <1>5 DEF ConnType
  <2> HIDE DEF k
  <2>3. Stream(k) = Stream(conn[c]) /\ IsWriting(k) = IsWriting(conn[c])
    BY <2>2 DEF Stream, IsWriting
  <2> QED BY <1>2, <1>5, <2>1, <2>2, <2>3 DEF ConnInv
<1> HIDE DEF k
<1>7. /\ conn' \in [Conns -> ConnType] /\ \A d \in Conns : ConnInv(conn'[d])
      /\ conn'[c] = k /\ \A d \in Conns \ {c} : conn'[d] = conn[d]
  BY <1>1, <1>2, <1>6, BecomesType
<1>8. \A i \in DOMAIN backlog : backlog[i] \in Conns /\ conn[backlog[i]].life = "queued"
                                /\ backlog[i] # c
  BY <1>2 DEF OldInv, OldTypeOK, AcceptInv
<1>9. /\ backlog' \in Seq(Conns) /\ Len(backlog') = Len(backlog) + 1
      /\ \A i \in 1 .. Len(backlog) : backlog'[i] = backlog[i]
      /\ backlog'[Len(backlog) + 1] = c
  BY <1>1, <1>2, AppendProperties DEF OldInv, OldTypeOK
<1>10. OldTypeOK'
  BY <1>1, <1>7, <1>9 DEF OldInv, OldTypeOK
<1>11. AcceptInv'
  <2>1. \A d \in Conns : conn'[d].life # "none" <=> d <= n + 1
    <3> TAKE d \in Conns
    <3>1. CASE d = c
      BY <1>4, <1>6, <1>7, <3>1
    <3>2. CASE d # c
      BY <1>3, <1>4, <1>7, <3>2, ConnsAre
    <3> QED BY <3>1, <3>2
  <2>2. DOMAIN backlog' = 1 .. Len(backlog) + 1 /\ DOMAIN backlog = 1 .. Len(backlog)
        /\ Len(backlog) \in Nat
    BY <1>9 DEF OldInv, OldTypeOK
  <2>3. \A i \in DOMAIN backlog' : i \in DOMAIN backlog \/ i = Len(backlog) + 1
    BY <2>2
  <2>4. \A i \in DOMAIN backlog' : conn'[backlog'[i]].life = "queued"
    BY <1>6, <1>7, <1>8, <1>9, <2>2, <2>3
  <2>5. \A i, j \in DOMAIN backlog : backlog[i] = backlog[j] => i = j
    BY DEF OldInv, AcceptInv
  <2>6. \A i, j \in DOMAIN backlog' : backlog'[i] = backlog'[j] => i = j
    BY <1>8, <1>9, <2>2, <2>3, <2>5
  <2>7. next' < threadNum' \/ next' = 0
    BY <1>1 DEF OldInv, AcceptInv
  <2> QED BY <1>4, <2>1, <2>4, <2>6, <2>7 DEF AcceptInv
<1>12. \A d \in Conns :
         \/ conn'[d] = conn[d]
         \/ d = c /\ conn[d].life = "none" /\ conn'[d].life = "queued"
            /\ conn'[d].fd = conn[d].fd /\ conn'[d].loop = conn[d].loop
  <2>1. k.fd = conn[c].fd /\ k.loop = conn[c].loop
    BY <1>5 DEF k, ConnType
  <2> QED BY <1>2, <1>6, <1>7, <2>1
<1>13. QueueInv' /\ HolderInv'
  BY <1>1, <1>12, QueueSame
<1>14. FdInv' /\ ChannelInv'
  BY <1>1, <1>12, PlaceSame
<1>15. ActiveInv'
  <2>1. backlog' # <<>>
    BY <1>9 DEF OldInv, OldTypeOK
  <2> QED BY <1>1, <1>12, <2>1, ActiveStep DEF OldInv, ActiveInv
<1>16. LoopInv'
  BY <1>1, LoopsSame
<1> QED BY <1>7, <1>10, <1>11, <1>13, <1>14, <1>15, <1>16 DEF OldInv

-----------------------------------------------------------------------------
(* OldServer: the loops' steps that are not a connection's.                *)

\* The loops that run are among the loops.
LEMMA RunningLoops ==
  ASSUME OldInv
  PROVE  0 .. threadNum \subseteq Loops
BY Sizes DEF OldInv, OldTypeOK, Loops

\* epoll_wait reports nothing of a connection that is not watched.
LEMMA ReadyIsUp ==
  ASSUME OldInv, NEW c \in Existing, Revents(conn[c]) # {}
  PROVE  c \in Conns /\ conn[c].life = "up"
<1>1. c \in Conns /\ ConnInv(conn[c]) /\ conn[c].life \in {"posted", "up", "closed", "down"}
  BY DEF OldInv, Existing
<1>2. conn[c].state = "added"
  BY DEF Revents, Watched
<1> QED BY <1>1, <1>2 DEF ConnInv

\* poll: the channels that are reported are of connections that are up.
LEMMA PollPreserves ==
  ASSUME OldInv, NEW l \in Loops, Poll(l)
  PROVE  OldInv'
<1> DEFINE r == [loop[l] EXCEPT !.pc = "events", !.active = Ready(l)]
<1>1. /\ loop[l].pc = "poll" /\ loop' = [loop EXCEPT ![l] = r]
      /\ UNCHANGED <<threadNum, limit, next, channels, conn, map, backlog>>
  BY DEF Poll
<1>2. loop[l] \in LoopType
  BY DEF OldInv, OldTypeOK
<1>3. Ready(l) \in SUBSET Actives
  <2>1. ASSUME NEW c \in Conns
        PROVE  [channel |-> c, revents |-> Revents(conn[c])] \in Actives
    <3>1. Revents(conn[c]) \in SUBSET {"in", "out", "hup", "err"}
      BY DEF Revents
    <3>2. c \in 0 .. MaxClients + 1
      BY Sizes DEF Conns
    <3> QED BY <3>1, <3>2 DEF Actives
  <2>2. /\ [channel |-> Acceptor, revents |-> {"in"}] \in Actives
        /\ [channel |-> Wakeup, revents |-> {"in"}] \in Actives
    <3>1. Acceptor \in 0 .. MaxClients + 1 /\ Wakeup \in 0 .. MaxClients + 1
      BY Sizes DEF Acceptor, Wakeup
    <3> QED BY <3>1 DEF Actives
  <2>3. Existing \subseteq Conns
    BY DEF Existing
  <2> QED BY <2>1, <2>2, <2>3 DEF Ready
<1>4. /\ r \in LoopType /\ r.active = Ready(l) /\ r.pc = "events" /\ r.functors = loop[l].functors
      /\ r.done = loop[l].done /\ r.pending = loop[l].pending
  <2> DEFINE a == Ready(l)
  <2> HIDE DEF a
  <2>1. a \in SUBSET Actives
    BY <1>3 DEF a
  <2>2. [loop[l] EXCEPT !.pc = "events", !.active = a] = r
    BY DEF a
  <2> HIDE DEF r
  <2> QED BY <1>2, <2>1, <2>2 DEF LoopType, a
<1> HIDE DEF r
<1>5. /\ loop' \in [Loops -> LoopType] /\ loop'[l] = r /\ \A m \in Loops \ {l} : loop'[m] = loop[m]
  BY <1>1, <1>4 DEF OldInv, OldTypeOK
<1>6. OldTypeOK'
  BY <1>1, <1>5 DEF OldInv, OldTypeOK
<1>7. AcceptInv' /\ FdInv' /\ ChannelInv' /\ \A c \in Conns : ConnInv(conn'[c])
  BY <1>1, AcceptSame, PlaceSame DEF OldInv
<1>8. QueueInv' /\ HolderInv'
  <2>1. \A m \in Loops : Todo(loop'[m]) = Todo(loop[m])
    BY <1>4, <1>5 DEF Todo
  <2> QED BY <1>1, <2>1, QueueSame
<1>9. LoopInv'
  BY <1>1, <1>4, <1>5 DEF OldInv, LoopInv
<1>10. ActiveInv'
  <2>1. \A a \in Ready(l) :
          \/ /\ a.channel \in Existing /\ conn[a.channel].loop = l
             /\ Revents(conn[a.channel]) # {} /\ a.revents = Revents(conn[a.channel])
             /\ a = [channel |-> a.channel, revents |-> Revents(conn[a.channel])]
          \/ /\ l = Main /\ backlog # <<>>
             /\ a = [channel |-> Acceptor, revents |-> {"in"}] /\ a.channel = Acceptor
          \/ a = [channel |-> Wakeup, revents |-> {"in"}] /\ a.channel = Wakeup
    BY DEF Ready
  <2>2. /\ \A c \in Existing : c \in Conns /\ c # Acceptor /\ c # Wakeup
        /\ Acceptor # Wakeup /\ Acceptor \notin Conns /\ Wakeup \notin Conns
    BY Sizes DEF Existing, Conns, Acceptor, Wakeup
  <2>3. ASSUME NEW a \in Ready(l)
        PROVE  /\ a.channel = Acceptor => l = Main /\ backlog # <<>>
               /\ a.channel \in Conns => conn[a.channel].life = "up" /\ conn[a.channel].loop = l
    BY <2>1, <2>2, ReadyIsUp
  <2>4. ASSUME NEW a \in Ready(l), NEW b \in Ready(l), a.channel = b.channel
        PROVE  a = b
    BY <2>1, <2>2, <2>4
  <2>5. \A m \in Loops : loop'[m].active = IF m = l THEN Ready(l) ELSE loop[m].active
    BY <1>4, <1>5
  <2> HIDE DEF Ready
  <2> QED BY <1>1, <2>3, <2>4, <2>5 DEF OldInv, ActiveInv
<1> QED BY <1>6, <1>7, <1>8, <1>9, <1>10 DEF OldInv

\* doPendingFunctors swaps the functors out.
LEMMA SwapFunctorsPreserves ==
  ASSUME OldInv, NEW l \in Loops, SwapFunctors(l)
  PROVE  OldInv'
<1> DEFINE pc == IF loop[l].pending = <<>> THEN "poll" ELSE "functors"
           r == [loop[l] EXCEPT !.pc = pc, !.functors = loop[l].pending, !.pending = <<>>]
<1>1. /\ loop[l].pc = "events" /\ loop[l].active = {} /\ loop' = [loop EXCEPT ![l] = r]
      /\ UNCHANGED <<threadNum, limit, next, channels, conn, map, backlog>>
  BY DEF SwapFunctors
<1>2. loop[l] \in LoopType /\ loop[l].functors = <<>> /\ loop[l].done = 0
  BY <1>1 DEF OldInv, OldTypeOK, LoopInv
<1>3. pc \in {"poll", "functors"} /\ (pc = "poll" => loop[l].pending = <<>>)
  OBVIOUS
<1> HIDE DEF pc
<1>4. /\ r \in LoopType /\ r.active = {} /\ r.pc = pc /\ r.functors = loop[l].pending
      /\ r.done = 0 /\ r.pending = <<>>
  BY <1>1, <1>2, <1>3 DEF LoopType
<1> HIDE DEF r
<1>5. /\ loop' \in [Loops -> LoopType] /\ loop'[l] = r /\ \A m \in Loops \ {l} : loop'[m] = loop[m]
  BY <1>1, <1>4 DEF OldInv, OldTypeOK
<1>6. OldTypeOK'
  BY <1>1, <1>5 DEF OldInv, OldTypeOK
<1>7. AcceptInv' /\ FdInv' /\ ChannelInv' /\ \A c \in Conns : ConnInv(conn'[c])
  BY <1>1, AcceptSame, PlaceSame DEF OldInv
<1>8. QueueInv' /\ HolderInv'
  <2>1. Todo(r) = Todo(loop[l])
    BY <1>2, <1>4, TodoMoved
  <2>2. \A m \in Loops : Todo(loop'[m]) = Todo(loop[m])
    BY <1>5, <2>1
  <2> QED BY <1>1, <2>2, QueueSame
<1>9. LoopInv'
  <2>1. r.done <= Len(r.functors)
    BY <1>2, <1>4 DEF LoopType
  <2> QED BY <1>3, <1>4, <1>5, <2>1 DEF OldInv, LoopInv
<1>10. ActiveInv'
  <2>1. \A m \in Loops : loop'[m].active \subseteq loop[m].active
    BY <1>4, <1>5
  <2> QED BY <1>1, <2>1, ActiveStep DEF OldInv, ActiveInv
<1> QED BY <1>6, <1>7, <1>8, <1>9, <1>10 DEF OldInv

\* Only what is down is freed: the others are held, by the map or by a functor.
LEMMA EndFunctorsPreserves ==
  ASSUME OldInv, NEW l \in Loops, EndFunctors(l)
  PROVE  OldInv'
<1> DEFINE r == [loop[l] EXCEPT !.pc = "poll", !.functors = <<>>, !.done = 0]
<1>1. /\ loop[l].pc = "functors" /\ loop[l].done = Len(loop[l].functors)
      /\ loop' = [loop EXCEPT ![l] = r]
      /\ conn' = [c \in Conns |-> IF c \in Existing /\ ~Held(loop', c) THEN Freed(conn[c]) ELSE conn[c]]
      /\ UNCHANGED <<threadNum, limit, next, channels, map, backlog>>
  BY DEF EndFunctors
<1>2. loop[l] \in LoopType /\ loop[l].active = {}
  BY <1>1 DEF OldInv, OldTypeOK, LoopInv
<1>3. /\ r \in LoopType /\ r.active = {} /\ r.pc = "poll" /\ r.functors = <<>>
      /\ r.done = 0 /\ r.pending = loop[l].pending
  <2>1. <<>> \in Seq(Functors) /\ 0 \in Nat
    OBVIOUS
  <2>2. r \in LoopType
    BY <1>2, <2>1 DEF LoopType
  <2> QED BY <1>2, <2>2 DEF LoopType
<1> HIDE DEF r
<1>4. /\ loop' \in [Loops -> LoopType] /\ loop'[l] = r /\ \A m \in Loops \ {l} : loop'[m] = loop[m]
  BY <1>1, <1>3 DEF OldInv, OldTypeOK
<1>5. \A m \in Loops : Todo(loop'[m]) = Todo(loop[m])
  <2>1. Todo(r) = Todo(loop[l])
    BY <1>1, <1>2, <1>3, TodoMoved
  <2> QED BY <1>4, <2>1
<1>6. LoopInv'
  <2>1. Len(<<>>) = 0
    OBVIOUS
  <2> QED BY <1>3, <1>4, <2>1 DEF OldInv, LoopInv
<1>7. \A c \in Conns : c \in Existing /\ ~Held(loop', c) => conn[c].life = "down"
  <2> SUFFICES ASSUME NEW c \in Conns, c \in Existing, ~Held(loop', c), conn[c].life # "down"
               PROVE  FALSE
    OBVIOUS
  <2>1. c \notin map /\ Kept(c) /\ conn[c].life \in {"posted", "up", "closed"}
    BY DEF Held, OldInv, HolderInv, Existing
  <2>2. PICK m \in Loops : \E i \in DOMAIN Todo(loop[m]) : Todo(loop[m])[i].conn = c
    BY <2>1 DEF Kept
  <2>3. PICK i \in DOMAIN Todo(loop'[m]) : Todo(loop'[m])[i].conn = c
    BY <1>5, <2>2
  <2> DEFINE q == loop'[m]
             g == q.functors
             n == q.done
             p == q.pending
             f == SubSeq(g, n + 1, Len(g))
             fp == f \o p
  <2>4. g \in Seq(Functors) /\ n \in Nat /\ n <= Len(g) /\ p \in Seq(Functors)
    BY <1>4, <1>6 DEF LoopInv, LoopType
  <2>5. i \in DOMAIN fp /\ fp[i].conn = c
    BY <2>3 DEF Todo
  <2>6. ~(\E j \in DOMAIN p : p[j].conn = c) /\ ~(\E j \in DOMAIN g : g[j].conn = c)
    BY DEF Held
  <2> HIDE DEF q, g, n, p
  <2>7. /\ f \in Seq(Functors) /\ Len(f) = Len(g) - n
        /\ \A j \in 1 .. Len(g) - n : f[j] = g[n + j]
    BY <2>4, SubSeqProperties
  <2> HIDE DEF f
  <2>8. /\ DOMAIN fp = 1 .. Len(f) + Len(p)
        /\ \A j \in 1 .. Len(f) + Len(p) : fp[j] = IF j <= Len(f) THEN f[j] ELSE p[j - Len(f)]
    <3>1. f \in Seq(Functors) /\ p \in Seq(Functors)
      BY <2>4, <2>7
    <3>2. fp \in Seq(Functors) /\ Len(fp) = Len(f) + Len(p)
      BY <3>1, ConcatProperties
    <3>3. \A j \in 1 .. Len(f) + Len(p) : fp[j] = IF j <= Len(f) THEN f[j] ELSE p[j - Len(f)]
      BY <3>1, ConcatProperties
    <3> HIDE DEF fp
    <3> QED BY <3>2, <3>3
  <2> HIDE DEF fp
  <2>9. i \in 1 .. Len(f) + Len(p) /\ Len(f) \in Nat /\ Len(p) \in Nat
    BY <2>4, <2>5, <2>7, <2>8
  <2>10. CASE i <= Len(f)
    <3>1. fp[i] = g[n + i] /\ n + i \in DOMAIN g
      BY <2>4, <2>7, <2>8, <2>9, <2>10
    <3> QED BY <2>5, <2>6, <3>1
  <2>11. CASE i > Len(f)
    <3>1. ~(i <= Len(f))
      BY <2>9, <2>11
    <3>2. fp[i] = p[i - Len(f)]
      BY <2>8, <2>9, <3>1
    <3>3. i - Len(f) \in DOMAIN p
      BY <2>4, <2>9, <2>11
    <3> QED BY <2>5, <2>6, <3>2, <3>3
  <2> QED BY <2>9, <2>10, <2>11
<1>8. \A c \in Conns : conn[c] \in ConnType /\ ConnInv(conn[c])
  BY DEF OldInv, OldTypeOK
<1>9. \A c \in Conns : conn'[c] = conn[c] \/ (conn[c].life = "down" /\ conn'[c] = Freed(conn[c]))
  BY <1>1, <1>7
<1>10. \A c \in Conns : conn[c] \in ConnType =>
         Freed(conn[c]) \in ConnType /\ ConnInv(Freed(conn[c])) /\ Freed(conn[c]).life = "freed"
  BY FreedStep
<1>11. \A c \in Conns :
         /\ conn'[c] \in ConnType /\ ConnInv(conn'[c])
         /\ conn'[c] = conn[c] \/ (conn[c].life = "down" /\ conn'[c].life = "freed")
  BY <1>8, <1>9, <1>10
<1>12. conn' = [c \in Conns |-> conn'[c]]
  BY <1>1
<1>13. conn' \in [Conns -> ConnType]
  BY <1>11, <1>12
<1>14. OldTypeOK'
  BY <1>1, <1>4, <1>13 DEF OldInv, OldTypeOK
<1>15. AcceptInv'
  BY <1>1, <1>11, AcceptSame
<1>16. QueueInv' /\ HolderInv'
  BY <1>1, <1>5, <1>11, QueueSame
<1>17. ActiveInv'
  <2>1. \A m \in Loops : loop'[m].active \subseteq loop[m].active
    BY <1>3, <1>4
  <2>2. \A m \in Loops : \A a \in loop'[m].active :
          /\ a.channel = Acceptor => backlog' # <<>>
          /\ a.channel \in Conns => conn[a.channel].life = "up"
    BY <1>1, <2>1 DEF OldInv, ActiveInv
  <2> QED BY <1>11, <2>1, <2>2, ActiveStep
<1>18. FdInv'
  <2>1. \A c \in Existing' : c \in Conns /\ c \in Existing /\ conn'[c] = conn[c]
    BY <1>11 DEF Existing
  <2> QED BY <2>1 DEF OldInv, FdInv
<1>19. ChannelInv'
  <2>1. ASSUME NEW m \in Loops, NEW f \in Fds, channels[m][f] # NoConn
        PROVE  channels[m][f] \in Conns
    BY <2>1, ConnsAre DEF OldInv, OldTypeOK
  <2>2. \A c \in Conns : conn[c].life \in {"up", "closed"} \/ conn'[c].life \in {"up", "closed"}
          => conn'[c] = conn[c]
    BY <1>11
  <2>3. \A m \in Loops, f \in Fds : channels[m][f] # NoConn =>
          /\ conn[channels[m][f]].life \in {"up", "closed"}
          /\ conn[channels[m][f]].fd = f /\ conn[channels[m][f]].loop = m
    BY DEF OldInv, ChannelInv
  <2>4. \A m \in Loops, f \in Fds : channels[m][f] # NoConn =>
          conn'[channels[m][f]] = conn[channels[m][f]]
    BY <2>1, <2>2, <2>3
  <2>5. \A c \in Conns : conn'[c].life \in {"up", "closed"} =>
          channels[conn'[c].loop][conn'[c].fd] = c
    BY <2>2 DEF OldInv, ChannelInv
  <2>6. \A m \in Loops, f \in Fds : channels[m][f] # NoConn =>
          /\ conn'[channels[m][f]].life \in {"up", "closed"}
          /\ conn'[channels[m][f]].fd = f /\ conn'[channels[m][f]].loop = m
    BY <2>3, <2>4
  <2>7. channels' = channels
    BY <1>1
  <2> QED BY <2>5, <2>6, <2>7 DEF ChannelInv
<1> QED BY <1>6, <1>11, <1>14, <1>15, <1>16, <1>17, <1>18, <1>19 DEF OldInv

\* A channel is taken off those that the loop has still to handle.
TakeOff(l, a) == [loop EXCEPT ![l].active = @ \ {a}]

\* It changes no functors.
LEMMA TakenOff ==
  ASSUME OldInv, NEW l \in Loops, NEW a \in loop[l].active,
         NEW loops, loops = TakeOff(l, a)
  PROVE  /\ loops \in [Loops -> LoopType]
         /\ \A m \in Loops : /\ loops[m].pc = loop[m].pc /\ loops[m].functors = loop[m].functors
                             /\ loops[m].done = loop[m].done
                             /\ loops[m].done <= Len(loops[m].functors)
                             /\ loops[m].active \subseteq loop[m].active
                             /\ Todo(loops[m]) = Todo(loop[m])
         /\ a \notin loops[l].active
<1> DEFINE b == loop[l].active \ {a}
           r == [loop[l] EXCEPT !.active = b]
<1>1. loop[l] \in LoopType /\ loop \in [Loops -> LoopType]
  BY DEF OldInv, OldTypeOK
<1>2. b \in SUBSET Actives /\ b \subseteq loop[l].active /\ a \notin b
  BY <1>1 DEF LoopType
<1> HIDE DEF b
<1>3. /\ r \in LoopType /\ r.active = b /\ r.pc = loop[l].pc /\ r.functors = loop[l].functors
      /\ r.done = loop[l].done /\ r.pending = loop[l].pending
  BY <1>1, <1>2 DEF LoopType
<1>4. loops = [loop EXCEPT ![l] = r]
  BY DEF b, TakeOff
<1> HIDE DEF r
<1>5. loops \in [Loops -> LoopType] /\ loops[l] = r /\ \A m \in Loops \ {l} : loops[m] = loop[m]
  BY <1>1, <1>3, <1>4
<1>6. Todo(r) = Todo(loop[l])
  BY <1>3 DEF Todo
<1>7. \A m \in Loops : loop[m].done <= Len(loop[m].functors)
  BY DEF OldInv, LoopInv
<1> QED BY <1>2, <1>3, <1>4, <1>5, <1>6, <1>7

\* handleRead of the eventfd.
LEMMA WokenPreserves ==
  ASSUME OldInv, NEW l \in Loops, NEW a \in loop[l].active,
         loop' = [TakeOff(l, a) EXCEPT ![l].woken = FALSE],
         UNCHANGED <<threadNum, limit, next, channels, conn, map, backlog>>
  PROVE  OldInv'
<1>0. PICK loops : loops = TakeOff(l, a)
  OBVIOUS
<1> DEFINE r == [loops[l] EXCEPT !.woken = FALSE]
<1>1. /\ loops \in [Loops -> LoopType]
      /\ \A m \in Loops : /\ loops[m].pc = loop[m].pc /\ loops[m].functors = loop[m].functors
                          /\ loops[m].done = loop[m].done
                          /\ loops[m].active \subseteq loop[m].active
                          /\ Todo(loops[m]) = Todo(loop[m])
  BY <1>0, TakenOff
<1>2. loop' = [loops EXCEPT ![l] = r]
  BY <1>0
<1>3. /\ r \in LoopType /\ r.active = loops[l].active /\ r.pc = loops[l].pc
      /\ r.functors = loops[l].functors /\ r.done = loops[l].done /\ r.pending = loops[l].pending
  <2>1. loops[l] \in LoopType
    BY <1>1
  <2> QED BY <2>1 DEF LoopType
<1> HIDE DEF r
<1>4. /\ loop' \in [Loops -> LoopType] /\ loop'[l] = r /\ \A m \in Loops \ {l} : loop'[m] = loops[m]
  BY <1>1, <1>2, <1>3
<1>5. \A m \in Loops : /\ loop'[m].pc = loop[m].pc /\ loop'[m].functors = loop[m].functors
                       /\ loop'[m].done = loop[m].done
                       /\ loop'[m].active \subseteq loop[m].active
                       /\ Todo(loop'[m]) = Todo(loop[m])
  <2>1. Todo(r) = Todo(loops[l])
    BY <1>3 DEF Todo
  <2>2. ASSUME NEW m \in Loops
        PROVE  /\ loop'[m].pc = loops[m].pc /\ loop'[m].functors = loops[m].functors
               /\ loop'[m].done = loops[m].done /\ loop'[m].active = loops[m].active
               /\ Todo(loop'[m]) = Todo(loops[m])
    <3>1. CASE m = l
      BY <1>3, <1>4, <2>1, <3>1, Zenon
    <3>2. CASE m # l
      BY <1>4, <3>2, Zenon
    <3> QED BY <3>1, <3>2
  <2> QED BY <1>1, <2>2, Zenon
<1>6. OldTypeOK'
  BY <1>4 DEF OldInv, OldTypeOK
<1>7. AcceptInv' /\ FdInv' /\ ChannelInv' /\ \A c \in Conns : ConnInv(conn'[c])
  BY AcceptSame, PlaceSame DEF OldInv
<1>8. QueueInv' /\ HolderInv'
  BY <1>5, QueueSame
<1>9. LoopInv'
  <2>1. \A m \in Loops : loop[m].pc # "events" => loop'[m].active = {}
    BY <1>5 DEF OldInv, LoopInv
  <2> QED BY <1>5, <2>1 DEF OldInv, LoopInv
<1>10. ActiveInv'
  BY <1>5, ActiveStep DEF OldInv, ActiveInv
<1> QED BY <1>6, <1>7, <1>8, <1>9, <1>10 DEF OldInv

\* A step that does not change where the loops are.
LEMMA LoopsStay ==
  ASSUME OldInv,
         \A m \in Loops : /\ loop'[m].pc = loop[m].pc /\ loop'[m].functors = loop[m].functors
                          /\ loop'[m].done = loop[m].done
                          /\ loop'[m].active \subseteq loop[m].active
  PROVE  LoopInv'
<1>1. \A m \in Loops : loop[m].pc # "events" => loop'[m].active = {}
  BY DEF OldInv, LoopInv
<1> QED BY <1>1 DEF OldInv, LoopInv

\* A functor is for a connection that is posted or closed.
LEMMA NoFunctors ==
  ASSUME OldInv, NEW c \in Conns, conn[c].life \notin {"posted", "closed"},
         NEW m \in Loops, NEW e \in Functors, Has(Todo(loop[m]), e)
  PROVE  e.conn # c
<1>1. FunctorInv(m, e) /\ e.op \in {"established", "remove", "destroyed"}
  BY DEF OldInv, QueueInv, Functors
<1> QED BY <1>1 DEF FunctorInv

\* One change after another.
LEMMA SameButTwice ==
  ASSUME NEW t, NEW u, NEW v, NEW c, SameBut(t, u, c), SameBut(u, v, c)
  PROVE  SameBut(t, v, c)
<1>1. ASSUME NEW j \in DOMAIN v, v[j].conn # c PROVE \E i \in DOMAIN t : t[i] = v[j]
  <2>1. PICK i \in DOMAIN u : u[i] = v[j]
    BY <1>1 DEF SameBut
  <2> QED BY <1>1, <2>1 DEF SameBut
<1>2. ASSUME NEW i \in DOMAIN t, t[i].conn # c PROVE \E j \in DOMAIN v : v[j] = t[i]
  <2>1. PICK j \in DOMAIN u : u[j] = t[i]
    BY <1>2 DEF SameBut
  <2> QED BY <1>2, <2>1 DEF SameBut
<1> QED BY <1>1, <1>2 DEF SameBut

\* Connection c, which has no functor, gets one.
LEMMA Enqueued ==
  ASSUME OldInv, NEW c \in Conns, NEW e \in Functors, e.conn = c,
         NEW loops \in [Loops -> LoopType],
         \A m \in Loops : /\ loops[m].done <= Len(loops[m].functors)
                          /\ SameBut(Todo(loop[m]), Todo(loops[m]), c) /\ Unique(Todo(loops[m]))
                          /\ \A d \in Functors : Has(Todo(loops[m]), d) => d.conn # c,
         NEW thread \in Loops, NEW t \in Loops, loop' = QueueInLoop(loops, thread, t, e),
         \A d \in Conns \ {c} : conn'[d] = conn[d] /\ (d \in map' <=> d \in map),
         FunctorInv(t, e)'
  PROVE  /\ QueueInv' /\ \A d \in Conns \ {c} : Kept(d)'
         /\ \E m \in Loops : \E i \in DOMAIN Todo(loop'[m]) : Todo(loop'[m])[i].conn = c
<1>1. /\ \A r \in Loops \ {t} : loop'[r] = loops[r]
      /\ Todo(loop'[t]) = Append(Todo(loops[t]), e)
  BY QueueInLoopStep
<1> DEFINE s == Todo(loops[t])
           u == Append(s, e)
<1>2. s \in Seq(Functors) /\ Unique(s) /\ \A d \in Functors : Has(s, d) => d.conn # c
  BY TodoType
<1> HIDE DEF s
<1>3. \A i \in DOMAIN s : s[i].conn # e.conn
  <2> TAKE i \in DOMAIN s
  <2>1. s[i] \in Functors /\ Has(s, s[i])
    BY <1>2 DEF Has
  <2> QED BY <1>2, <2>1
<1>4. /\ Unique(u) /\ SameBut(s, u, c) /\ Has(u, e)
      /\ \A d \in Functors : Has(u, d) /\ d.conn = c => d = e
  BY <1>2, <1>3, OneMore
<1>5. Todo(loop'[t]) = u
  BY <1>1 DEF s
<1> HIDE DEF u
<1>6. SameBut(Todo(loop[t]), u, c)
  <2>1. SameBut(Todo(loop[t]), s, c)
    BY DEF s
  <2> QED BY <1>4, <2>1, SameButTwice
<1>7. ASSUME NEW m \in Loops
      PROVE  /\ SameBut(Todo(loop[m]), Todo(loop'[m]), c) /\ Unique(Todo(loop'[m]))
             /\ \A d \in Functors : Has(Todo(loop'[m]), d) /\ d.conn = c => FunctorInv(m, d)'
  <2>1. CASE m = t
    BY <1>4, <1>5, <1>6, <2>1
  <2>2. CASE m # t
    BY <1>1, <2>2
  <2> QED BY <2>1, <2>2
<1>8. \E m \in Loops : \E i \in DOMAIN Todo(loop'[m]) : Todo(loop'[m])[i].conn = c
  BY <1>4, <1>5 DEF Has
<1> QED BY <1>7, <1>8, QueueStep

\* The functor that is queued.
LEMMA FunctorIs ==
  ASSUME NEW op \in {"established", "remove", "destroyed"}, NEW c \in Conns
  PROVE  Functor(op, c) \in Functors /\ Functor(op, c).op = op /\ Functor(op, c).conn = c
BY DEF Functor, Functors

\* handleEvent of a connection's channel, and what follows if it closes.
LEMMA EventPreserves ==
  ASSUME OldInv, NEW l \in Loops, NEW a \in loop[l].active, NEW c \in Conns, a.channel = c,
         NEW close \in BOOLEAN, NEW k, k = HandleEvent(conn[c], a.revents, close), Becomes(c, k),
         k.life # "closed" => loop' = TakeOff(l, a) /\ map' = map,
         k.life = "closed" /\ l = Main =>
           /\ map' = map \ {c}
           /\ loop' = QueueInLoop(TakeOff(l, a), Main, conn[c].loop, Functor("destroyed", c)),
         k.life = "closed" /\ l # Main =>
           loop' = QueueInLoop(TakeOff(l, a), l, Main, Functor("remove", c)) /\ map' = map,
         UNCHANGED <<threadNum, limit, next, channels, backlog>>
  PROVE  OldInv'
<1>1. /\ conn[c].life = "up" /\ conn[c].loop = l /\ conn[c] \in ConnType /\ ConnInv(conn[c])
      /\ c \in map
  BY DEF OldInv, OldTypeOK, ActiveInv, HolderInv, Kept
<1>2. a.revents \in SUBSET {"in", "out", "hup", "err"}
  BY DEF OldInv, OldTypeOK, LoopType, Actives
<1>3. /\ k \in ConnType /\ ConnInv(k) /\ k.fd = conn[c].fd /\ k.loop = conn[c].loop
      /\ k.life \in {"up", "closed"}
  BY <1>1, <1>2, HandleEventStep DEF Handled
<1>4. /\ conn' \in [Conns -> ConnType] /\ \A d \in Conns : ConnInv(conn'[d])
      /\ conn'[c] = k /\ \A d \in Conns \ {c} : conn'[d] = conn[d]
  BY <1>3, BecomesType
<1>5. PICK loops : loops = TakeOff(l, a)
  OBVIOUS
<1>6. /\ loops \in [Loops -> LoopType]
      /\ \A m \in Loops : /\ loops[m].pc = loop[m].pc /\ loops[m].functors = loop[m].functors
                          /\ loops[m].done = loop[m].done
                          /\ loops[m].done <= Len(loops[m].functors)
                          /\ loops[m].active \subseteq loop[m].active
                          /\ Todo(loops[m]) = Todo(loop[m])
      /\ a \notin loops[l].active
  BY <1>5, TakenOff
<1>7. \A m \in Loops :
        /\ SameBut(Todo(loop[m]), Todo(loops[m]), c) /\ Unique(Todo(loops[m]))
        /\ \A d \in Functors : Has(Todo(loops[m]), d) => d.conn # c
  BY <1>1, <1>6, NoneChanged, NoFunctors DEF OldInv, QueueInv
<1>8. /\ loop' \in [Loops -> LoopType]
      /\ \A m \in Loops : /\ loop'[m].pc = loop[m].pc /\ loop'[m].functors = loop[m].functors
                          /\ loop'[m].done = loop[m].done /\ loop'[m].active = loops[m].active
      /\ map' \in {map, map \ {c}}
      /\ QueueInv' /\ HolderInv'
  <2>1. CASE k.life = "up"
    <3>1. loop' = loops /\ map' = map
      BY <1>5, <2>1
    <3>2. \A d \in Conns : conn'[d].life = conn[d].life /\ conn'[d].loop = conn[d].loop
      BY <1>1, <1>3, <1>4, <2>1
    <3>3. QueueInv' /\ HolderInv'
      BY <1>6, <3>1, <3>2, QueueSame
    <3> QED BY <1>6, <3>1, <3>3
  <2>2. CASE k.life = "closed"
    <3>1. PICK e \in Functors, thread \in Loops, t \in Loops :
            /\ loop' = QueueInLoop(loops, thread, t, e) /\ e.conn = c
            /\ FunctorInv(t, e)' /\ map' \in {map, map \ {c}}
      <4>1. CASE l = Main
        <5>1. /\ map' = map \ {c}
              /\ loop' = QueueInLoop(loops, Main, Main, Functor("destroyed", c))
          BY <1>1, <1>5, <2>2, <4>1
        <5> DEFINE e == Functor("destroyed", c)
        <5>2. e \in Functors /\ e.op = "destroyed" /\ e.conn = c
          BY FunctorIs
        <5> HIDE DEF e
        <5>3. FunctorInv(Main, e)'
          BY <1>1, <1>3, <1>4, <2>2, <4>1, <5>1, <5>2 DEF FunctorInv
        <5> QED BY <5>1, <5>2, <5>3, ConnsAre DEF e
      <4>2. CASE l # Main
        <5>1. loop' = QueueInLoop(loops, l, Main, Functor("remove", c)) /\ map' = map
          BY <1>5, <2>2, <4>2
        <5> DEFINE e == Functor("remove", c)
        <5>2. e \in Functors /\ e.op = "remove" /\ e.conn = c
          BY FunctorIs
        <5> HIDE DEF e
        <5>3. FunctorInv(Main, e)'
          BY <1>1, <1>3, <1>4, <2>2, <4>2, <5>1, <5>2 DEF FunctorInv
        <5> QED BY <5>1, <5>2, <5>3, ConnsAre DEF e
      <4> QED BY <4>1, <4>2
    <3>2. /\ loop' \in [Loops -> LoopType]
          /\ \A m \in Loops : /\ loop'[m].pc = loops[m].pc /\ loop'[m].active = loops[m].active
                              /\ loop'[m].functors = loops[m].functors
                              /\ loop'[m].done = loops[m].done
      BY <1>6, <3>1, QueueInLoopStep
    <3>3. \A d \in Conns \ {c} : conn'[d] = conn[d] /\ (d \in map' <=> d \in map)
      BY <1>4, <3>1
    <3>4. /\ QueueInv' /\ \A d \in Conns \ {c} : Kept(d)'
          /\ \E m \in Loops : \E i \in DOMAIN Todo(loop'[m]) : Todo(loop'[m])[i].conn = c
      BY <1>6, <1>7, <3>1, <3>3, Enqueued
    <3>5. Kept(c)'
      BY <1>4, <2>2, <3>4 DEF Kept
    <3> QED BY <1>6, <3>1, <3>2, <3>4, <3>5 DEF HolderInv
  <2> QED BY <1>3, <2>1, <2>2
<1>9. \A d \in Conns :
        /\ conn'[d].fd = conn[d].fd /\ conn'[d].loop = conn[d].loop
        /\ conn'[d].life = conn[d].life \/ (d = c /\ conn'[d].life = "closed")
  BY <1>1, <1>3, <1>4
<1>10. OldTypeOK'
  BY <1>4, <1>8 DEF OldInv, OldTypeOK
<1>11. AcceptInv'
  <2>1. \A d \in Conns : /\ conn'[d].life = "none" <=> conn[d].life = "none"
                         /\ conn[d].life = "queued" => conn'[d].life = "queued"
    BY <1>1, <1>9
  <2> QED BY <2>1, AcceptSame
<1>12. FdInv' /\ ChannelInv'
  <2>1. \A d \in Conns :
          /\ conn'[d].life \in {"posted", "up", "closed", "down"}
               <=> conn[d].life \in {"posted", "up", "closed", "down"}
          /\ conn'[d].life \in {"up", "closed"} <=> conn[d].life \in {"up", "closed"}
    BY <1>1, <1>9
  <2> QED BY <1>9, <2>1, PlaceSame
<1>13. LoopInv'
  BY <1>6, <1>8, LoopsStay
<1>14. ActiveInv'
  <2>1. ASSUME NEW m \in Loops, NEW b \in loop'[m].active
        PROVE  /\ b.channel = Acceptor => backlog # <<>>
               /\ b.channel # c
    <3>1. b \in loop[m].active /\ (m = l => b # a)
      BY <1>6, <1>8
    <3> QED BY <1>1, <3>1 DEF OldInv, ActiveInv
  <2>2. \A m \in Loops : loop'[m].active \subseteq loop[m].active
    BY <1>6, <1>8
  <2> QED BY <1>9, <2>1, <2>2, ActiveStep
<1> QED BY <1>4, <1>8, <1>10, <1>11, <1>12, <1>13, <1>14 DEF OldInv

-----------------------------------------------------------------------------
(* OldServer: one functor.                                                 *)

\* One more of the functors that were swapped out has run.
RunOff(l) == [loop EXCEPT ![l].done = @ + 1]

\* The functor of loop l that runs next, and whether it has one.
NextOf(l) == loop[l].functors[loop[l].done + 1]
Running(l) == loop[l].pc = "functors" /\ loop[l].done < Len(loop[l].functors)

\* The channel of loop l for descriptor fd is now connection c's.
Links(l, fd, c) == channels' = [channels EXCEPT ![l][fd] = c]

\* The functor that runs was the connection's only one.
LEMMA Ran ==
  ASSUME OldInv, NEW l \in Loops, Running(l), NEW loops, loops = RunOff(l), NEW f, f = NextOf(l)
  PROVE  /\ f \in Functors /\ FunctorInv(l, f)
         /\ loops \in [Loops -> LoopType] /\ \A m \in Loops \ {l} : loops[m] = loop[m]
         /\ \A m \in Loops :
              /\ loops[m].pc = loop[m].pc /\ loops[m].functors = loop[m].functors
              /\ loops[m].active = loop[m].active
              /\ loops[m].done <= Len(loops[m].functors)
              /\ SameBut(Todo(loop[m]), Todo(loops[m]), f.conn) /\ Unique(Todo(loops[m]))
              /\ \A d \in Functors : Has(Todo(loops[m]), d) => d.conn # f.conn
<1> DEFINE n == loop[l].done + 1
           r == [loop[l] EXCEPT !.done = n]
           t == Todo(loop[l])
<1>1. loop \in [Loops -> LoopType] /\ loop[l] \in LoopType /\ loop[l].done <= Len(loop[l].functors)
  BY DEF OldInv, OldTypeOK, LoopInv
<1>2. n \in Nat /\ n <= Len(loop[l].functors)
  BY <1>1 DEF LoopType, Running
<1>3. /\ loops = [loop EXCEPT ![l] = r] /\ n = loop[l].done + 1 /\ f = loop[l].functors[n]
      /\ loop[l].pc = "functors" /\ loop[l].done < Len(loop[l].functors)
  BY DEF RunOff, NextOf, Running
<1> HIDE DEF n
<1>4. /\ r \in LoopType /\ r.pc = loop[l].pc /\ r.active = loop[l].active
      /\ r.functors = loop[l].functors /\ r.done = n /\ r.pending = loop[l].pending
  BY <1>1, <1>2 DEF LoopType
<1> HIDE DEF r
<1>5. loops \in [Loops -> LoopType] /\ loops[l] = r /\ \A m \in Loops \ {l} : loops[m] = loop[m]
  BY <1>1, <1>3, <1>4
<1>6. t # <<>> /\ t[1] = f /\ Todo(r) = Tail(t)
  BY <1>1, <1>3, <1>4, TodoRun
<1>7. t \in Seq(Functors) /\ Unique(t)
  BY <1>1, TodoType DEF OldInv, QueueInv
<1>8. \A d \in Functors : Has(t, d) => FunctorInv(l, d)
  BY DEF OldInv, QueueInv
<1> HIDE DEF t
<1>9. f \in Functors /\ Has(t, f)
  <2>1. 1 \in DOMAIN t
    BY <1>6, <1>7
  <2>2. t[1] \in Functors
    BY <1>7, <2>1
  <2> QED BY <1>6, <2>1, <2>2 DEF Has
<1>10. FunctorInv(l, f)
  BY <1>8, <1>9
<1>11. /\ Unique(Todo(r)) /\ SameBut(t, Todo(r), f.conn)
       /\ \A d \in Functors : Has(Todo(r), d) => d.conn # f.conn
  BY <1>6, <1>7, OneLess, SMTT(30)
<1>12. ASSUME NEW m \in Loops \ {l}, NEW d \in Functors, Has(Todo(loop[m]), d)
       PROVE  d.conn # f.conn
  <2>1. FunctorInv(m, d) /\ d.op \in {"established", "remove", "destroyed"}
    BY <1>12 DEF OldInv, QueueInv, Functors
  <2>2. f.op \in {"established", "remove", "destroyed"}
    BY <1>9 DEF Functors
  <2> QED BY <1>10, <2>1, <2>2 DEF FunctorInv
<1>13. ASSUME NEW m \in Loops
       PROVE  /\ loops[m].pc = loop[m].pc /\ loops[m].functors = loop[m].functors
              /\ loops[m].active = loop[m].active
              /\ loops[m].done <= Len(loops[m].functors)
              /\ SameBut(Todo(loop[m]), Todo(loops[m]), f.conn) /\ Unique(Todo(loops[m]))
              /\ \A d \in Functors : Has(Todo(loops[m]), d) => d.conn # f.conn
  <2>1. CASE m = l
    BY <1>2, <1>4, <1>5, <1>11, <2>1 DEF t
  <2>2. CASE m # l
    BY <1>5, <1>12, <2>2, NoneChanged DEF OldInv, LoopInv, QueueInv
  <2> QED BY <2>1, <2>2
<1> QED BY <1>5, <1>9, <1>10, <1>13

\* Where the loops are after a functor, and what it may have queued.
LEMMA RanLoops ==
  ASSUME OldInv, NEW loops, \A m \in Loops :
           /\ loops[m].pc = loop[m].pc /\ loops[m].functors = loop[m].functors
           /\ loops[m].active = loop[m].active /\ loops[m].done <= Len(loops[m].functors),
         NEW l \in Loops, Running(l), \A m \in Loops \ {l} : loops[m].done = loop[m].done,
         \A m \in Loops : /\ loop'[m].pc = loops[m].pc /\ loop'[m].active = loops[m].active
                          /\ loop'[m].functors = loops[m].functors
                          /\ loop'[m].done = loops[m].done
  PROVE  LoopInv'
<1>1. loop[l].pc = "functors"
  BY DEF Running
<1>2. ASSUME NEW m \in Loops
      PROVE  /\ loop'[m].done <= Len(loop'[m].functors)
             /\ loop'[m].pc # "functors" => loop'[m].functors = <<>> /\ loop'[m].done = 0
             /\ loop'[m].pc # "events" => loop'[m].active = {}
  <2>1. /\ loop'[m].pc = loop[m].pc /\ loop'[m].active = loop[m].active
        /\ loop'[m].functors = loop[m].functors /\ loop'[m].done = loops[m].done
        /\ loops[m].done <= Len(loop[m].functors)
        /\ m # l => loop'[m].done = loop[m].done
    OBVIOUS
  <2>2. /\ loop[m].pc # "functors" => loop[m].functors = <<>> /\ loop[m].done = 0
        /\ loop[m].pc # "events" => loop[m].active = {}
    BY DEF OldInv, LoopInv
  <2> QED BY <1>1, <2>1, <2>2
<1> QED BY <1>2 DEF LoopInv

\* A new channel in the poller, of connection c.
LEMMA ChannelAdded ==
  ASSUME OldInv, NEW c \in Conns, \A d \in Conns \ {c} : conn'[d] = conn[d], FdInv',
         conn'[c].loop \in Loops, conn'[c].life = "up",
         conn[c].life \notin {"up", "closed"},
         Links(conn'[c].loop, conn'[c].fd, c)
  PROVE  ChannelInv'
<1> DEFINE l == conn'[c].loop
           f == conn'[c].fd
<1>1. channels \in [Loops -> [Fds -> 0 .. MaxClients]]
  BY DEF OldInv, OldTypeOK
<1>2. /\ Existing' \subseteq Conns
      /\ \A d \in Conns : d \in Existing' <=> conn'[d].life \in {"posted", "up", "closed", "down"}
  BY DEF Existing
<1>3. f \in Fds /\ l \in Loops
  BY <1>2 DEF FdInv
<1>4. \A d \in Conns \ {c} : conn'[d].life \in {"up", "closed"} => conn'[d].fd # f
  BY <1>2 DEF FdInv
<1>5. channels' = [channels EXCEPT ![l][f] = c]
  BY DEF Links
<1>0. /\ conn'[c].life = "up" /\ conn'[c].fd = f /\ conn'[c].loop = l
  OBVIOUS
<1> HIDE DEF l, f
<1>6. \A m \in Loops, g \in Fds :
        channels'[m][g] = IF m = l /\ g = f THEN c ELSE channels[m][g]
  BY <1>1, <1>3, <1>5
<1>7. \A d \in Conns \ {c} : conn[d].life \in {"up", "closed"} =>
        /\ conn[d].loop \in Loops /\ conn[d].fd \in Fds /\ channels[conn[d].loop][conn[d].fd] = d
  BY DEF OldInv, OldTypeOK, ConnType, FdInv, ChannelInv, Existing
<1>8. ASSUME NEW m \in Loops, NEW g \in Fds, channels'[m][g] # NoConn
      PROVE  /\ conn'[channels'[m][g]].life \in {"up", "closed"}
             /\ conn'[channels'[m][g]].fd = g /\ conn'[channels'[m][g]].loop = m
  <2>1. CASE m = l /\ g = f
    BY <1>0, <1>6, <2>1
  <2>2. CASE ~(m = l /\ g = f)
    <3>1. channels'[m][g] = channels[m][g] /\ channels[m][g] \in 0 .. MaxClients
      BY <1>1, <1>6, <2>2
    <3> DEFINE d == channels[m][g]
    <3>2. d \in Conns
      BY <1>8, <3>1, ConnsAre
    <3>3. conn[d].life \in {"up", "closed"} /\ conn[d].fd = g /\ conn[d].loop = m
      BY <1>8, <3>1 DEF OldInv, ChannelInv
    <3> HIDE DEF d
    <3>4. d # c
      BY <3>3
    <3> QED BY <3>1, <3>2, <3>3, <3>4 DEF d
  <2> QED BY <2>1, <2>2
<1>9. ASSUME NEW d \in Conns, conn'[d].life \in {"up", "closed"}
      PROVE  channels'[conn'[d].loop][conn'[d].fd] = d
  <2>1. CASE d = c
    BY <1>0, <1>3, <1>6, <2>1
  <2>2. CASE d # c
    BY <1>4, <1>6, <1>7, <1>9, <2>2
  <2> QED BY <2>1, <2>2
<1> QED BY <1>8, <1>9, SMTT(30) DEF ChannelInv

\* And one that is taken out of it.
LEMMA ChannelRemoved ==
  ASSUME OldInv, NEW c \in Conns, \A d \in Conns \ {c} : conn'[d] = conn[d],
         conn[c].life = "closed", conn'[c].life = "down",
         Links(conn[c].loop, conn[c].fd, NoConn)
  PROVE  ChannelInv'
<1> DEFINE l == conn[c].loop
           f == conn[c].fd
<1>1. channels \in [Loops -> [Fds -> 0 .. MaxClients]]
  BY DEF OldInv, OldTypeOK
<1>2. /\ Existing \subseteq Conns
      /\ \A d \in Conns : d \in Existing <=> conn[d].life \in {"posted", "up", "closed", "down"}
  BY DEF Existing
<1>3. f \in Fds /\ l \in Loops
  BY <1>2 DEF OldInv, OldTypeOK, ConnType, FdInv
<1>4. \A d \in Conns \ {c} : conn[d].life \in {"up", "closed"} => conn[d].fd # f
  BY <1>2 DEF OldInv, FdInv
<1>5. channels' = [channels EXCEPT ![l][f] = NoConn]
  BY DEF Links
<1>0. channels[l][f] = c
  BY DEF OldInv, ChannelInv
<1> HIDE DEF l, f
<1>6. \A m \in Loops, g \in Fds :
        channels'[m][g] = IF m = l /\ g = f THEN NoConn ELSE channels[m][g]
  BY <1>1, <1>3, <1>5
<1>7. \A d \in Conns \ {c} : conn[d].life \in {"up", "closed"} =>
        /\ conn[d].loop \in Loops /\ conn[d].fd \in Fds /\ channels[conn[d].loop][conn[d].fd] = d
  BY DEF OldInv, OldTypeOK, ConnType, FdInv, ChannelInv, Existing
<1>8. ASSUME NEW m \in Loops, NEW g \in Fds, channels'[m][g] # NoConn
      PROVE  /\ conn'[channels'[m][g]].life \in {"up", "closed"}
             /\ conn'[channels'[m][g]].fd = g /\ conn'[channels'[m][g]].loop = m
  <2>1. ~(m = l /\ g = f)
    BY <1>6, <1>8
  <2>2. channels'[m][g] = channels[m][g] /\ channels[m][g] \in 0 .. MaxClients
    BY <1>1, <1>6, <2>1
  <2> DEFINE d == channels[m][g]
  <2>3. d \in Conns
    BY <1>8, <2>2, ConnsAre
  <2>4. conn[d].life \in {"up", "closed"} /\ conn[d].fd = g /\ conn[d].loop = m
    BY <1>8, <2>2 DEF OldInv, ChannelInv
  <2> HIDE DEF d
  <2>5. d # c
    BY <2>1, <2>4 DEF l, f
  <2> QED BY <2>2, <2>3, <2>4, <2>5 DEF d
<1>9. ASSUME NEW d \in Conns, conn'[d].life \in {"up", "closed"}
      PROVE  channels'[conn'[d].loop][conn'[d].fd] = d
  <2>1. d # c
    BY <1>9
  <2> QED BY <1>4, <1>6, <1>7, <1>9, <2>1
<1> QED BY <1>8, <1>9, SMTT(30) DEF ChannelInv

\* Existing connections keep their descriptors.
LEMMA FdsStay ==
  ASSUME OldInv, \A d \in Conns :
           /\ conn'[d].fd = conn[d].fd
           /\ conn'[d].life \in {"posted", "up", "closed", "down"}
                <=> conn[d].life \in {"posted", "up", "closed", "down"}
  PROVE  FdInv'
<1>1. Existing' = Existing /\ Existing \subseteq Conns
  BY DEF Existing
<1> QED BY <1>1 DEF OldInv, FdInv

\* What a functor leaves alone besides.
LEMMA RanActive ==
  ASSUME OldInv, \A m \in Loops : loop'[m].active = loop[m].active, backlog' = backlog,
         \A d \in Conns : /\ conn[d].life = "up" => conn'[d].life = "up"
                          /\ conn'[d].loop = conn[d].loop
  PROVE  ActiveInv'
BY DEF OldInv, ActiveInv

\* connectionEstablished on an I/O loop.
LEMMA EstablishedPreserves ==
  ASSUME OldInv, NEW l \in Loops, Running(l), NEW f, f = NextOf(l), f.op = "established",
         Becomes(f.conn, ConnectionEstablished(conn[f.conn])),
         Links(l, conn[f.conn].fd, f.conn), loop' = RunOff(l),
         UNCHANGED <<threadNum, limit, next, map, backlog>>
  PROVE  OldInv'
<1> DEFINE c == f.conn
           k == ConnectionEstablished(conn[c])
<1>1. /\ f \in Functors /\ FunctorInv(l, f)
      /\ loop' \in [Loops -> LoopType] /\ \A m \in Loops \ {l} : loop'[m] = loop[m]
      /\ \A m \in Loops :
           /\ loop'[m].pc = loop[m].pc /\ loop'[m].functors = loop[m].functors
           /\ loop'[m].active = loop[m].active
           /\ loop'[m].done <= Len(loop'[m].functors)
           /\ SameBut(Todo(loop[m]), Todo(loop'[m]), f.conn) /\ Unique(Todo(loop'[m]))
           /\ \A d \in Functors : Has(Todo(loop'[m]), d) => d.conn # f.conn
  BY Ran, SMTT(30)
<1>2. c \in Conns /\ conn[c].life = "posted" /\ conn[c].loop = l
  BY <1>1 DEF Functors, FunctorInv
<1>3. conn[c] \in ConnType /\ ConnInv(conn[c]) /\ c \in map
  BY <1>2 DEF OldInv, OldTypeOK, HolderInv, Kept
<1>4. k \in ConnType /\ ConnInv(k) /\ k.fd = conn[c].fd /\ k.loop = l /\ k.life = "up"
  BY <1>2, <1>3, EstablishedStep DEF Handled
<1>5. Becomes(c, k)
  OBVIOUS
<1> HIDE DEF k
<1>6. /\ conn' \in [Conns -> ConnType] /\ \A d \in Conns : ConnInv(conn'[d])
      /\ conn'[c] = k /\ \A d \in Conns \ {c} : conn'[d] = conn[d]
  BY <1>2, <1>4, <1>5, BecomesType
<1>7. \A d \in Conns :
        /\ conn'[d].fd = conn[d].fd /\ conn'[d].loop = conn[d].loop
        /\ conn'[d].life = conn[d].life
             \/ (d = c /\ conn'[d].life = "up" /\ conn[d].life = "posted")
  BY <1>2, <1>4, <1>6
<1>8. FdInv'
  <2>1. \A d \in Conns : conn'[d].life \in {"posted", "up", "closed", "down"}
          <=> conn[d].life \in {"posted", "up", "closed", "down"}
    BY <1>7
  <2> QED BY <1>7, <2>1, FdsStay
<1>9. /\ conn'[c].fd \in Fds
      /\ Links(conn'[c].loop, conn'[c].fd, c)
  <2>1. c \in Existing
    BY <1>2 DEF Existing
  <2>2. conn[c].fd \in Fds
    BY <2>1 DEF OldInv, FdInv
  <2>3. conn'[c].fd = conn[c].fd /\ conn'[c].loop = l
    BY <1>4, <1>6, Zenon
  <2> QED BY <2>2, <2>3, Zenon
<1>10. ChannelInv'
  <2>1. conn'[c].loop \in Loops /\ conn'[c].life = "up" /\ conn[c].life \notin {"up", "closed"}
    BY <1>2, <1>4, <1>6
  <2> QED BY <1>2, <1>6, <1>8, <1>9, <2>1, ChannelAdded
<1>11. QueueInv' /\ HolderInv'
  <2>1. \A m \in Loops :
          /\ SameBut(Todo(loop[m]), Todo(loop'[m]), c) /\ Unique(Todo(loop'[m]))
          /\ \A e \in Functors :
               Has(Todo(loop'[m]), e) /\ e.conn = c => FunctorInv(m, e)'
    BY <1>1
  <2>2. QueueInv' /\ \A d \in Conns \ {c} : Kept(d)'
    BY <1>2, <1>6, <2>1, QueueStep
  <2>3. Kept(c)'
    BY <1>3, <1>4, <1>6 DEF Kept
  <2> QED BY <2>2, <2>3 DEF HolderInv
<1>12. LoopInv'
  <2>1. \A m \in Loops \ {l} : loop'[m].done = loop[m].done
    BY <1>1
  <2>2. \A m \in Loops :
           /\ loop'[m].pc = loop[m].pc /\ loop'[m].functors = loop[m].functors
           /\ loop'[m].active = loop[m].active /\ loop'[m].done <= Len(loop'[m].functors)
    BY <1>1
  <2> QED BY <2>1, <2>2, RanLoops
<1>13. ActiveInv'
  BY <1>1, <1>7, RanActive
<1>14. AcceptInv'
  BY <1>7, AcceptSame
<1>15. channels' \in [Loops -> [Fds -> 0 .. MaxClients]]
  <2>1. c \in 0 .. MaxClients
    BY <1>2, LinksAre, Zenon
  <2> DEFINE S == 0 .. MaxClients
             r == [channels[l] EXCEPT ![conn[c].fd] = c]
  <2>2. channels \in [Loops -> [Fds -> S]]
    BY DEF OldInv, OldTypeOK
  <2>3. channels' = [channels EXCEPT ![l] = r]
    BY DEF Links
  <2> HIDE DEF S
  <2>4. r \in [Fds -> S]
    BY <2>1, <2>2 DEF S
  <2> HIDE DEF r
  <2>5. channels' \in [Loops -> [Fds -> S]]
    BY <2>2, <2>3, <2>4
  <2> QED BY <2>5 DEF S
<1>16. OldTypeOK'
  BY <1>1, <1>6, <1>15 DEF OldInv, OldTypeOK
<1> QED BY <1>6, <1>8, <1>10, <1>11, <1>12, <1>13, <1>14, <1>16 DEF OldInv

\* connectionDestroyed on the connection's loop.
LEMMA DestroyedPreserves ==
  ASSUME OldInv, NEW l \in Loops, Running(l), NEW f, f = NextOf(l), f.op = "destroyed",
         Becomes(f.conn, ConnectionDestroyed(conn[f.conn])),
         Links(l, conn[f.conn].fd, NoConn), loop' = RunOff(l),
         UNCHANGED <<threadNum, limit, next, map, backlog>>
  PROVE  OldInv'
<1> DEFINE c == f.conn
           k == ConnectionDestroyed(conn[c])
<1>1. /\ f \in Functors /\ FunctorInv(l, f)
      /\ loop' \in [Loops -> LoopType] /\ \A m \in Loops \ {l} : loop'[m] = loop[m]
      /\ \A m \in Loops :
           /\ loop'[m].pc = loop[m].pc /\ loop'[m].functors = loop[m].functors
           /\ loop'[m].active = loop[m].active
           /\ loop'[m].done <= Len(loop'[m].functors)
           /\ SameBut(Todo(loop[m]), Todo(loop'[m]), f.conn) /\ Unique(Todo(loop'[m]))
           /\ \A d \in Functors : Has(Todo(loop'[m]), d) => d.conn # f.conn
  BY Ran, SMTT(30)
<1>2. c \in Conns /\ conn[c].life = "closed" /\ conn[c].loop = l /\ c \notin map
  BY <1>1 DEF Functors, FunctorInv
<1>3. conn[c] \in ConnType /\ ConnInv(conn[c])
  BY <1>2 DEF OldInv, OldTypeOK
<1>4. k \in ConnType /\ ConnInv(k) /\ k.fd = conn[c].fd /\ k.loop = l /\ k.life = "down"
  BY <1>2, <1>3, DestroyedStep DEF Handled
<1>5. Becomes(c, k)
  OBVIOUS
<1> HIDE DEF k
<1>6. /\ conn' \in [Conns -> ConnType] /\ \A d \in Conns : ConnInv(conn'[d])
      /\ conn'[c] = k /\ \A d \in Conns \ {c} : conn'[d] = conn[d]
  BY <1>2, <1>4, <1>5, BecomesType
<1>7. \A d \in Conns :
        /\ conn'[d].fd = conn[d].fd /\ conn'[d].loop = conn[d].loop
        /\ conn'[d].life = conn[d].life
             \/ (d = c /\ conn'[d].life = "down" /\ conn[d].life = "closed")
  BY <1>2, <1>4, <1>6
<1>8. FdInv'
  <2>1. \A d \in Conns : conn'[d].life \in {"posted", "up", "closed", "down"}
          <=> conn[d].life \in {"posted", "up", "closed", "down"}
    BY <1>7
  <2> QED BY <1>7, <2>1, FdsStay
<1>10. ChannelInv'
  <2>1. conn[c].life = "closed" /\ conn'[c].life = "down"
    BY <1>2, <1>4, <1>6
  <2>2. Links(conn[c].loop, conn[c].fd, NoConn)
    BY <1>2
  <2> QED BY <1>2, <1>6, <2>1, <2>2, ChannelRemoved
<1>11. QueueInv' /\ HolderInv'
  <2>1. \A m \in Loops :
          /\ SameBut(Todo(loop[m]), Todo(loop'[m]), c) /\ Unique(Todo(loop'[m]))
          /\ \A e \in Functors :
               Has(Todo(loop'[m]), e) /\ e.conn = c => FunctorInv(m, e)'
    BY <1>1
  <2>2. QueueInv' /\ \A d \in Conns \ {c} : Kept(d)'
    BY <1>2, <1>6, <2>1, QueueStep
  <2>3. Kept(c)'
    BY <1>2, <1>4, <1>6 DEF Kept
  <2> QED BY <2>2, <2>3 DEF HolderInv
<1>12. LoopInv'
  <2>1. \A m \in Loops \ {l} : loop'[m].done = loop[m].done
    BY <1>1
  <2>2. \A m \in Loops :
           /\ loop'[m].pc = loop[m].pc /\ loop'[m].functors = loop[m].functors
           /\ loop'[m].active = loop[m].active /\ loop'[m].done <= Len(loop'[m].functors)
    BY <1>1
  <2> QED BY <2>1, <2>2, RanLoops
<1>13. ActiveInv'
  BY <1>1, <1>7, RanActive
<1>14. AcceptInv'
  BY <1>7, AcceptSame
<1>15. channels' \in [Loops -> [Fds -> 0 .. MaxClients]]
  <2>1. NoConn \in 0 .. MaxClients
    BY LinksAre, Zenon
  <2> DEFINE S == 0 .. MaxClients
             r == [channels[l] EXCEPT ![conn[c].fd] = NoConn]
  <2>2. channels \in [Loops -> [Fds -> S]]
    BY DEF OldInv, OldTypeOK
  <2>3. channels' = [channels EXCEPT ![l] = r]
    BY DEF Links
  <2> HIDE DEF S
  <2>4. r \in [Fds -> S]
    BY <2>1, <2>2 DEF S
  <2> HIDE DEF r
  <2>5. channels' \in [Loops -> [Fds -> S]]
    BY <2>2, <2>3, <2>4
  <2> QED BY <2>5 DEF S
<1>16. OldTypeOK'
  BY <1>1, <1>6, <1>15 DEF OldInv, OldTypeOK
<1> QED BY <1>6, <1>8, <1>10, <1>11, <1>12, <1>13, <1>14, <1>16 DEF OldInv

\* removeConnection on the main loop, for a connection of an I/O loop.
LEMMA RemovePreserves ==
  ASSUME OldInv, NEW l \in Loops, Running(l), NEW f, f = NextOf(l), f.op = "remove",
         RemoveConnection(RunOff(l), f.conn),
         UNCHANGED <<threadNum, limit, next, channels, conn, backlog>>
  PROVE  OldInv'
<1> DEFINE c == f.conn
           e == Functor("destroyed", c)
<1>0. PICK loops : loops = RunOff(l)
  OBVIOUS
<1>1. /\ f \in Functors /\ FunctorInv(l, f)
      /\ loops \in [Loops -> LoopType] /\ \A m \in Loops \ {l} : loops[m] = loop[m]
      /\ \A m \in Loops :
           /\ loops[m].pc = loop[m].pc /\ loops[m].functors = loop[m].functors
           /\ loops[m].active = loop[m].active
           /\ loops[m].done <= Len(loops[m].functors)
           /\ SameBut(Todo(loop[m]), Todo(loops[m]), f.conn) /\ Unique(Todo(loops[m]))
           /\ \A d \in Functors : Has(Todo(loops[m]), d) => d.conn # f.conn
  BY <1>0, Ran, SMTT(30)
<1>2. c \in Conns /\ conn[c].life = "closed" /\ conn[c].loop # Main /\ c \in map
  BY <1>1 DEF Functors, FunctorInv
<1>3. PICK t \in Loops : t = conn[c].loop
  BY <1>2 DEF OldInv, OldTypeOK, ConnType
<1>4. e \in Functors /\ e.op = "destroyed" /\ e.conn = c
  BY <1>2, FunctorIs
<1>5. map' = map \ {c} /\ loop' = QueueInLoop(loops, Main, t, e)
  BY <1>0, <1>3 DEF RemoveConnection
<1> HIDE DEF e
<1>6. FunctorInv(t, e)'
  BY <1>2, <1>3, <1>4, <1>5 DEF FunctorInv
<1>7. /\ QueueInv' /\ \A d \in Conns \ {c} : Kept(d)'
      /\ \E m \in Loops : \E i \in DOMAIN Todo(loop'[m]) : Todo(loop'[m])[i].conn = c
  <2>1. \A d \in Conns \ {c} : conn'[d] = conn[d] /\ (d \in map' <=> d \in map)
    BY <1>5
  <2> HIDE DEF c
  <2>2. Main \in Loops
    BY ConnsAre
  <2>3. /\ loops \in [Loops -> LoopType]
        /\ \A m \in Loops : /\ loops[m].done <= Len(loops[m].functors)
                            /\ SameBut(Todo(loop[m]), Todo(loops[m]), c) /\ Unique(Todo(loops[m]))
                            /\ \A d \in Functors : Has(Todo(loops[m]), d) => d.conn # c
    BY <1>1, Zenon DEF c
  <2>4. c \in Conns /\ e \in Functors /\ e.conn = c
    BY <1>2, <1>4
  <2> QED BY <1>5, <1>6, <2>1, <2>2, <2>3, <2>4, Enqueued, Zenon
<1>8. Kept(c)'
  BY <1>2, <1>7 DEF Kept
<1>9. /\ loop' \in [Loops -> LoopType]
      /\ \A m \in Loops : /\ loop'[m].pc = loops[m].pc /\ loop'[m].active = loops[m].active
                          /\ loop'[m].functors = loops[m].functors
                          /\ loop'[m].done = loops[m].done
  <2>1. Main \in Loops /\ \A m \in Loops : loops[m].done <= Len(loops[m].functors)
    BY <1>1, ConnsAre
  <2>2. loops \in [Loops -> LoopType]
    BY <1>1
  <2> QED BY <1>4, <1>5, <2>1, <2>2, QueueInLoopStep
<1>10. OldTypeOK'
  BY <1>5, <1>9 DEF OldInv, OldTypeOK
<1>11. AcceptInv' /\ FdInv' /\ ChannelInv' /\ \A d \in Conns : ConnInv(conn'[d])
  BY AcceptSame, PlaceSame DEF OldInv
<1>12. LoopInv'
  <2>1. \A m \in Loops \ {l} : loops[m].done = loop[m].done
    BY <1>1
  <2>2. \A m \in Loops :
           /\ loops[m].pc = loop[m].pc /\ loops[m].functors = loop[m].functors
           /\ loops[m].active = loop[m].active /\ loops[m].done <= Len(loops[m].functors)
    BY <1>1
  <2> QED BY <1>9, <2>1, <2>2, RanLoops
<1>13. ActiveInv'
  BY <1>1, <1>9, RanActive
<1>14. HolderInv'
  BY <1>7, <1>8 DEF HolderInv
<1> QED BY <1>7, <1>10, <1>11, <1>12, <1>13, <1>14 DEF OldInv

\* Whichever functor comes.
LEMMA RunFunctorPreserves ==
  ASSUME OldInv, NEW l \in Loops, RunFunctor(l)
  PROVE  OldInv'
<1>1. PICK f : f = NextOf(l)
  OBVIOUS
<1>2. Running(l)
  BY Zenon DEF RunFunctor, Running
<1>3. \/ /\ f.op = "established"
         /\ Becomes(f.conn, ConnectionEstablished(conn[f.conn]))
         /\ Links(l, conn[f.conn].fd, f.conn)
         /\ loop' = RunOff(l)
         /\ UNCHANGED <<threadNum, limit, next, map, backlog>>
      \/ /\ f.op = "remove"
         /\ RemoveConnection(RunOff(l), f.conn)
         /\ UNCHANGED <<threadNum, limit, next, channels, conn, backlog>>
      \/ /\ f.op = "destroyed"
         /\ Becomes(f.conn, ConnectionDestroyed(conn[f.conn]))
         /\ Links(l, conn[f.conn].fd, NoConn)
         /\ loop' = RunOff(l)
         /\ UNCHANGED <<threadNum, limit, next, map, backlog>>
  BY <1>1, Zenon DEF RunFunctor, RunOff, Becomes, Links, NextOf
<1>4. CASE f.op = "established"
  BY <1>1, <1>2, <1>3, <1>4, EstablishedPreserves
<1>5. CASE f.op = "remove"
  BY <1>1, <1>2, <1>3, <1>5, RemovePreserves
<1>6. CASE f.op = "destroyed"
  BY <1>1, <1>2, <1>3, <1>6, DestroyedPreserves
<1> QED BY <1>3, <1>4, <1>5, <1>6

-----------------------------------------------------------------------------
(* OldServer: a client is accepted.                                        *)

\* A set of numbers has a smallest.
LEMMA SmallestNumber ==
  ASSUME NEW S \in SUBSET Nat, S # {}
  PROVE  \E n \in S : \A m \in S : n <= m
<1> DEFINE R == {ss \in Nat \X Nat : ss[1] < ss[2]}
<1>1. IsWellFoundedOn(R, Nat)
  BY NatLessThanWellFounded DEF OpToRel
<1>2. ASSUME NEW x \in Nat, NEW y \in Nat, <<y, x>> \notin R PROVE x <= y
  <2>1. ~(y < x)
    BY <1>2
  <2> QED BY <2>1
<1> HIDE DEF R
<1>3. \E x \in S : \A y \in S : ~ (<<y, x>> \in R)
  BY <1>1, WFMin
<1> QED BY <1>2, <1>3

\* accept4 gives out a descriptor that is free.
LEMMA LowestIsFree ==
  ASSUME OldInv, FreeFds # {}
  PROVE  /\ Lowest(FreeFds) \in Fds
         /\ \A d \in Existing : conn[d].fd # Lowest(FreeFds)
<1>1. 1 .. limit \subseteq Fds /\ Fds \subseteq Nat
  BY Sizes DEF OldInv, OldTypeOK, Fds
<1>2. FreeFds \in SUBSET Nat /\ FreeFds \subseteq Fds
  BY <1>1 DEF FreeFds
<1>3. \E n \in FreeFds : \A m \in FreeFds : n <= m
  BY <1>2, SmallestNumber
<1>4. Lowest(FreeFds) \in FreeFds
  BY <1>3 DEF Lowest
<1> QED BY <1>2, <1>4 DEF FreeFds

\* getNextLoop.
LEMMA NextLoopIs ==
  ASSUME OldInv
  PROVE  /\ NextLoop \in Loops
         /\ threadNum # 0 => (next + 1) % threadNum \in 0 .. threadNum - 1
         /\ threadNum \in Nat /\ threadNum <= MaxThreads
<1>1. threadNum \in Nat /\ next \in Nat /\ threadNum <= MaxThreads /\ MaxThreads \in Nat
      /\ (next < threadNum \/ next = 0)
  BY Sizes DEF OldInv, OldTypeOK, AcceptInv
<1>2. CASE threadNum = 0
  BY <1>1, <1>2, ConnsAre DEF NextLoop
<1>3. CASE threadNum # 0
  <2>1. next + 1 \in Loops
    BY <1>1, <1>3 DEF Loops
  <2>2. \A n \in Nat, m \in Nat : n > 0 => (m + 1) % n \in 0 .. n - 1
    OBVIOUS
  <2> QED BY <1>1, <1>3, <2>1, <2>2 DEF NextLoop
<1> QED BY <1>2, <1>3

\* The client that is first in the queue.
LEMMA FirstClient ==
  ASSUME OldInv, backlog # <<>>
  PROVE  /\ Head(backlog) \in Conns /\ conn[Head(backlog)].life = "queued"
         /\ Head(backlog) \notin map
         /\ Tail(backlog) \in Seq(Conns)
         /\ \A i \in DOMAIN Tail(backlog) :
              /\ Tail(backlog)[i] # Head(backlog)
              /\ Tail(backlog)[i] \in Conns /\ conn[Tail(backlog)[i]].life = "queued"
         /\ \A i, j \in DOMAIN Tail(backlog) : Tail(backlog)[i] = Tail(backlog)[j] => i = j
<1> DEFINE b == backlog
           t == Tail(b)
<1>1. /\ b \in Seq(Conns) /\ b # <<>>
      /\ \A i \in DOMAIN b : b[i] \in Conns /\ conn[b[i]].life = "queued"
      /\ \A i, j \in DOMAIN b : b[i] = b[j] => i = j
  BY DEF OldInv, OldTypeOK, AcceptInv
<1>2. /\ t \in Seq(Conns) /\ Len(t) = Len(b) - 1 /\ Head(b) = b[1]
      /\ \A i \in 1 .. Len(t) : t[i] = b[i + 1]
  BY <1>1, HeadTailProperties
<1>3. DOMAIN b = 1 .. Len(b) /\ DOMAIN t = 1 .. Len(b) - 1 /\ Len(b) \in Nat /\ 1 \in DOMAIN b
  BY <1>1, <1>2
<1> HIDE DEF b, t
<1>4. \A i \in DOMAIN t : i + 1 \in DOMAIN b /\ i + 1 # 1 /\ t[i] = b[i + 1] /\ i \in Nat
  BY <1>2, <1>3
<1>5. Head(b) \in Conns /\ conn[Head(b)].life = "queued"
  BY <1>1, <1>2, <1>3
<1>6. Head(b) \notin map
  BY <1>5 DEF OldInv, HolderInv, Kept
<1>7. \A i \in DOMAIN t : t[i] # Head(b) /\ t[i] \in Conns /\ conn[t[i]].life = "queued"
  BY <1>1, <1>2, <1>3, <1>4
<1>8. \A i, j \in DOMAIN t : t[i] = t[j] => i = j
  BY <1>1, <1>4
<1> QED BY <1>2, <1>5, <1>6, <1>7, <1>8 DEF b, t

\* The connection that is made for a client is as the client left it.
Posted(k, f, l) == [k EXCEPT !.life = "posted", !.fd = f, !.loop = l]

\* It is as new as the client's requests let it be.
LEMMA PostedStep ==
  ASSUME NEW k \in ConnType, ConnInv(k), k.life = "queued", NEW f \in Fds, NEW l \in Loops
  PROVE  /\ Posted(k, f, l) \in ConnType /\ ConnInv(Posted(k, f, l))
         /\ Posted(k, f, l).life = "posted"
         /\ Posted(k, f, l).fd = f /\ Posted(k, f, l).loop = l
<1> DEFINE m == Posted(k, f, l)
<1>0. f \in 0 .. MaxFds
  BY Sizes DEF Fds
<1>1. m \in ConnType
  BY <1>0 DEF ConnType, Posted
<1>2. /\ m.life = "posted" /\ m.fd = f /\ m.loop = l /\ m.connected = k.connected
      /\ m.output = k.output /\ m.events = k.events /\ m.state = k.state /\ m.sock = k.sock
      /\ m.shut = k.shut /\ m.got = k.got /\ m.answers = k.answers
  BY DEF ConnType, Posted
<1> HIDE DEF m
<1>3. Stream(m) = Stream(k) /\ IsWriting(m) = IsWriting(k)
  BY <1>2 DEF Stream, IsWriting
<1>4. ConnInv(m)
  BY <1>2, <1>3 DEF ConnInv
<1> QED BY <1>1, <1>2, <1>4 DEF m

\* The client for whom there is no descriptor.
LEMMA TurnedAwayStep ==
  ASSUME NEW k \in ConnType, ConnInv(k), k.life = "queued"
  PROVE  LET m == [k EXCEPT !.life = "turnedAway"]
         IN  m \in ConnType /\ ConnInv(m) /\ m.life = "turnedAway" /\ m.fd = k.fd /\ m.loop = k.loop
<1> DEFINE m == [k EXCEPT !.life = "turnedAway"]
<1>1. m \in ConnType
  BY DEF ConnType
<1>2. /\ m.life = "turnedAway" /\ m.fd = k.fd /\ m.loop = k.loop /\ m.connected = k.connected
      /\ m.output = k.output /\ m.events = k.events /\ m.state = k.state /\ m.sock = k.sock
      /\ m.shut = k.shut /\ m.got = k.got /\ m.answers = k.answers
  BY DEF ConnType
<1> HIDE DEF m
<1>3. Stream(m) = Stream(k) /\ IsWriting(m) = IsWriting(k)
  BY <1>2 DEF Stream, IsWriting
<1>4. ConnInv(m)
  BY <1>2, <1>3 DEF ConnInv
<1> QED BY <1>1, <1>2, <1>4 DEF m

\* Connection c of the first client, with a descriptor that no other has.
LEMMA FdAdded ==
  ASSUME OldInv, NEW c \in Conns, \A d \in Conns \ {c} : conn'[d] = conn[d],
         conn'[c].fd \in Fds, \A d \in Existing : conn[d].fd # conn'[c].fd
  PROVE  FdInv'
<1>1. /\ \A d \in Existing' : d \in Conns /\ (d = c \/ (d \in Existing /\ conn'[d] = conn[d]))
      /\ Existing \subseteq Conns
  BY DEF Existing
<1> QED BY <1>1 DEF OldInv, FdInv

\* handleConnection: no descriptor, a connection on the main loop, or one on an I/O loop.
LEMMA AcceptPreserves ==
  ASSUME OldInv, NEW l \in Loops, NEW a \in loop[l].active, a.channel = Acceptor,
         HandleConnection(TakeOff(l, a)), UNCHANGED <<threadNum, limit>>
  PROVE  OldInv'
<1>0. PICK c, f, t : c = Head(backlog) /\ f = Lowest(FreeFds) /\ t = NextLoop
  OBVIOUS
<1>1. l = Main /\ backlog # <<>>
  BY DEF OldInv, ActiveInv
<1>2. PICK loops : loops = TakeOff(l, a)
  OBVIOUS
<1>3. /\ loops \in [Loops -> LoopType]
      /\ \A m \in Loops : /\ loops[m].pc = loop[m].pc /\ loops[m].functors = loop[m].functors
                          /\ loops[m].done = loop[m].done
                          /\ loops[m].done <= Len(loops[m].functors)
                          /\ loops[m].active \subseteq loop[m].active
                          /\ Todo(loops[m]) = Todo(loop[m])
      /\ a \notin loops[l].active
  BY <1>2, TakenOff
<1>4. /\ c \in Conns /\ conn[c].life = "queued" /\ c \notin map
      /\ Tail(backlog) \in Seq(Conns)
      /\ \A i \in DOMAIN Tail(backlog) :
           /\ Tail(backlog)[i] # c
           /\ Tail(backlog)[i] \in Conns /\ conn[Tail(backlog)[i]].life = "queued"
      /\ \A i, j \in DOMAIN Tail(backlog) : Tail(backlog)[i] = Tail(backlog)[j] => i = j
  BY <1>0, <1>1, FirstClient
<1>5. conn[c] \in ConnType /\ ConnInv(conn[c])
  BY <1>4 DEF OldInv, OldTypeOK
<1>6. t \in Loops /\ (FreeFds # {} => f \in Fds /\ \A d \in Existing : conn[d].fd # f)
  BY <1>0, NextLoopIs, LowestIsFree
<1> DEFINE k == [conn[c] EXCEPT !.life = "posted", !.fd = f, !.loop = t]
<1>7. FreeFds # {} => k \in ConnType /\ ConnInv(k) /\ k.life = "posted" /\ k.fd = f /\ k.loop = t
  <2> SUFFICES ASSUME FreeFds # {}
               PROVE  k \in ConnType /\ ConnInv(k) /\ k.life = "posted" /\ k.fd = f /\ k.loop = t
    OBVIOUS
  <2>1. k = Posted(conn[c], f, t)
    BY DEF Posted
  <2> HIDE DEF k
  <2> QED BY <1>4, <1>5, <1>6, <2>1, PostedStep
<1>8. /\ backlog' = Tail(backlog)
      /\ \/ /\ FreeFds = {}
            /\ Becomes(c, [conn[c] EXCEPT !.life = "turnedAway"])
            /\ loop' = loops /\ UNCHANGED <<next, map, channels>>
         \/ /\ FreeFds # {}
            /\ map' = map \cup {c}
            /\ next' = IF threadNum = 0 THEN next ELSE (next + 1) % threadNum
            /\ \/ /\ t = Main /\ Becomes(c, ConnectionEstablished(k))
                  /\ channels' = [channels EXCEPT ![t][f] = c]
                  /\ loop' = loops
               \/ /\ t # Main /\ Becomes(c, k)
                  /\ loop' = QueueInLoop(loops, Main, t, Functor("established", c))
                  /\ channels' = channels
  BY <1>0, <1>2 DEF HandleConnection, Becomes
<1> HIDE DEF k
<1>9. FreeFds # {} => /\ ConnectionEstablished(k) \in ConnType /\ ConnInv(ConnectionEstablished(k))
                      /\ ConnectionEstablished(k).life = "up"
                      /\ ConnectionEstablished(k).fd = f /\ ConnectionEstablished(k).loop = t
  BY <1>7, EstablishedStep DEF Handled
<1>10. PICK m \in ConnType :
        /\ Becomes(c, m) /\ ConnInv(m)
        /\ \/ /\ FreeFds = {} /\ m.life = "turnedAway"
              /\ m.fd = conn[c].fd /\ m.loop = conn[c].loop
              /\ loop' = loops /\ UNCHANGED <<next, map, channels>>
           \/ /\ FreeFds # {} /\ m.fd = f /\ m.loop = t
              /\ map' = map \cup {c}
              /\ next' = IF threadNum = 0 THEN next ELSE (next + 1) % threadNum
              /\ \/ /\ t = Main /\ m.life = "up"
                    /\ channels' = [channels EXCEPT ![t][f] = c]
                    /\ loop' = loops
                 \/ /\ t # Main /\ m.life = "posted"
                    /\ loop' = QueueInLoop(loops, Main, t, Functor("established", c))
                    /\ channels' = channels
  <2>1. CASE FreeFds = {}
    <3>1. Becomes(c, [conn[c] EXCEPT !.life = "turnedAway"])
      BY <1>8, <2>1
    <3>2. /\ [conn[c] EXCEPT !.life = "turnedAway"] \in ConnType
          /\ ConnInv([conn[c] EXCEPT !.life = "turnedAway"])
          /\ [conn[c] EXCEPT !.life = "turnedAway"].life = "turnedAway"
          /\ [conn[c] EXCEPT !.life = "turnedAway"].fd = conn[c].fd
          /\ [conn[c] EXCEPT !.life = "turnedAway"].loop = conn[c].loop
      BY <1>4, <1>5, TurnedAwayStep
    <3> QED BY <1>8, <2>1, <3>1, <3>2
  <2>2. CASE FreeFds # {} /\ t = Main
    BY <1>8, <1>9, <2>2
  <2>3. CASE FreeFds # {} /\ t # Main
    BY <1>7, <1>8, <2>3
  <2> QED BY <2>1, <2>2, <2>3
<1>11. /\ conn' \in [Conns -> ConnType] /\ \A d \in Conns : ConnInv(conn'[d])
       /\ conn'[c] = m /\ \A d \in Conns \ {c} : conn'[d] = conn[d]
  BY <1>4, <1>10, BecomesType
<1>12. m.life \in {"turnedAway", "posted", "up"}
       /\ \A d \in Conns \ {c} : (d \in map' <=> d \in map)
  BY <1>10
<1>13. \A q \in Loops :
        /\ SameBut(Todo(loop[q]), Todo(loops[q]), c) /\ Unique(Todo(loops[q]))
        /\ \A d \in Functors : Has(Todo(loops[q]), d) => d.conn # c
  BY <1>3, <1>4, NoneChanged, NoFunctors DEF OldInv, QueueInv
<1>14. /\ loop' \in [Loops -> LoopType]
       /\ \A q \in Loops : /\ loop'[q].pc = loop[q].pc /\ loop'[q].functors = loop[q].functors
                           /\ loop'[q].done = loop[q].done /\ loop'[q].active = loops[q].active
       /\ QueueInv' /\ \A d \in Conns \ {c} : Kept(d)'
  <2>1. CASE loop' = loops
    <3>1. \A q \in Loops :
            /\ SameBut(Todo(loop[q]), Todo(loop'[q]), c) /\ Unique(Todo(loop'[q]))
            /\ \A e \in Functors :
                 Has(Todo(loop'[q]), e) /\ e.conn = c => FunctorInv(q, e)'
      BY <1>13, <2>1
    <3>2. \A d \in Conns \ {c} : conn'[d] = conn[d] /\ (d \in map' <=> d \in map)
      BY <1>11, <1>12
    <3>3. QueueInv' /\ \A d \in Conns \ {c} : Kept(d)'
      BY <1>4, <3>1, <3>2, QueueStep
    <3> QED BY <1>3, <2>1, <3>3
  <2>2. CASE loop' # loops
    <3>1. /\ FreeFds # {} /\ m.loop = t /\ m.life = "posted" /\ t # Main
          /\ loop' = QueueInLoop(loops, Main, t, Functor("established", c))
      BY <1>10, <2>2
    <3> DEFINE e == Functor("established", c)
    <3>2. e \in Functors /\ e.op = "established" /\ e.conn = c
      BY <1>4, FunctorIs
    <3>3. loop' = QueueInLoop(loops, Main, t, e)
      BY <3>1
    <3> HIDE DEF e
    <3>7. FunctorInv(t, e)'
      BY <1>11, <3>1, <3>2 DEF FunctorInv
    <3>8. Main \in Loops /\ \A q \in Loops : loops[q].done <= Len(loops[q].functors)
      BY <1>3, ConnsAre
    <3>9. \A d \in Conns \ {c} : conn'[d] = conn[d] /\ (d \in map' <=> d \in map)
      BY <1>11, <1>12
    <3>10. QueueInv' /\ \A d \in Conns \ {c} : Kept(d)'
      BY <1>3, <1>4, <1>6, <1>13, <3>2, <3>3, <3>7, <3>8, <3>9, Enqueued
    <3>11. /\ loop' \in [Loops -> LoopType]
           /\ \A q \in Loops : /\ loop'[q].pc = loops[q].pc /\ loop'[q].active = loops[q].active
                               /\ loop'[q].functors = loops[q].functors
                               /\ loop'[q].done = loops[q].done
      BY <1>3, <1>6, <3>2, <3>3, <3>8, QueueInLoopStep
    <3> QED BY <1>3, <3>10, <3>11
  <2> QED BY <2>1, <2>2
<1>15. Kept(c)' /\ HolderInv'
  <2>1. Kept(c)'
    BY <1>4, <1>10, <1>11 DEF Kept
  <2> QED BY <1>14, <2>1 DEF HolderInv
<1>16. FdInv' /\ ChannelInv'
  <2>1. CASE FreeFds = {}
    <3>1. \A d \in Conns :
            /\ conn'[d].fd = conn[d].fd /\ conn'[d].loop = conn[d].loop
            /\ conn'[d].life = conn[d].life
                 \/ (conn'[d].life = "turnedAway" /\ conn[d].life = "queued")
      BY <1>4, <1>10, <1>11, <2>1
    <3>2. channels' = channels
      BY <1>10, <2>1
    <3>3. \A d \in Conns :
            /\ conn'[d].life \in {"posted", "up", "closed", "down"}
                 <=> conn[d].life \in {"posted", "up", "closed", "down"}
            /\ conn'[d].life \in {"up", "closed"} <=> conn[d].life \in {"up", "closed"}
      BY <3>1
    <3> QED BY <3>1, <3>2, <3>3, PlaceSame
  <2>2. CASE FreeFds # {}
    <3>1. conn'[c].fd = f /\ conn'[c].loop = t
      BY <1>10, <1>11, <2>2
    <3>2. FdInv'
      BY <1>4, <1>6, <1>11, <2>2, <3>1, FdAdded
    <3>3. ChannelInv'
      <4>1. CASE m.life = "up"
        <5>1. Links(conn'[c].loop, conn'[c].fd, c)
          BY <1>10, <2>2, <3>1, <4>1 DEF Links
        <5> QED BY <1>4, <1>6, <1>11, <3>1, <3>2, <4>1, <5>1, ChannelAdded
      <4>2. CASE m.life = "posted"
        <5>1. channels' = channels
          BY <1>10, <2>2, <4>2
        <5>2. \A d \in Conns : d # c =>
                conn'[d] = conn[d]
          BY <1>11
        <5>3. conn[c].life \notin {"up", "closed"} /\ conn'[c].life \notin {"up", "closed"}
          BY <1>4, <1>11, <4>2
        <5>4. ASSUME NEW q \in Loops, NEW g \in Fds, channels[q][g] # NoConn
              PROVE  channels[q][g] \in Conns /\ channels[q][g] # c
          <6>1. channels[q][g] \in Conns
            BY <5>4, ConnsAre DEF OldInv, OldTypeOK
          <6> QED BY <5>3, <5>4, <6>1 DEF OldInv, ChannelInv
        <5> QED BY <5>1, <5>2, <5>3, <5>4 DEF OldInv, ChannelInv
      <4> QED BY <1>10, <2>2, <4>1, <4>2
    <3> QED BY <3>2, <3>3
  <2> QED BY <2>1, <2>2
<1>17. AcceptInv'
  <2>1. next' < threadNum' \/ next' = 0
    <3>1. threadNum \in Nat /\ (next < threadNum \/ next = 0)
          /\ (threadNum # 0 => (next + 1) % threadNum \in 0 .. threadNum - 1)
      BY NextLoopIs DEF OldInv, AcceptInv
    <3>2. next' = next \/ (threadNum # 0 /\ next' = (next + 1) % threadNum)
      BY <1>10
    <3> QED BY <3>1, <3>2
  <2>2. PICK n \in 0 .. MaxClients : \A d \in Conns : conn[d].life # "none" <=> d <= n
    BY DEF OldInv, AcceptInv
  <2>3. \A d \in Conns : conn'[d].life # "none" <=> d <= n
    BY <1>4, <1>11, <1>12, <2>2
  <2>4. \A i \in DOMAIN backlog' : conn'[backlog'[i]].life = "queued"
    BY <1>4, <1>8, <1>11
  <2>5. \A i, j \in DOMAIN backlog' : backlog'[i] = backlog'[j] => i = j
    BY <1>4, <1>8
  <2> QED BY <2>1, <2>3, <2>4, <2>5 DEF AcceptInv
<1>18. LoopInv'
  BY <1>3, <1>14, LoopsStay
<1>19. ActiveInv'
  <2>1. ASSUME NEW q \in Loops, NEW b \in loop'[q].active
        PROVE  /\ b.channel # Acceptor
               /\ b.channel \in Conns => conn'[b.channel] = conn[b.channel]
    <3>1. b \in loop[q].active /\ (q = l => b # a)
      BY <1>3, <1>14
    <3>2. b.channel # Acceptor
      BY <1>1, <3>1 DEF OldInv, ActiveInv
    <3>3. b.channel \in Conns => b.channel # c
      BY <1>4, <3>1 DEF OldInv, ActiveInv
    <3> QED BY <1>11, <3>2, <3>3
  <2>2. \A q \in Loops : loop'[q].active \subseteq loop[q].active
    BY <1>3, <1>14
  <2> QED BY <2>1, <2>2, ActiveStep
<1>20. OldTypeOK'
  <2>1. next' \in 0 .. MaxThreads
    <3>1. /\ threadNum \in Nat /\ threadNum <= MaxThreads /\ next \in 0 .. MaxThreads
          /\ (threadNum # 0 => (next + 1) % threadNum \in 0 .. threadNum - 1)
          /\ MaxThreads \in Nat
      BY NextLoopIs, Sizes DEF OldInv, OldTypeOK
    <3>2. next' = next \/ (threadNum # 0 /\ next' = (next + 1) % threadNum)
      BY <1>10
    <3> QED BY <3>1, <3>2
  <2>2. channels' \in [Loops -> [Fds -> 0 .. MaxClients]]
    <3> DEFINE S == 0 .. MaxClients
               r == [channels[t] EXCEPT ![f] = c]
    <3>1. channels \in [Loops -> [Fds -> S]]
      BY DEF OldInv, OldTypeOK
    <3>2. c \in S
      BY <1>4, Sizes DEF Conns
    <3>3. channels' = channels \/ channels' = [channels EXCEPT ![t] = r]
      BY <1>10
    <3> HIDE DEF S
    <3>4. r \in [Fds -> S]
      BY <1>6, <3>1, <3>2
    <3> HIDE DEF r
    <3>5. channels' \in [Loops -> [Fds -> S]]
      BY <3>1, <3>3, <3>4
    <3> QED BY <3>5 DEF S
  <2>3. map' \in SUBSET Conns
    BY <1>4, <1>10 DEF OldInv, OldTypeOK
  <2>4. backlog' \in Seq(Conns)
    BY <1>4, <1>8
  <2> QED BY <1>11, <1>14, <2>1, <2>2, <2>3, <2>4 DEF OldInv, OldTypeOK
<1> QED BY <1>11, <1>14, <1>15, <1>16, <1>17, <1>18, <1>19, <1>20 DEF OldInv

-----------------------------------------------------------------------------
(* OldServer: every step, and the theorems.                                *)

\* Whichever channel is handled.
LEMMA HandleChannelPreserves ==
  ASSUME OldInv, NEW l \in Loops, HandleChannel(l)
  PROVE  OldInv'
<1>1. UNCHANGED <<threadNum, limit>>
  BY DEF HandleChannel
<1>2. PICK a \in loop[l].active :
        \/ /\ a.channel = Wakeup
           /\ loop' = [TakeOff(l, a) EXCEPT ![l].woken = FALSE]
           /\ UNCHANGED <<next, channels, conn, map, backlog>>
        \/ /\ a.channel = Acceptor
           /\ HandleConnection(TakeOff(l, a))
        \/ /\ a.channel \in Conns
           /\ \E close \in BOOLEAN :
                LET c == a.channel
                    k == HandleEvent(conn[c], a.revents, close)
                IN  /\ conn' = [conn EXCEPT ![c] = k]
                    /\ IF k.life # "closed"
                         THEN loop' = TakeOff(l, a) /\ UNCHANGED map
                         ELSE IF l = Main
                           THEN RemoveConnection(TakeOff(l, a), c)
                           ELSE /\ loop' = QueueInLoop(TakeOff(l, a), l, Main, Functor("remove", c))
                                /\ UNCHANGED map
           /\ UNCHANGED <<next, channels, backlog>>
  BY DEF HandleChannel, TakeOff
<1>3. CASE /\ loop' = [TakeOff(l, a) EXCEPT ![l].woken = FALSE]
           /\ UNCHANGED <<next, channels, conn, map, backlog>>
  BY <1>1, <1>3, WokenPreserves
<1>4. CASE a.channel = Acceptor /\ HandleConnection(TakeOff(l, a))
  BY <1>1, <1>4, AcceptPreserves
<1>5. CASE /\ a.channel \in Conns
           /\ \E close \in BOOLEAN :
                LET c == a.channel
                    k == HandleEvent(conn[c], a.revents, close)
                IN  /\ conn' = [conn EXCEPT ![c] = k]
                    /\ IF k.life # "closed"
                         THEN loop' = TakeOff(l, a) /\ UNCHANGED map
                         ELSE IF l = Main
                           THEN RemoveConnection(TakeOff(l, a), c)
                           ELSE /\ loop' = QueueInLoop(TakeOff(l, a), l, Main, Functor("remove", c))
                                /\ UNCHANGED map
           /\ UNCHANGED <<next, channels, backlog>>
  <2>1. PICK c \in Conns : c = a.channel
    BY <1>5
  <2>2. PICK close \in BOOLEAN :
           LET k == HandleEvent(conn[c], a.revents, close)
           IN  /\ conn' = [conn EXCEPT ![c] = k]
               /\ IF k.life # "closed"
                    THEN loop' = TakeOff(l, a) /\ UNCHANGED map
                    ELSE IF l = Main
                      THEN RemoveConnection(TakeOff(l, a), c)
                      ELSE /\ loop' = QueueInLoop(TakeOff(l, a), l, Main, Functor("remove", c))
                           /\ UNCHANGED map
    BY <1>5, <2>1
  <2>3. PICK k : k = HandleEvent(conn[c], a.revents, close)
    OBVIOUS
  <2>4. /\ Becomes(c, k)
        /\ k.life # "closed" => loop' = TakeOff(l, a) /\ map' = map
        /\ k.life = "closed" /\ l = Main =>
             /\ map' = map \ {c}
             /\ loop' = QueueInLoop(TakeOff(l, a), Main, conn[c].loop, Functor("destroyed", c))
        /\ k.life = "closed" /\ l # Main =>
             loop' = QueueInLoop(TakeOff(l, a), l, Main, Functor("remove", c)) /\ map' = map
    BY <2>2, <2>3 DEF Becomes, RemoveConnection
  <2>5. UNCHANGED <<threadNum, limit, next, channels, backlog>>
    BY <1>1, <1>5
  <2>6. a.channel = c
    BY <2>1
  <2> QED BY <2>3, <2>4, <2>5, <2>6, EventPreserves
<1> QED BY <1>2, <1>3, <1>4, <1>5

\* A connection that has not come.
LEMMA NewConnInv ==
  NewConn \in ConnType /\ ConnInv(NewConn)
<1>1. Main \in Loops /\ NoFd \in 0 .. MaxFds /\ <<>> \in Seq(Units)
  BY Sizes DEF Main, Loops, NoFd
<1>2. NewConn \in ConnType
  BY <1>1 DEF ConnType, NewConn
<1>3. /\ NewConn.life = "none" /\ ~NewConn.connected /\ ~NewConn.shut /\ NewConn.state = "new"
      /\ NewConn.events = {} /\ NewConn.output = <<>> /\ NewConn.sock = <<>> /\ NewConn.got = <<>>
      /\ NewConn.answers = 0
  BY DEF NewConn
<1>4. Stream(NewConn) = <<>>
  BY <1>3, ConcatEmptySeq DEF Stream
<1>5. Whole(Stream(NewConn), NewConn.answers) /\ Len(NewConn.sock) <= SockSize
  BY <1>3, <1>4, Sizes DEF Whole
<1> QED BY <1>2, <1>3, <1>5 DEF ConnInv, IsWriting

\* The invariant at the start,
LEMMA OldInitInv ==
  ASSUME OldInit
  PROVE  OldInv
<1>1. /\ \A c \in Conns : conn[c] = NewConn
      /\ \A l \in Loops : loop[l] = NewLoop
      /\ \A l \in Loops, f \in Fds : channels[l][f] = NoConn
      /\ map = {} /\ backlog = <<>> /\ next = 0
  BY DEF OldInit
<1>2. NewConn.life = "none"
  BY DEF NewConn
<1>3. /\ NewLoop \in LoopType /\ NewLoop.active = {} /\ NewLoop.functors = <<>> /\ NewLoop.done = 0
      /\ NewLoop.pending = <<>>
  <2>1. <<>> \in Seq(Functors) /\ 0 \in Nat
    OBVIOUS
  <2>2. NewLoop \in LoopType
    BY <2>1 DEF NewLoop, LoopType
  <2> QED BY <2>2 DEF NewLoop
<1>4. Todo(NewLoop) = <<>>
  <2>1. Todo(NewLoop) = SubSeq(<<>>, 0 + 1, Len(<<>>)) \o <<>>
    BY <1>3 DEF Todo
  <2>2. SubSeq(<<>>, 0 + 1, Len(<<>>)) = <<>>
    BY SubSeqEmpty
  <2> QED BY <2>1, <2>2, ConcatEmptySeq
<1>5. OldTypeOK
  <2>1. threadNum \in 0 .. MaxThreads /\ limit \in Fds /\ next \in 0 .. MaxThreads
    BY Sizes DEF OldInit
  <2>2. loop \in [Loops -> LoopType] /\ conn \in [Conns -> ConnType]
    BY <1>3, NewConnInv DEF OldInit
  <2>3. NoConn \in 0 .. MaxClients
    BY Sizes DEF NoConn
  <2>4. channels \in [Loops -> [Fds -> 0 .. MaxClients]]
    BY <2>3 DEF OldInit
  <2>5. map \in SUBSET Conns /\ backlog \in Seq(Conns)
    BY <1>1
  <2> QED BY <2>1, <2>2, <2>4, <2>5 DEF OldTypeOK
<1>6. \A c \in Conns : ConnInv(conn[c])
  BY <1>1, NewConnInv
<1>7. AcceptInv
  <2>1. 0 \in 0 .. MaxClients /\ \A c \in Conns : conn[c].life # "none" <=> c <= 0
    BY <1>1, <1>2, ConnsAre, Sizes
  <2>2. DOMAIN backlog = {}
    BY <1>1
  <2> QED BY <1>1, <2>1, <2>2 DEF AcceptInv
<1>8. QueueInv
  <2>1. \A l \in Loops : DOMAIN Todo(loop[l]) = {}
    BY <1>1, <1>4
  <2> QED BY <2>1 DEF QueueInv, Unique, Has
<1>9. LoopInv
  <2>1. Len(<<>>) = 0
    OBVIOUS
  <2> QED BY <1>1, <1>3, <2>1 DEF LoopInv
<1>10. ActiveInv
  BY <1>1, <1>3 DEF ActiveInv
<1>11. HolderInv
  BY <1>1, <1>2 DEF HolderInv, Kept
<1>12. Existing = {}
  BY <1>1, <1>2 DEF Existing
<1>13. FdInv /\ ChannelInv
  BY <1>1, <1>2, <1>12 DEF FdInv, ChannelInv
<1> QED BY <1>5, <1>6, <1>7, <1>8, <1>9, <1>10, <1>11, <1>13 DEF OldInv

\* when nothing happens,
LEMMA OldStutterInv ==
  ASSUME OldInv, UNCHANGED oldVars
  PROVE  OldInv'
<1>1. UNCHANGED <<threadNum, limit, next, loop, channels, conn, map, backlog>>
  BY DEF oldVars
<1>2. OldTypeOK' /\ \A c \in Conns : ConnInv(conn'[c])
  BY <1>1 DEF OldInv, OldTypeOK
<1>3. AcceptInv' /\ FdInv' /\ ChannelInv'
  BY <1>1, AcceptSame, PlaceSame
<1>4. QueueInv' /\ HolderInv'
  BY <1>1, QueueSame
<1>5. ActiveInv' /\ LoopInv'
  BY <1>1 DEF OldInv, ActiveInv, LoopInv
<1> QED BY <1>2, <1>3, <1>4, <1>5 DEF OldInv

\* and after every step.
LEMMA OldNextInv ==
  ASSUME OldInv, OldNext
  PROVE  OldInv'
<1>1. CASE \E l \in 0 .. threadNum : LoopStep(l)
  <2>1. PICK l \in Loops : LoopStep(l)
    BY <1>1, RunningLoops
  <2>2. CASE Poll(l)
    BY <2>2, PollPreserves
  <2>3. CASE HandleChannel(l)
    BY <2>3, HandleChannelPreserves
  <2>4. CASE SwapFunctors(l)
    BY <2>4, SwapFunctorsPreserves
  <2>5. CASE RunFunctor(l)
    BY <2>5, RunFunctorPreserves
  <2>6. CASE EndFunctors(l)
    BY <2>6, EndFunctorsPreserves
  <2> QED BY <2>1, <2>2, <2>3, <2>4, <2>5, <2>6 DEF LoopStep
<1>2. CASE ClientConnects
  BY <1>2, ClientConnectsPreserves
<1>3. CASE \E c \in Conns : ClientSends(c) \/ ClientReads(c) \/ ClientCloses(c) \/ ClientResets(c)
  <2>1. PICK c \in Conns : ClientSends(c) \/ ClientReads(c) \/ ClientCloses(c) \/ ClientResets(c)
    BY <1>3
  <2> QED BY <2>1, ClientSendsPreserves, ClientReadsPreserves, ClientEndsPreserves
<1> QED BY <1>1, <1>2, <1>3 DEF OldNext

\* The invariant: types, each connection by itself, and how connections, functors,
\* active channels, the map, the descriptors and the pollers fit together.
THEOREM OldInvariant == OldSpec => []OldInv
<1>1. OldInit => OldInv
  BY OldInitInv
<1>2. OldInv /\ [OldNext]_oldVars => OldInv'
  BY OldNextInv, OldStutterInv
<1> QED BY <1>1, <1>2, PTL DEF OldSpec

\* However send, handleWrite, shutdown and the client's reads and its reset fall
\* together, what was taken for a client is whole answers in their order, and the
\* write side is not shut before all of it is with the kernel.
THEOREM AnswersAlwaysWhole == OldSpec => []AnswersWhole
<1>1. OldInv => AnswersWhole
  BY DEF OldInv, ConnInv, AnswersWhole
<1> QED BY <1>1, OldInvariant, PTL

\* The poller's and the active channels' raw pointers are to connections that exist,
\* under a descriptor of their own, whatever the two loops' functors do meanwhile
\* (handleClose, removeConnection, connectionDestroyed).
THEOREM NothingEverDangles == OldSpec => []NothingDangles
<1>1. OldInv => NothingDangles
  <2> SUFFICES ASSUME OldInv PROVE NothingDangles
    OBVIOUS
  <2>1. ASSUME NEW l \in Loops, NEW f \in Fds, channels[l][f] # NoConn
        PROVE  /\ conn[channels[l][f]].life \in {"up", "closed"}
               /\ conn[channels[l][f]].fd = f /\ conn[channels[l][f]].loop = l
               /\ conn[channels[l][f]].state # "new"
    <3>1. channels[l][f] \in Conns
      BY <2>1, ConnsAre DEF OldInv, OldTypeOK
    <3>2. /\ conn[channels[l][f]].life \in {"up", "closed"}
          /\ conn[channels[l][f]].fd = f /\ conn[channels[l][f]].loop = l
      BY <2>1 DEF OldInv, ChannelInv
    <3> QED BY <3>1, <3>2 DEF OldInv, ConnInv
  <2>2. \A c \in Existing : c \in Conns
    BY DEF Existing
  <2>3. \A c \in Existing : conn[c].life \in {"up", "closed"} =>
          channels[conn[c].loop][conn[c].fd] = c
    BY <2>2 DEF OldInv, ChannelInv
  <2>4. \A l \in Loops : \A a \in loop[l].active :
          a.channel \in Conns => a.channel \in Existing /\ conn[a.channel].life = "up"
    BY DEF OldInv, ActiveInv, Existing
  <2>5. \A c, d \in Existing : conn[c].fd = conn[d].fd => c = d
    BY DEF OldInv, FdInv
  <2>6. \A c \in Conns : conn[c].life = "down" => conn[c].events = {}
    BY DEF OldInv, ConnInv
  <2> QED BY <2>1, <2>3, <2>4, <2>5, <2>6 DEF NothingDangles
<1> QED BY <1>1, OldInvariant, PTL
=============================================================================
