--------------------------- MODULE TcpServer_proofs ---------------------------
(***************************************************************************)
(* Proofs about TcpServer, for any number of I/O threads, descriptors and  *)
(* clients: the types, and that every descriptor has one owner, although   *)
(* their numbers are used again and several loops close them.              *)
(***************************************************************************)
EXTENDS TcpServer, FiniteSetTheorems, SequenceTheorems, TLAPS

(***************************************************************************)
(* The inductive invariant.                                                *)
(***************************************************************************)

\* ~TcpServer has run.
Ended == basePc \in {"quit", "gone"}

\* start and handleConnection: the loop that is being started, the loop that is next,
\* and who has connected.
AcceptInv ==
  /\ basePc = "waitLoop" => loops < threadNum
  /\ next < threadNum \/ (next = 0 /\ threadNum = 0)
  /\ backlog + nextConnId + turnedAway = arrived
  /\ basePc \in {"full", "reserve"} => backlog > 0
  /\ \A c \in Conns : life[c] = "none" <=> c > nextConnId

\* Functor e of loop l: where it may be, and what its connection can have come to.
FunctorInv(l, e) ==
  /\ e.op = "established" =>
       l = loopOf[e.conn] /\ l # Base /\ life[e.conn] = "posted"
  /\ e.op = "remove" =>
       /\ l = Base /\ loopOf[e.conn] # Base
       /\ life[e.conn] \in IF Ended THEN {"closed", "removed"} ELSE {"closed"}
  /\ e.op = "destroyed" =>
       /\ l = loopOf[e.conn]
       /\ life[e.conn] \in IF Ended THEN {"posted", "up", "closed", "erased"} ELSE {"erased"}

\* Two functors of one connection in one loop: it is established, and then destroyed.
OrderInv(l) ==
  \A j, k \in DOMAIN queue[l] : j < k /\ queue[l][j].conn = queue[l][k].conn =>
    queue[l][j].op = "established" /\ queue[l][k].op = "destroyed"

QueueInv ==
  \A l \in Loops : OrderInv(l) /\ \A k \in DOMAIN queue[l] : FunctorInv(l, queue[l][k])

\* On the base loop a connection is established and erased at once, and ~TcpServer
\* frees those that are left.
BaseInv ==
  \A c \in Conns : loopOf[c] = Base =>
    life[c] \notin {"posted", "closed"} /\ (Ended => life[c] # "up")

\* Who has which descriptor.
FdInv ==
  /\ open = {fd[c] : c \in Existing} \cup IdleFds \cup others
  /\ \A c, d \in Existing : fd[c] = fd[d] => c = d
  /\ \A c \in Existing : fd[c] \in Fds /\ fd[c] \notin IdleFds \cup others
  /\ IdleFds \cap others = {}

\* And which connection is in which poller.
ChannelInv ==
  \A l \in Loops, f \in Fds : channels[l][f] # NoConn =>
    LET c == channels[l][f]
    IN  life[c] \in {"up", "closed", "erased"} /\ fd[c] = f /\ loopOf[c] = l

IInv == TypeOK /\ AcceptInv /\ QueueInv /\ BaseInv /\ FdInv /\ ChannelInv

-----------------------------------------------------------------------------
(* Numbers and descriptors.                                                *)

LEMMA LeastNumber ==
  ASSUME NEW S \in SUBSET Nat, S # {}
  PROVE  \E n \in S : \A m \in S : n <= m
<1> DEFINE R == {ss \in Nat \X Nat : ss[1] < ss[2]}
<1>1. IsWellFoundedOn(R, Nat)
  BY NatLessThanWellFounded DEF OpToRel
<1>2. ASSUME NEW x \in Nat, NEW y \in Nat, <<y, x>> \notin R PROVE x <= y
  <2>1. ~(y < x)
    BY <1>2
  <2> QED BY <2>1
<1> HIDE DEF R
<1>3. \E x \in S : \A y \in S : ~ (<<y, x>> \in R)
  BY <1>1, WFMin
<1> QED BY <1>2, <1>3

\* The kernel gives out a descriptor that is free (accept4, open).
LEMMA LowestIsFree ==
  ASSUME TypeOK, ~Exhausted
  PROVE  Lowest \in Fds /\ Lowest \notin open
<1> DEFINE S == Fds \ open
<1>1. S # {} /\ S \in SUBSET Nat
  <2>1. Fds \in SUBSET Nat
    BY LimitAssumption DEF Fds
  <2>2. open \in SUBSET Fds /\ open # Fds
    BY DEF TypeOK, Exhausted
  <2> QED BY <2>1, <2>2
<1> HIDE DEF S
<1>2. \E f \in S : \A g \in S : f <= g
  BY <1>1, LeastNumber
<1>3. \E f \in Fds \ open : \A g \in Fds \ open : f <= g
  BY <1>2 DEF S
<1> QED BY <1>3 DEF Lowest

\* getNextLoop goes round the loops.
LEMMA NextIndexType ==
  ASSUME NEW n \in Nat, NEW m \in Nat, n > 0
  PROVE  (m + 1) % n \in 0 .. n - 1
OBVIOUS

LEMMA NextLoopType ==
  ASSUME TypeOK, AcceptInv
  PROVE  /\ NextLoop \in Loops
         /\ NextLoop # Base => NextIndex < threadNum /\ NextIndex \in 0 .. threadNum
         /\ next < threadNum \/ NextLoop = Base
<1>1. /\ threadNum \in Nat /\ next \in Nat /\ MaxThreadNum \in Nat
      /\ threadNum <= MaxThreadNum /\ (next < threadNum \/ threadNum = 0)
  BY BoundsAssumption DEF TypeOK, AcceptInv
<1>2. CASE threadNum = 0
  BY <1>1, <1>2 DEF NextLoop, Loops
<1>3. CASE threadNum > 0
  <2>1. NextIndex \in 0 .. threadNum - 1
    BY <1>1, <1>3, NextIndexType DEF NextIndex
  <2>2. NextLoop = next + 1 /\ NextLoop \in IoLoops
    BY <1>1, <1>3 DEF NextLoop, IoLoops
  <2> QED BY <1>1, <1>3, <2>1, <2>2 DEF Loops
<1> QED BY <1>1, <1>2, <1>3

\* The connection that is accepted next.
LEMMA NextConn ==
  ASSUME TypeOK, AcceptInv, backlog > 0
  PROVE  /\ nextConnId + 1 \in Conns /\ life[nextConnId + 1] = "none"
         /\ nextConnId + 1 \in 0 .. MaxClients /\ turnedAway + 1 \in 0 .. MaxClients
         /\ backlog - 1 \in 0 .. MaxClients
<1>1. /\ backlog \in Nat /\ nextConnId \in Nat /\ turnedAway \in Nat /\ MaxClients \in Nat
      /\ backlog <= MaxClients
      /\ arrived \in Nat /\ arrived <= MaxClients /\ backlog + nextConnId + turnedAway = arrived
  BY BoundsAssumption DEF TypeOK, AcceptInv
<1>2. nextConnId + 1 \in Conns
  BY <1>1 DEF Conns
<1> QED BY <1>1, <1>2 DEF AcceptInv

-----------------------------------------------------------------------------
(* Types.                                                                  *)

Functors == [op : {"established", "remove", "destroyed"}, conn : Conns]

\* What ~TcpServer queues: a functor for each connection of the loop.
LEMMA DestroyedOnType ==
  ASSUME TypeOK, NEW l \in Loops
  PROVE  /\ DestroyedOn(l) \in Seq(Functors)
         /\ \A k \in DOMAIN DestroyedOn(l) :
              /\ DestroyedOn(l)[k].op = "destroyed"
              /\ DestroyedOn(l)[k].conn \in InMap /\ loopOf[DestroyedOn(l)[k].conn] = l
         /\ \A j, k \in DOMAIN DestroyedOn(l) :
              DestroyedOn(l)[j].conn = DestroyedOn(l)[k].conn => j = k
<1> DEFINE S == {c \in InMap : loopOf[c] = l}
           conns == SetToSeq(S)
           n == Cardinality(S)
<1>1. IsFiniteSet(S)
  <2>1. IsFiniteSet(Conns)
    BY BoundsAssumption, FS_Interval DEF Conns
  <2>2. S \in SUBSET Conns
    BY DEF InMap
  <2> QED BY <2>1, <2>2, FS_Subset
<1> HIDE DEF S
<1>2. n \in Nat /\ \E f \in [1 .. n -> S] : IsInjective(f)
  BY <1>1, FS_CardinalityType DEF ExistsBijection, Bijection, Injection
<1>3. conns \in [1 .. n -> S] /\ IsInjective(conns)
  BY <1>2 DEF SetToSeq
<1> HIDE DEF conns, n
<1>4. DestroyedOn(l) = [k \in 1 .. n |-> Functor("destroyed", conns[k])]
  BY <1>3 DEF DestroyedOn, conns, S
<1>5. \A k \in 1 .. n : conns[k] \in InMap /\ loopOf[conns[k]] = l /\ conns[k] \in Conns
  BY <1>3 DEF S, InMap
<1>6. DestroyedOn(l) \in [1 .. n -> Functors]
  BY <1>4, <1>5 DEF Functor, Functors
<1>7. DestroyedOn(l) \in Seq(Functors)
  BY <1>2, <1>6, SeqDef
<1>8. \A k \in 1 .. n : /\ DestroyedOn(l)[k].op = "destroyed"
                        /\ DestroyedOn(l)[k].conn = conns[k]
  BY <1>4 DEF Functor
<1>9. DOMAIN DestroyedOn(l) = 1 .. n
  BY <1>4
<1>10. \A j, k \in 1 .. n : conns[j] = conns[k] => j = k
  BY <1>3 DEF IsInjective
<1> QED BY <1>5, <1>7, <1>8, <1>9, <1>10

\* The functors in a loop's queue.
LEMMA ElementFacts ==
  ASSUME TypeOK, NEW l \in Loops
  PROVE  /\ queue[l] \in Seq(Functors) /\ Len(queue[l]) \in Nat
         /\ DOMAIN queue[l] = 1 .. Len(queue[l])
         /\ \A k \in DOMAIN queue[l] : queue[l][k] \in Functors
<1>1. queue[l] \in Seq(Functors)
  BY DEF TypeOK, Functors
<1> QED BY <1>1

\* The functor that loop l runs next.
LEMMA HeadFacts ==
  ASSUME TypeOK, QueueInv, NEW l \in Loops, NEW o, NEW c \in Conns, Dequeue(l, o, c)
  PROVE  /\ 1 \in DOMAIN queue[l] /\ queue[l][1] = Functor(o, c)
         /\ FunctorInv(l, Functor(o, c))
         /\ o = "remove" => loopOf[c] # Base
         /\ Base \in Loops
<1>1. queue[l] \in Seq(Functors) /\ queue[l] # <<>> /\ Head(queue[l]) = Functor(o, c)
  BY DEF TypeOK, Dequeue, Functors
<1>2. 1 \in DOMAIN queue[l] /\ queue[l][1] = Functor(o, c)
  BY <1>1
<1>3. FunctorInv(l, Functor(o, c))
  BY <1>2 DEF QueueInv
<1> QED BY <1>2, <1>3 DEF FunctorInv, Functor, Loops

LEMMA TypeStep ==
  ASSUME TypeOK, AcceptInv, QueueInv, [Next]_vars
  PROVE  TypeOK'
<1> USE DEF TypeOK
<1> USE BoundsAssumption
<1>t. queue \in [Loops -> Seq(Functors)]
  BY DEF Functors
<1>u. ASSUME queue' \in [Loops -> Seq(Functors)]
      PROVE  queue' \in [Loops -> Seq([op : {"established", "remove", "destroyed"}, conn : Conns])]
  BY <1>u DEF Functors
<1>f. \A c \in Conns, o \in {"established", "remove", "destroyed"} : Functor(o, c) \in Functors
  BY DEF Functor, Functors
<1>1. CASE StartThread
  BY <1>1 DEF StartThread, connVars, history
<1>2. CASE LoopStarted
  <2>1. loops + 1 \in 0 .. threadNum
    BY <1>2 DEF LoopStarted, AcceptInv
  <2> QED BY <1>2, <2>1 DEF LoopStarted, connVars, history
<1>3. CASE Listen
  BY <1>3 DEF Listen, poolVars, connVars, history
<1>4. ASSUME NEW i \in IoLoops, PublishLoop(i) \/ EnterLoop(i) PROVE TypeOK'
  BY <1>4 DEF PublishLoop, EnterLoop, connVars, history
<1>5. ASSUME NEW i \in IoLoops, LoopEnds(i) PROVE TypeOK'
  <2>1. <<>> \in Seq(Functors)
    OBVIOUS
  <2>2. queue' \in [Loops -> Seq(Functors)]
    BY <1>5, <1>t, <2>1 DEF LoopEnds
  <2>3. /\ threadPc' \in [IoLoops -> {"none", "created", "published", "loop", "ended"}]
        /\ open' \in SUBSET Fds
    BY <1>5 DEF LoopEnds
  <2>4. life' \in [Conns -> Stages]
    BY <1>5 DEF LoopEnds, Stages
  <2>5. channels' \in [Loops -> [Fds -> Conns \cup {NoConn}]]
    BY <1>5 DEF LoopEnds
  <2> QED BY <1>5, <1>u, <2>2, <2>3, <2>4, <2>5 DEF LoopEnds, history
<1>6. CASE Accept
  <2> DEFINE c == nextConnId + 1
  <2>1. /\ c \in Conns /\ c \in 0 .. MaxClients /\ backlog - 1 \in 0 .. MaxClients
        /\ Lowest \in Fds /\ NextLoop \in Loops /\ Base \in Loops
        /\ NextLoop # Base => NextIndex \in 0 .. threadNum
    BY <1>6, NextConn, LowestIsFree, NextLoopType DEF Accept, Loops
  <2> HIDE DEF c
  <2>2. /\ nextConnId' = c /\ backlog' = backlog - 1 /\ open' = open \cup {Lowest}
        /\ fd' = [fd EXCEPT ![c] = Lowest] /\ loopOf' = [loopOf EXCEPT ![c] = NextLoop]
        /\ UNCHANGED <<threadNum, basePc, loops, threadPc, quit, idleFd, others, history>>
    BY <1>6 DEF Accept, c
  <2>3. fd' \in [Conns -> Fds \cup {NoFd}] /\ loopOf' \in [Conns -> Loops] /\ open' \in SUBSET Fds
    BY <2>1, <2>2
  <2>4. CASE NextLoop = Base
    <3>1. /\ life' = [life EXCEPT ![c] = "up"]
          /\ channels' = [channels EXCEPT ![Base][Lowest] = c]
          /\ UNCHANGED <<queue, next>>
      BY <1>6, <2>4 DEF Accept, Establish, c
    <3>2. life' \in [Conns -> Stages] /\ channels' \in [Loops -> [Fds -> Conns \cup {NoConn}]]
      BY <2>1, <3>1 DEF Stages
    <3> QED BY <2>1, <2>2, <2>3, <3>1, <3>2 DEF history
  <2>5. CASE NextLoop # Base
    <3>1. /\ life' = [life EXCEPT ![c] = "posted"]
          /\ queue' = [queue EXCEPT ![NextLoop] = Append(@, Functor("established", c))]
          /\ next' = NextIndex /\ UNCHANGED channels
      BY <1>6, <2>5 DEF Accept, c
    <3>2. life' \in [Conns -> Stages]
      BY <2>1, <3>1 DEF Stages
    <3>3. Append(queue[NextLoop], Functor("established", c)) \in Seq(Functors)
      BY <1>t, <1>f, <2>1
    <3>4. queue' \in [Loops -> Seq(Functors)]
      BY <1>t, <3>1, <3>3
    <3> QED BY <1>u, <2>1, <2>2, <2>3, <2>5, <3>1, <3>2, <3>4 DEF history
  <2> QED BY <2>4, <2>5
<1>7. CASE AcceptFails
  BY <1>7 DEF AcceptFails, poolVars, connVars, history
<1>8. CASE CloseIdle \/ CloseDropped
  BY <1>8 DEF CloseIdle, CloseDropped, poolVars, connVars, history
<1>9. CASE AcceptIdle
  <2>1. basePc = "reserve" /\ basePc' = "drop" /\ UNCHANGED <<poolVars, others, connVars, arrived>>
    BY <1>9 DEF AcceptIdle
  <2>2. CASE Exhausted
    BY <1>9, <2>1, <2>2 DEF AcceptIdle, poolVars, connVars
  <2>3. CASE ~Exhausted
    <3>1. backlog - 1 \in 0 .. MaxClients /\ turnedAway + 1 \in 0 .. MaxClients /\ Lowest \in Fds
      BY <2>1, <2>3, NextConn, LowestIsFree DEF AcceptInv
    <3>2. /\ idleFd' = Lowest /\ open' = open \cup {Lowest} /\ backlog' = backlog - 1
          /\ turnedAway' = turnedAway + 1 /\ reserveTaken' = reserveTaken
      BY <1>9, <2>3 DEF AcceptIdle
    <3> QED BY <2>1, <3>1, <3>2 DEF poolVars, connVars
  <2> QED BY <2>2, <2>3
<1>10. CASE ReopenIdle
  BY <1>10, LowestIsFree DEF ReopenIdle, poolVars, connVars
<1>11. ASSUME NEW l \in Loops, NEW c \in Conns, ConnectionEstablished(l, c) PROVE TypeOK'
  <2>1. /\ queue[l] \in Seq(Functors) /\ queue[l] # <<>> /\ Head(queue[l]) = Functor("established", c)
        /\ queue' = [queue EXCEPT ![l] = Tail(@)]
        /\ life' = [life EXCEPT ![c] = "up"]
        /\ channels' = [channels EXCEPT ![l][fd[c]] = c]
    BY <1>11, <1>t DEF ConnectionEstablished, Dequeue, Establish
  <2>2. Tail(queue[l]) \in Seq(Functors)
    BY <2>1
  <2>3. queue' \in [Loops -> Seq(Functors)] /\ life' \in [Conns -> Stages]
    BY <1>t, <2>1, <2>2 DEF Stages
  <2>4. channels' \in [Loops -> [Fds -> Conns \cup {NoConn}]]
    BY <2>1
  <2> QED BY <1>11, <1>u, <2>3, <2>4 DEF ConnectionEstablished, poolVars, history
<1>12. ASSUME NEW c \in Conns, RemoveConnectionInLoop(c) PROVE TypeOK'
  <2>1. /\ Base \in Loops /\ queue[Base] \in Seq(Functors) /\ queue[Base] # <<>>
        /\ queue' = [queue EXCEPT ![Base] = Tail(@),
                                  ![loopOf[c]] = Append(@, Functor("destroyed", c))]
        /\ life' = [life EXCEPT ![c] = "erased"]
    BY <1>12, <1>t DEF RemoveConnectionInLoop, Dequeue, Loops
  <2>2. loopOf[c] # Base /\ loopOf[c] \in Loops
    BY <1>12, HeadFacts DEF RemoveConnectionInLoop
  <2>3. Tail(queue[Base]) \in Seq(Functors)
    BY <2>1
  <2>4. Append(queue[loopOf[c]], Functor("destroyed", c)) \in Seq(Functors)
    BY <1>t, <1>f, <2>2
  <2>5. queue' \in [Loops -> Seq(Functors)]
    BY <1>t, <2>1, <2>2, <2>3, <2>4
  <2>6. life' \in [Conns -> Stages]
    BY <2>1 DEF Stages
  <2> QED BY <1>12, <1>u, <2>5, <2>6 DEF RemoveConnectionInLoop, poolVars, history
<1>13. ASSUME NEW l \in Loops, NEW c \in Conns, ConnectionDestroyed(l, c) PROVE TypeOK'
  <2>1. /\ queue[l] \in Seq(Functors) /\ queue[l] # <<>>
        /\ queue' = [queue EXCEPT ![l] = Tail(@)]
        /\ life' = [life EXCEPT ![c] = "removed"]
        /\ channels' = [channels EXCEPT ![l][fd[c]] = NoConn]
    BY <1>13, <1>t DEF ConnectionDestroyed, Dequeue
  <2>2. Tail(queue[l]) \in Seq(Functors)
    BY <2>1
  <2>3. queue' \in [Loops -> Seq(Functors)] /\ life' \in [Conns -> Stages]
    BY <1>t, <2>1, <2>2 DEF Stages
  <2>4. channels' \in [Loops -> [Fds -> Conns \cup {NoConn}]]
    BY <2>1
  <2> QED BY <1>13, <1>u, <2>3, <2>4 DEF ConnectionDestroyed, poolVars, history
<1>14. ASSUME NEW c \in Conns, HandleClose(c) PROVE TypeOK'
  <2>1. Base \in Loops /\ \A o \in {"remove", "destroyed"} : Append(queue[Base], Functor(o, c)) \in Seq(Functors)
    BY <1>t, <1>f DEF Loops
  <2>2. queue' \in [Loops -> Seq(Functors)] /\ life' \in [Conns -> Stages]
    BY <1>14, <1>t, <2>1 DEF HandleClose, Stages
  <2> QED BY <1>14, <1>u, <2>2 DEF HandleClose, poolVars, history
<1>15. ASSUME NEW c \in Conns, Free(c) PROVE TypeOK'
  <2>1. life' \in [Conns -> Stages] /\ open' \in SUBSET Fds
    BY <1>15 DEF Free, Stages
  <2> QED BY <1>15, <2>1 DEF Free, poolVars, history
<1>16. CASE Destroy
  <2> DEFINE here == {c \in InMap : loopOf[c] = Base}
  <2>1. /\ queue' = [l \in Loops |-> IF l = Base THEN queue[l] ELSE queue[l] \o DestroyedOn(l)]
        /\ life' = [c \in Conns |-> IF c \in here THEN "freed" ELSE life[c]]
        /\ open' = open \ {fd[c] : c \in here}
        /\ channels' = [channels EXCEPT ![Base] =
                          [f \in Fds |-> IF @[f] \in here THEN NoConn ELSE @[f]]]
    BY <1>16 DEF Destroy
  <2> HIDE DEF here
  <2>2. ASSUME NEW l \in Loops PROVE queue[l] \o DestroyedOn(l) \in Seq(Functors)
    <3>1. queue[l] \in Seq(Functors) /\ DestroyedOn(l) \in Seq(Functors)
      BY <1>t, DestroyedOnType
    <3> HIDE DEF TypeOK
    <3> QED BY <3>1
  <2>3. queue' \in [Loops -> Seq(Functors)]
    BY <1>t, <2>1, <2>2
  <2>4. life' \in [Conns -> Stages] /\ open' \in SUBSET Fds
    BY <2>1 DEF Stages
  <2>5. channels' \in [Loops -> [Fds -> Conns \cup {NoConn}]]
    BY <2>1
  <2> QED BY <1>16, <1>u, <2>3, <2>4, <2>5 DEF Destroy, poolVars, history
<1>17. CASE QuitLoop
  <2>1. quit + 1 \in 0 .. threadNum
    BY <1>17 DEF QuitLoop
  <2> QED BY <1>17, <2>1 DEF QuitLoop, connVars, history
<1>18. CASE Gone
  BY <1>18 DEF Gone, poolVars, connVars, history
<1>19. CASE ClientConnects
  <2>1. arrived + 1 \in 0 .. MaxClients /\ backlog + 1 \in 0 .. MaxClients
    BY <1>19 DEF ClientConnects, AcceptInv
  <2> QED BY <1>19, <2>1 DEF ClientConnects, poolVars, connVars
<1>20. CASE OtherOpens
  BY <1>20, LowestIsFree DEF OtherOpens, poolVars, connVars, history
<1>21. CASE OtherCloses
  BY <1>21 DEF OtherCloses, poolVars, connVars, history
<1>22. CASE UNCHANGED vars
  BY <1>22 DEF vars
<1> QED
  BY <1>1, <1>2, <1>3, <1>4, <1>5, <1>6, <1>7, <1>8, <1>9, <1>10, <1>11, <1>12, <1>13, <1>14,
     <1>15, <1>16, <1>17, <1>18, <1>19, <1>20, <1>21, <1>22 DEF Next, HandleConnection, RunFunctor

-----------------------------------------------------------------------------
(* Who has connected.                                                      *)

\* Most steps neither accept nor start a loop.
LEMMA QuietAccept ==
  ASSUME AcceptInv,
         UNCHANGED <<threadNum, loops, next, backlog, nextConnId, turnedAway, arrived>>,
         basePc' \in {"waitLoop", "full", "reserve"} => basePc' = basePc,
         \A c \in Conns : life'[c] = "none" <=> life[c] = "none"
  PROVE  AcceptInv'
BY DEF AcceptInv

\* The steps of a connection's life after it was made.
LEMMA LaterStages ==
  ASSUME TypeOK, QueueInv, NEW d \in Conns, life'[d] # life[d],
         \/ \E l \in Loops, c \in Conns : RunFunctor(l, c)
         \/ \E c \in Conns : HandleClose(c) \/ Free(c)
         \/ Destroy \/ \E i \in IoLoops : LoopEnds(i)
  PROVE  life[d] \notin {"none", "freed"} /\ life'[d] # "none"
<1> USE DEF TypeOK
<1>1. ASSUME NEW l \in Loops, NEW c \in Conns, RunFunctor(l, c)
      PROVE  life[d] \notin {"none", "freed"} /\ life'[d] # "none"
  <2>1. d = c
    BY <1>1 DEF RunFunctor, ConnectionEstablished, RemoveConnectionInLoop, ConnectionDestroyed,
                Establish
  <2>2. \E o \in {"established", "remove", "destroyed"} :
          FunctorInv(l, Functor(o, c)) /\ Functor(o, c).op = o /\ Functor(o, c).conn = c
    BY <1>1, HeadFacts DEF RunFunctor, ConnectionEstablished, RemoveConnectionInLoop,
                ConnectionDestroyed, Functor
  <2>3. life[c] \notin {"none", "freed"}
    BY <2>2 DEF FunctorInv
  <2>4. life'[c] \in {"up", "erased", "removed"}
    BY <1>1 DEF RunFunctor, ConnectionEstablished, RemoveConnectionInLoop, ConnectionDestroyed,
                Establish
  <2> QED BY <2>1, <2>3, <2>4
<1>2. ASSUME NEW c \in Conns, HandleClose(c) \/ Free(c)
      PROVE  life[d] \notin {"none", "freed"} /\ life'[d] # "none"
  BY <1>2 DEF HandleClose, Free
<1>3. CASE Destroy
  <2>1. life'[d] = "freed" /\ d \in InMap
    BY <1>3 DEF Destroy
  <2> QED BY <2>1 DEF InMap
<1>4. ASSUME NEW i \in IoLoops, LoopEnds(i)
      PROVE  life[d] \notin {"none", "freed"} /\ life'[d] # "none"
  <2>1. life'[d] = "freed" /\ d \in HeldBy(i) /\ i \in Loops
    BY <1>4 DEF LoopEnds, Loops
  <2>2. PICK k \in DOMAIN queue[i] : queue[i][k].conn = d
    BY <2>1 DEF HeldBy
  <2>3. FunctorInv(i, queue[i][k])
    BY <2>1 DEF QueueInv
  <2>4. queue[i][k].op \in {"established", "remove", "destroyed"}
    BY <2>1, <2>2, ElementFacts DEF Functors
  <2> QED BY <2>1, <2>2, <2>3, <2>4 DEF FunctorInv
<1> QED BY <1>1, <1>2, <1>3, <1>4

LEMMA AcceptStep ==
  ASSUME TypeOK, AcceptInv, QueueInv, [Next]_vars
  PROVE  AcceptInv'
<1>0. /\ backlog \in Nat /\ nextConnId \in Nat /\ turnedAway \in Nat /\ arrived \in Nat
      /\ Conns \subseteq Nat
  BY BoundsAssumption DEF TypeOK, Conns
<1>1. ASSUME UNCHANGED <<threadNum, loops, next, backlog, nextConnId, turnedAway, arrived, life>>,
             basePc' \in {"waitLoop", "full", "reserve"} => basePc' = basePc
      PROVE  AcceptInv'
  BY <1>1, QuietAccept
<1>2. CASE StartThread
  BY <1>2 DEF StartThread, AcceptInv, connVars, history
<1>3. CASE LoopStarted
  BY <1>3 DEF LoopStarted, AcceptInv, connVars, history
<1>4. CASE \/ Listen \/ CloseDropped \/ ReopenIdle \/ QuitLoop \/ Gone \/ OtherOpens \/ OtherCloses
           \/ \E i \in IoLoops : PublishLoop(i) \/ EnterLoop(i)
  BY <1>1, <1>4 DEF Listen, CloseDropped, ReopenIdle, QuitLoop, Gone, OtherOpens,
     OtherCloses, PublishLoop, EnterLoop, poolVars, connVars, history
<1>5. CASE AcceptFails \/ CloseIdle
  BY <1>5 DEF AcceptFails, CloseIdle, AcceptInv, poolVars, connVars, history
<1>6. CASE AcceptIdle
  <2>1. /\ basePc' = "drop" /\ backlog > 0 /\ UNCHANGED <<threadNum, loops, next, nextConnId, life, arrived>>
        /\ \/ UNCHANGED <<backlog, turnedAway>>
           \/ backlog' = backlog - 1 /\ turnedAway' = turnedAway + 1
    BY <1>6 DEF AcceptIdle, AcceptInv, poolVars, connVars
  <2>2. backlog' + nextConnId' + turnedAway' = arrived'
    BY <1>0, <2>1 DEF AcceptInv
  <2> QED BY <2>1, <2>2 DEF AcceptInv
<1>7. CASE ClientConnects
  <2>1. /\ basePc' = basePc /\ backlog' = backlog + 1 /\ arrived' = arrived + 1
        /\ UNCHANGED <<threadNum, loops, next, nextConnId, life, turnedAway>>
    BY <1>7 DEF ClientConnects, poolVars, connVars
  <2>2. backlog' + nextConnId' + turnedAway' = arrived' /\ backlog' > 0
    BY <1>0, <2>1 DEF AcceptInv
  <2> QED BY <2>1, <2>2 DEF AcceptInv
<1>8. CASE Accept
  <2> DEFINE c == nextConnId + 1
  <2>1. /\ c \in Conns /\ life[c] = "none"
        /\ basePc' = "poll" /\ backlog' = backlog - 1 /\ nextConnId' = c
        /\ UNCHANGED <<threadNum, loops, turnedAway, arrived>>
    BY <1>8, NextConn DEF Accept, history
  <2>2. backlog' + nextConnId' + turnedAway' = arrived'
    BY <1>0, <2>1 DEF AcceptInv
  <2>3. next' < threadNum' \/ (next' = 0 /\ threadNum' = 0)
    <3>1. CASE NextLoop = Base
      BY <1>8, <2>1, <3>1 DEF Accept, AcceptInv
    <3>2. CASE NextLoop # Base
      BY <1>8, <2>1, <3>2, NextLoopType DEF Accept
    <3> QED BY <3>1, <3>2
  <2>4. \A d \in Conns : life'[d] = "none" <=> (life[d] = "none" /\ d # c)
    BY <1>8, <2>1 DEF Accept, Establish, TypeOK
  <2>5. \A d \in Conns : life'[d] = "none" <=> d > nextConnId'
    BY <1>0, <2>1, <2>4 DEF AcceptInv
  <2> QED BY <2>1, <2>2, <2>3, <2>5 DEF AcceptInv
<1>9. CASE \/ \E l \in Loops, c \in Conns : RunFunctor(l, c)
           \/ \E c \in Conns : HandleClose(c) \/ Free(c)
           \/ Destroy \/ \E i \in IoLoops : LoopEnds(i)
  <2>1. /\ UNCHANGED <<threadNum, loops, next, backlog, nextConnId, turnedAway, arrived>>
        /\ basePc' \in {"waitLoop", "full", "reserve"} => basePc' = basePc
    BY <1>9 DEF RunFunctor, ConnectionEstablished, RemoveConnectionInLoop, ConnectionDestroyed,
       HandleClose, Free, Destroy, LoopEnds, poolVars, history
  <2>2. \A d \in Conns : life'[d] = "none" <=> life[d] = "none"
    BY <1>9, LaterStages
  <2> QED BY <2>1, <2>2, QuietAccept
<1>10. CASE UNCHANGED vars
  BY <1>1, <1>10 DEF vars
<1> QED BY <1>2, <1>3, <1>4, <1>5, <1>6, <1>7, <1>8, <1>9, <1>10 DEF Next, HandleConnection

-----------------------------------------------------------------------------
(* Queues.                                                                 *)

\* What a functor may be does not change with other connections.
LEMMA SameFunctor ==
  ASSUME NEW l, NEW e, FunctorInv(l, e), Ended' = Ended,
         life'[e.conn] = life[e.conn], loopOf'[e.conn] = loopOf[e.conn]
  PROVE  FunctorInv(l, e)'
BY DEF FunctorInv

\* A functor's connection was made and has not been freed.
LEMMA FunctorFacts ==
  ASSUME TypeOK, QueueInv, NEW l \in Loops, NEW k \in DOMAIN queue[l]
  PROVE  /\ queue[l][k] \in Functors /\ FunctorInv(l, queue[l][k])
         /\ queue[l][k].conn \in Existing
         /\ queue[l][k].op # "remove" => loopOf[queue[l][k].conn] = l
<1>1. queue[l][k] \in Functors /\ FunctorInv(l, queue[l][k])
  BY ElementFacts DEF QueueInv
<1> QED BY <1>1 DEF FunctorInv, Functors, Existing

\* A queue's first functor is taken.
LEMMA TailElements ==
  ASSUME NEW S, NEW q \in Seq(S), q # <<>>
  PROVE  /\ DOMAIN Tail(q) = 1 .. Len(q) - 1
         /\ \A k \in DOMAIN Tail(q) : k + 1 \in DOMAIN q /\ Tail(q)[k] = q[k + 1] /\ k + 1 > 1
OBVIOUS

\* A queue gets another functor behind its own.
LEMMA AppendElements ==
  ASSUME NEW S, NEW q \in Seq(S), NEW e \in S
  PROVE  /\ DOMAIN Append(q, e) = 1 .. Len(q) + 1 /\ Len(q) \in Nat
         /\ Append(q, e)[Len(q) + 1] = e
         /\ \A k \in DOMAIN q : Append(q, e)[k] = q[k]
OBVIOUS

LEMMA TailInOrder ==
  ASSUME TypeOK, QueueInv, NEW l \in Loops, queue[l] # <<>>, queue'[l] = Tail(queue[l])
  PROVE  OrderInv(l)'
<1>1. queue[l] \in Seq(Functors)
  BY ElementFacts
<1>2. SUFFICES ASSUME NEW j \in DOMAIN queue'[l], NEW k \in DOMAIN queue'[l], j < k,
                      queue'[l][j].conn = queue'[l][k].conn
               PROVE  queue'[l][j].op = "established" /\ queue'[l][k].op = "destroyed"
  BY DEF OrderInv
<1>3. /\ j + 1 \in DOMAIN queue[l] /\ queue'[l][j] = queue[l][j + 1]
      /\ k + 1 \in DOMAIN queue[l] /\ queue'[l][k] = queue[l][k + 1]
  BY <1>1, TailElements
<1>4. j + 1 < k + 1
  <2>1. j \in Nat /\ k \in Nat
    BY <1>1
  <2> QED BY <1>2, <2>1
<1> QED BY <1>2, <1>3, <1>4 DEF QueueInv, OrderInv

LEMMA AppendInOrder ==
  ASSUME TypeOK, QueueInv, NEW l \in Loops, NEW e \in Functors,
         queue'[l] = Append(queue[l], e),
         \A k \in DOMAIN queue[l] : queue[l][k].conn # e.conn
  PROVE  OrderInv(l)'
<1>1. queue[l] \in Seq(Functors) /\ DOMAIN queue[l] = 1 .. Len(queue[l]) /\ Len(queue[l]) \in Nat
  BY ElementFacts
<1>2. SUFFICES ASSUME NEW j \in DOMAIN queue'[l], NEW k \in DOMAIN queue'[l], j < k,
                      queue'[l][j].conn = queue'[l][k].conn
               PROVE  queue'[l][j].op = "established" /\ queue'[l][k].op = "destroyed"
  BY DEF OrderInv
<1>3. /\ j \in 1 .. Len(queue[l]) + 1 /\ k \in 1 .. Len(queue[l]) + 1
      /\ queue'[l][Len(queue[l]) + 1] = e
      /\ \A m \in DOMAIN queue[l] : queue'[l][m] = queue[l][m]
  BY <1>1, AppendElements
<1>4. j \in DOMAIN queue[l]
  BY <1>1, <1>2, <1>3
<1>5. k \in DOMAIN queue[l]
  BY <1>1, <1>2, <1>3, <1>4
<1> QED BY <1>2, <1>3, <1>4, <1>5 DEF QueueInv, OrderInv

\* The invariant of the queues and of the base loop's connections, for a step that
\* touches neither.
LEMMA QuietQueue ==
  ASSUME QueueInv, BaseInv, UNCHANGED <<queue, life, loopOf>>, Ended' = Ended
  PROVE  QueueInv' /\ BaseInv'
<1>1. BaseInv'
  BY DEF BaseInv
<1>2. QueueInv'
  BY DEF QueueInv, OrderInv, FunctorInv
<1> QED BY <1>1, <1>2

InQueue(l, e) == \E k \in DOMAIN queue[l] : queue[l][k] = e

LEMMA OfQueue ==
  ASSUME TypeOK, QueueInv, NEW l \in Loops, NEW e \in Functors, InQueue(l, e)
  PROVE  FunctorInv(l, e)
BY DEF QueueInv, InQueue

\* The invariant of the queues, functor by functor.
LEMMA QueuesKept ==
  ASSUME TypeOK', \A l \in Loops : OrderInv(l)',
         \A l \in Loops, e \in Functors : InQueue(l, e)' => FunctorInv(l, e)'
  PROVE  QueueInv'
<1>1. SUFFICES ASSUME NEW l \in Loops, NEW k \in DOMAIN queue'[l]
               PROVE  FunctorInv(l, queue[l][k])'
  BY DEF QueueInv
<1>2. queue'[l] \in Seq(Functors)
  BY DEF TypeOK, Functors
<1>3. queue'[l][k] \in Functors
  BY <1>2
<1> QED BY <1>3 DEF InQueue, FunctorInv

LEMMA SameOrder ==
  ASSUME QueueInv, NEW l \in Loops, queue'[l] = queue[l]
  PROVE  OrderInv(l)'
BY DEF QueueInv, OrderInv

LEMMA InTail ==
  ASSUME TypeOK, NEW l \in Loops, queue[l] # <<>>, queue'[l] = Tail(queue[l]), NEW e,
         InQueue(l, e)'
  PROVE  \E k \in DOMAIN queue[l] : 1 < k /\ queue[l][k] = e
<1>1. queue[l] \in Seq(Functors)
  BY ElementFacts
<1>2. PICK k \in DOMAIN queue'[l] : queue'[l][k] = e
  BY DEF InQueue
<1>3. k + 1 \in DOMAIN queue[l] /\ queue[l][k + 1] = e /\ 1 < k + 1
  BY <1>1, <1>2, TailElements
<1> QED BY <1>3

LEMMA InAppend ==
  ASSUME TypeOK, NEW l \in Loops, NEW f \in Functors, queue'[l] = Append(queue[l], f), NEW e,
         InQueue(l, e)'
  PROVE  InQueue(l, e) \/ e = f
<1>1. queue[l] \in Seq(Functors) /\ DOMAIN queue[l] = 1 .. Len(queue[l])
  BY ElementFacts
<1>2. PICK k \in DOMAIN queue'[l] : queue'[l][k] = e
  BY DEF InQueue
<1>3. k \in DOMAIN queue[l] \/ k = Len(queue[l]) + 1
  BY <1>1, <1>2, AppendElements
<1> QED BY <1>1, <1>2, <1>3, AppendElements DEF InQueue

\* A connection's own functors when the first of them is taken.
LEMMA BehindHead ==
  ASSUME TypeOK, QueueInv, NEW l \in Loops, NEW o, NEW c \in Conns, Dequeue(l, o, c),
         queue'[l] = Tail(queue[l]), NEW e \in Functors, e.conn = c, InQueue(l, e)'
  PROVE  o = "established" /\ e.op = "destroyed" /\ InQueue(l, e)
<1>1. 1 \in DOMAIN queue[l] /\ queue[l][1] = Functor(o, c) /\ queue[l] # <<>>
  BY HeadFacts DEF Dequeue
<1>2. PICK k \in DOMAIN queue[l] : 1 < k /\ queue[l][k] = e
  BY <1>1, InTail
<1>3. OrderInv(l)
  BY DEF QueueInv
<1> QED BY <1>1, <1>2, <1>3 DEF OrderInv, Functor, InQueue

-----------------------------------------------------------------------------
(* Each step and the queues.                                               *)

LEMMA AcceptQueues ==
  ASSUME TypeOK, TypeOK', AcceptInv, QueueInv, BaseInv, Accept
  PROVE  QueueInv' /\ BaseInv'
<1> DEFINE c == nextConnId + 1
<1>1. /\ c \in Conns /\ life[c] = "none" /\ NextLoop \in Loops
      /\ basePc = "poll" /\ basePc' = basePc
      /\ loopOf' = [loopOf EXCEPT ![c] = NextLoop]
  BY NextConn, NextLoopType DEF Accept
<1>2. /\ NextLoop = Base => life' = [life EXCEPT ![c] = "up"] /\ queue' = queue
      /\ NextLoop # Base =>
           /\ queue' = [queue EXCEPT ![NextLoop] = Append(@, Functor("established", c))]
           /\ life' = [life EXCEPT ![c] = "posted"]
  BY DEF Accept, Establish
<1> HIDE DEF c
<1>3. /\ loopOf'[c] = NextLoop /\ life'[c] \in {"up", "posted"} /\ (life'[c] = "posted" <=> NextLoop # Base)
      /\ \A d \in Conns \ {c} : loopOf'[d] = loopOf[d] /\ life'[d] = life[d]
  BY <1>1, <1>2 DEF TypeOK
<1>4. BaseInv'
  BY <1>1, <1>3 DEF BaseInv, Ended
<1>5. ASSUME NEW l \in Loops, NEW e \in Functors, InQueue(l, e)
      PROVE  e.conn # c /\ FunctorInv(l, e)'
  <2>1. FunctorInv(l, e) /\ e.op \in {"established", "remove", "destroyed"} /\ e.conn \in Conns
    BY <1>5, OfQueue DEF Functors
  <2>2. e.conn # c
    BY <1>1, <2>1 DEF FunctorInv
  <2> QED BY <1>1, <1>3, <2>1, <2>2 DEF FunctorInv, Ended
<1>6. CASE NextLoop = Base
  <2>1. queue' = queue
    BY <1>2, <1>6
  <2>2. \A l \in Loops : OrderInv(l)'
    BY <2>1, SameOrder
  <2>3. \A l \in Loops, e \in Functors : InQueue(l, e)' => FunctorInv(l, e)'
    BY <1>5, <2>1 DEF InQueue
  <2> QED BY <1>4, <2>2, <2>3, QueuesKept
<1>7. CASE NextLoop # Base
  <2> DEFINE f == Functor("established", c)
  <2>1. /\ f \in Functors /\ f.conn = c /\ f.op = "established"
        /\ queue'[NextLoop] = Append(queue[NextLoop], f)
        /\ \A l \in Loops \ {NextLoop} : queue'[l] = queue[l]
    BY <1>1, <1>2, <1>7 DEF Functor, Functors, TypeOK
  <2> HIDE DEF f
  <2>2. \A k \in DOMAIN queue[NextLoop] : queue[NextLoop][k].conn # f.conn
    BY <1>1, <1>5, <2>1, ElementFacts DEF InQueue
  <2>3. \A l \in Loops : OrderInv(l)'
    BY <1>1, <2>1, <2>2, AppendInOrder, SameOrder
  <2>4. ASSUME NEW l \in Loops, NEW e \in Functors, InQueue(l, e)' PROVE FunctorInv(l, e)'
    <3>1. CASE InQueue(l, e)
      BY <1>5, <3>1
    <3>2. CASE ~InQueue(l, e)
      <4>1. l = NextLoop
        BY <2>1, <2>4, <3>2 DEF InQueue
      <4>2. e = f
        BY <2>1, <2>4, <3>2, <4>1, InAppend
      <4> QED BY <1>3, <1>7, <2>1, <4>1, <4>2 DEF FunctorInv
    <3> QED BY <3>1, <3>2
  <2> QED BY <1>4, <2>3, <2>4, QueuesKept
<1> QED BY <1>6, <1>7

LEMMA HandleCloseQueues ==
  ASSUME TypeOK, TypeOK', QueueInv, BaseInv, NEW c \in Conns, HandleClose(c)
  PROVE  QueueInv' /\ BaseInv'
<1> DEFINE here == loopOf[c] = Base
           f == Functor(IF here THEN "destroyed" ELSE "remove", c)
<1>1. /\ life[c] = "up" /\ basePc' = basePc /\ loopOf' = loopOf
      /\ life' = [life EXCEPT ![c] = IF here THEN "erased" ELSE "closed"]
      /\ queue' = [queue EXCEPT ![Base] = Append(@, f)]
  BY DEF HandleClose
<1>2. /\ f \in Functors /\ f.conn = c /\ f.op = (IF here THEN "destroyed" ELSE "remove")
      /\ Base \in Loops
      /\ queue'[Base] = Append(queue[Base], f) /\ \A l \in Loops \ {Base} : queue'[l] = queue[l]
      /\ life'[c] = IF here THEN "erased" ELSE "closed"
      /\ \A d \in Conns \ {c} : life'[d] = life[d]
  BY <1>1 DEF Functor, Functors, TypeOK, Loops
<1>3. here => ~Ended
  BY <1>1 DEF BaseInv
<1> HIDE DEF f
<1>4. BaseInv'
  BY <1>1, <1>2, <1>3 DEF BaseInv, Ended
<1>5. ASSUME NEW l \in Loops, NEW e \in Functors, InQueue(l, e)
      PROVE  (l = Base => e.conn # c) /\ FunctorInv(l, e)'
  <2>1. FunctorInv(l, e) /\ e.op \in {"established", "remove", "destroyed"} /\ e.conn \in Conns
    BY <1>5, OfQueue DEF Functors
  <2>2. CASE e.conn = c
    <3>1. e.op = "destroyed" /\ l = loopOf[c] /\ Ended
      BY <1>1, <2>1, <2>2 DEF FunctorInv
    <3> QED BY <1>1, <1>2, <1>3, <2>2, <3>1 DEF FunctorInv, Ended
  <2>3. CASE e.conn # c
    BY <1>1, <1>2, <2>1, <2>3 DEF FunctorInv, Ended
  <2> QED BY <2>2, <2>3
<1>6. \A k \in DOMAIN queue[Base] : queue[Base][k].conn # f.conn
  BY <1>2, <1>5, ElementFacts DEF InQueue
<1>7. \A l \in Loops : OrderInv(l)'
  BY <1>2, <1>6, AppendInOrder, SameOrder
<1>8. ASSUME NEW l \in Loops, NEW e \in Functors, InQueue(l, e)' PROVE FunctorInv(l, e)'
  <2>1. CASE InQueue(l, e)
    BY <1>5, <2>1
  <2>2. CASE ~InQueue(l, e)
    <3>1. l = Base
      BY <1>2, <1>8, <2>2 DEF InQueue
    <3>2. e = f
      BY <1>2, <1>8, <2>2, <3>1, InAppend
    <3> QED BY <1>1, <1>2, <3>1, <3>2 DEF FunctorInv, Ended
  <2> QED BY <2>1, <2>2
<1> QED BY <1>4, <1>7, <1>8, QueuesKept

LEMMA EstablishedQueues ==
  ASSUME TypeOK, TypeOK', QueueInv, BaseInv, NEW l \in Loops, NEW c \in Conns,
         ConnectionEstablished(l, c)
  PROVE  QueueInv' /\ BaseInv'
<1>1. /\ Dequeue(l, "established", c) /\ queue[l] # <<>>
      /\ basePc' = basePc /\ loopOf' = loopOf
      /\ queue' = [queue EXCEPT ![l] = Tail(@)] /\ life' = [life EXCEPT ![c] = "up"]
  BY DEF ConnectionEstablished, Establish, Dequeue
<1>2. /\ queue'[l] = Tail(queue[l]) /\ \A m \in Loops \ {l} : queue'[m] = queue[m]
      /\ life'[c] = "up" /\ \A d \in Conns \ {c} : life'[d] = life[d]
  BY <1>1 DEF TypeOK
<1>3. l = loopOf[c] /\ l # Base /\ life[c] = "posted"
  <2>1. FunctorInv(l, Functor("established", c))
    BY <1>1, HeadFacts
  <2>2. Functor("established", c).op = "established" /\ Functor("established", c).conn = c
    BY DEF Functor
  <2> QED BY <2>1, <2>2 DEF FunctorInv
<1>4. BaseInv'
  BY <1>1, <1>2, <1>3 DEF BaseInv, Ended
<1>5. \A m \in Loops : OrderInv(m)'
  BY <1>1, <1>2, TailInOrder, SameOrder
<1>6. ASSUME NEW m \in Loops, NEW e \in Functors, InQueue(m, e)' PROVE FunctorInv(m, e)'
  <2>1. InQueue(m, e) /\ (e.conn = c /\ m = l => e.op = "destroyed")
    <3>1. CASE m = l
      BY <1>1, <1>2, <1>6, <3>1, InTail, BehindHead DEF InQueue
    <3>2. CASE m # l
      BY <1>2, <1>6, <3>2 DEF InQueue
    <3> QED BY <3>1, <3>2
  <2>2. FunctorInv(m, e) /\ e.op \in {"established", "remove", "destroyed"} /\ e.conn \in Conns
    BY <2>1, OfQueue DEF Functors
  <2>3. CASE e.conn = c
    <3>1. e.op = "destroyed" /\ m = l /\ Ended
      BY <1>3, <2>1, <2>2, <2>3 DEF FunctorInv
    <3> QED BY <1>1, <1>2, <1>3, <2>3, <3>1 DEF FunctorInv, Ended
  <2>4. CASE e.conn # c
    BY <1>1, <1>2, <2>2, <2>4 DEF FunctorInv, Ended
  <2> QED BY <2>3, <2>4
<1> QED BY <1>4, <1>5, <1>6, QueuesKept

LEMMA DestroyedQueues ==
  ASSUME TypeOK, TypeOK', QueueInv, BaseInv, NEW l \in Loops, NEW c \in Conns,
         ConnectionDestroyed(l, c)
  PROVE  QueueInv' /\ BaseInv'
<1>1. /\ Dequeue(l, "destroyed", c) /\ queue[l] # <<>>
      /\ basePc' = basePc /\ loopOf' = loopOf
      /\ queue' = [queue EXCEPT ![l] = Tail(@)] /\ life' = [life EXCEPT ![c] = "removed"]
  BY DEF ConnectionDestroyed, Dequeue
<1>2. /\ queue'[l] = Tail(queue[l]) /\ \A m \in Loops \ {l} : queue'[m] = queue[m]
      /\ life'[c] = "removed" /\ \A d \in Conns \ {c} : life'[d] = life[d]
  BY <1>1 DEF TypeOK
<1>3. l = loopOf[c] /\ (~Ended => life[c] = "erased")
  <2>1. FunctorInv(l, Functor("destroyed", c))
    BY <1>1, HeadFacts
  <2>2. Functor("destroyed", c).op = "destroyed" /\ Functor("destroyed", c).conn = c
    BY DEF Functor
  <2> QED BY <2>1, <2>2 DEF FunctorInv
<1>4. BaseInv'
  BY <1>1, <1>2, <1>3 DEF BaseInv, Ended
<1>5. \A m \in Loops : OrderInv(m)'
  BY <1>1, <1>2, TailInOrder, SameOrder
<1>6. ASSUME NEW m \in Loops, NEW e \in Functors, InQueue(m, e)' PROVE FunctorInv(m, e)'
  <2>1. InQueue(m, e) /\ (m = l => e.conn # c)
    <3>1. CASE m = l
      BY <1>1, <1>2, <1>6, <3>1, InTail, BehindHead DEF InQueue
    <3>2. CASE m # l
      BY <1>2, <1>6, <3>2 DEF InQueue
    <3> QED BY <3>1, <3>2
  <2>2. FunctorInv(m, e) /\ e.op \in {"established", "remove", "destroyed"} /\ e.conn \in Conns
    BY <2>1, OfQueue DEF Functors
  <2>3. CASE e.conn = c
    <3>1. e.op = "remove" /\ m = Base /\ loopOf[c] # Base /\ Ended
      BY <1>3, <2>1, <2>2, <2>3 DEF FunctorInv
    <3> QED BY <1>1, <1>2, <1>3, <2>3, <3>1 DEF FunctorInv, Ended
  <2>4. CASE e.conn # c
    BY <1>1, <1>2, <2>2, <2>4 DEF FunctorInv, Ended
  <2> QED BY <2>3, <2>4
<1> QED BY <1>4, <1>5, <1>6, QueuesKept

LEMMA RemoveQueues ==
  ASSUME TypeOK, TypeOK', QueueInv, BaseInv, NEW c \in Conns, RemoveConnectionInLoop(c)
  PROVE  QueueInv' /\ BaseInv'
<1> DEFINE f == Functor("destroyed", c)
<1>0. PICK l \in Loops : l = loopOf[c]
  BY DEF TypeOK
<1>1. /\ Dequeue(Base, "remove", c) /\ queue[Base] # <<>> /\ Base \in Loops /\ l \in Loops
      /\ basePc' = basePc /\ ~Ended /\ loopOf' = loopOf
      /\ queue' = [queue EXCEPT ![Base] = Tail(@), ![l] = Append(@, f)]
      /\ life' = [life EXCEPT ![c] = "erased"]
  BY <1>0 DEF RemoveConnectionInLoop, Dequeue, Ended, TypeOK, Loops
<1>2. l # Base /\ life[c] = "closed"
  <2>1. FunctorInv(Base, Functor("remove", c))
    BY <1>1, HeadFacts
  <2>2. Functor("remove", c).op = "remove" /\ Functor("remove", c).conn = c
    BY DEF Functor
  <2> QED BY <1>0, <1>1, <2>1, <2>2 DEF FunctorInv
<1>3. f \in Functors /\ f.conn = c /\ f.op = "destroyed"
  BY DEF Functor, Functors
<1> HIDE DEF f
<1>4. /\ queue'[Base] = Tail(queue[Base]) /\ queue'[l] = Append(queue[l], f)
      /\ \A m \in Loops \ {Base, l} : queue'[m] = queue[m]
      /\ life'[c] = "erased" /\ \A d \in Conns \ {c} : life'[d] = life[d]
  BY <1>1, <1>2 DEF TypeOK
<1>5. BaseInv'
  BY <1>1, <1>4 DEF BaseInv, Ended
<1>6. ASSUME NEW m \in Loops, NEW e \in Functors, InQueue(m, e), e.conn = c
      PROVE  m = Base /\ e.op = "remove"
  <2>1. FunctorInv(m, e) /\ e.op \in {"established", "remove", "destroyed"}
    BY <1>6, OfQueue DEF Functors
  <2> QED BY <1>1, <1>2, <1>6, <2>1 DEF FunctorInv
<1>7. \A m \in Loops : OrderInv(m)'
  <2>1. \A k \in DOMAIN queue[l] : queue[l][k].conn # f.conn
    BY <1>1, <1>2, <1>3, <1>6, ElementFacts DEF InQueue
  <2>2. OrderInv(l)'
    BY <1>1, <1>3, <1>4, <2>1, AppendInOrder
  <2>3. OrderInv(Base)'
    BY <1>1, <1>4, TailInOrder
  <2> QED BY <1>4, <2>2, <2>3, SameOrder
<1>8. ASSUME NEW m \in Loops, NEW e \in Functors, InQueue(m, e)' PROVE FunctorInv(m, e)'
  <2>1. CASE m = l /\ e = f
    BY <1>0, <1>1, <1>3, <1>4, <2>1 DEF FunctorInv
  <2>2. CASE ~(m = l /\ e = f)
    <3>1. InQueue(m, e) /\ e.conn # c
      <4>1. CASE m = Base
        <5>1. queue[Base] # <<>> /\ queue'[Base] = Tail(queue[Base]) /\ InQueue(Base, e)'
          BY <1>1, <1>4, <1>8, <4>1 DEF InQueue
        <5>2. InQueue(Base, e)
          BY <1>1, <5>1, InTail DEF InQueue
        <5>3. e.conn # c
          <6>1. SUFFICES ASSUME e.conn = c PROVE FALSE
            OBVIOUS
          <6>2. PICK k \in DOMAIN queue[Base] : 1 < k /\ queue[Base][k] = e
            BY <1>1, <5>1, InTail DEF InQueue
          <6>3. 1 \in DOMAIN queue[Base] /\ queue[Base][1] = Functor("remove", c)
            BY <1>1, HeadFacts
          <6>4. queue[Base][1].conn = c /\ queue[Base][1].op = "remove"
            BY <6>3 DEF Functor
          <6>5. OrderInv(Base)
            BY <1>1 DEF QueueInv
          <6> QED BY <6>1, <6>2, <6>3, <6>4, <6>5 DEF OrderInv
        <5> QED BY <4>1, <5>2, <5>3
      <4>2. CASE m = l
        BY <1>1, <1>2, <1>3, <1>4, <1>6, <1>8, <2>2, <4>2, InAppend
      <4>3. CASE m \notin {Base, l}
        BY <1>4, <1>6, <1>8, <4>3 DEF InQueue
      <4> QED BY <4>1, <4>2, <4>3
    <3>2. FunctorInv(m, e) /\ e.conn \in Conns
      BY <3>1, OfQueue DEF Functors
    <3> QED BY <1>1, <1>4, <3>1, <3>2 DEF FunctorInv, Ended
  <2> QED BY <2>1, <2>2
<1> QED BY <1>5, <1>7, <1>8, QueuesKept

LEMMA FreeQueues ==
  ASSUME TypeOK, TypeOK', QueueInv, BaseInv, NEW c \in Conns, Free(c)
  PROVE  QueueInv' /\ BaseInv'
<1>1. /\ life[c] = "removed" /\ ~HeldByBase(c)
      /\ UNCHANGED <<basePc, loopOf, queue>>
      /\ life'[c] = "freed" /\ \A d \in Conns \ {c} : life'[d] = life[d]
  BY DEF Free, TypeOK
<1>2. BaseInv'
  BY <1>1 DEF BaseInv, Ended
<1>3. \A m \in Loops : OrderInv(m)'
  BY <1>1, SameOrder
<1>4. ASSUME NEW m \in Loops, NEW e \in Functors, InQueue(m, e)' PROVE FunctorInv(m, e)'
  <2>1. InQueue(m, e)
    BY <1>1, <1>4 DEF InQueue
  <2>2. FunctorInv(m, e) /\ e.op \in {"established", "remove", "destroyed"} /\ e.conn \in Conns
    BY <2>1, OfQueue DEF Functors
  <2>3. e.conn # c
    <3>1. SUFFICES ASSUME e.conn = c PROVE FALSE
      OBVIOUS
    <3>2. e.op = "remove" /\ m = Base
      BY <1>1, <2>2, <3>1 DEF FunctorInv
    <3>3. e = Functor("remove", c)
      BY <3>1, <3>2 DEF Functor, Functors
    <3> QED BY <1>1, <2>1, <3>2, <3>3 DEF HeldByBase, InQueue
  <2> QED BY <1>1, <2>2, <2>3 DEF FunctorInv, Ended
<1> QED BY <1>2, <1>3, <1>4, QueuesKept

\* What ~TcpServer puts behind a loop's functors.
LEMMA ConcatElements ==
  ASSUME NEW S, NEW q \in Seq(S), NEW r \in Seq(S)
  PROVE  /\ \A k \in DOMAIN q : (q \o r)[k] = q[k]
         /\ \A k \in DOMAIN (q \o r) :
              \/ k \in DOMAIN q
              \/ k - Len(q) \in DOMAIN r /\ (q \o r)[k] = r[k - Len(q)]
OBVIOUS

LEMMA DestroyQueues ==
  ASSUME TypeOK, TypeOK', QueueInv, BaseInv, Destroy
  PROVE  QueueInv' /\ BaseInv'
<1> DEFINE here == {c \in InMap : loopOf[c] = Base}
<1>1. /\ basePc = "poll" /\ basePc' = "quit" /\ ~Ended /\ Ended' /\ loopOf' = loopOf
      /\ queue' = [l \in Loops |-> IF l = Base THEN queue[l] ELSE queue[l] \o DestroyedOn(l)]
      /\ \A c \in Conns : life'[c] = IF c \in here THEN "freed" ELSE life[c]
  BY DEF Destroy, Ended
<1>2. \A c \in Conns : loopOf[c] # Base => life'[c] = life[c]
  BY <1>1
<1>3. BaseInv'
  BY <1>1 DEF BaseInv, InMap
<1> HIDE DEF here
<1>4. ASSUME NEW l \in Loops, NEW e \in Functors, InQueue(l, e)
      PROVE  /\ FunctorInv(l, e)'
             /\ l # Base /\ e.conn \in InMap => e.op = "established"
  <2>1. FunctorInv(l, e) /\ e.op \in {"established", "remove", "destroyed"} /\ e.conn \in Conns
    BY <1>4, OfQueue DEF Functors
  <2>2. l # Base /\ e.conn \in InMap => e.op = "established"
    BY <1>1, <2>1 DEF FunctorInv, InMap
  <2>3. FunctorInv(l, e)'
    <3>1. CASE loopOf[e.conn] # Base
      BY <1>1, <1>2, <2>1, <3>1 DEF FunctorInv
    <3>2. CASE loopOf[e.conn] = Base
      <4>1. e.op = "destroyed" /\ l = Base /\ life[e.conn] = "erased"
        BY <1>1, <2>1, <3>2 DEF FunctorInv
      <4>2. life'[e.conn] = "erased"
        BY <1>1, <2>1, <4>1 DEF here, InMap
      <4> QED BY <1>1, <3>2, <4>1, <4>2 DEF FunctorInv
    <3> QED BY <3>1, <3>2
  <2> QED BY <2>2, <2>3
<1>5. ASSUME NEW l \in Loops, l # Base
      PROVE  /\ OrderInv(l)'
             /\ \A e \in Functors : InQueue(l, e)' => FunctorInv(l, e)'
  <2> DEFINE q == queue[l]
             r == DestroyedOn(l)
  <2>1. /\ q \in Seq(Functors) /\ r \in Seq(Functors) /\ queue'[l] = q \o r
        /\ Len(q) \in Nat /\ DOMAIN q = 1 .. Len(q) /\ DOMAIN r \subseteq Nat
    <3>1. q \in Seq(Functors) /\ r \in Seq(Functors) /\ queue'[l] = q \o r
      BY <1>1, <1>5, ElementFacts, DestroyedOnType
    <3> HIDE DEF q, r
    <3> QED BY <3>1
  <2>2. \A k \in DOMAIN r : /\ r[k].op = "destroyed" /\ r[k].conn \in InMap
                             /\ loopOf[r[k].conn] = l
    BY DestroyedOnType
  <2>3. \A j, k \in DOMAIN r : r[j].conn = r[k].conn => j = k
    BY DestroyedOnType
  <2>4. \A k \in DOMAIN q : q[k] \in Functors /\ InQueue(l, q[k])
    BY ElementFacts DEF InQueue
  <2> HIDE DEF q, r
  <2>5. /\ \A k \in DOMAIN q : queue'[l][k] = q[k]
        /\ \A k \in DOMAIN queue'[l] :
             \/ k \in DOMAIN q
             \/ k - Len(q) \in DOMAIN r /\ queue'[l][k] = r[k - Len(q)]
        /\ DOMAIN queue'[l] \subseteq Nat
    <3>1. queue'[l] \in Seq(Functors)
      BY <2>1
    <3>2. DOMAIN queue'[l] \subseteq Nat
      BY <3>1
    <3> QED BY <2>1, <3>2, ConcatElements
  <2>6. OrderInv(l)'
    <3>1. SUFFICES ASSUME NEW j \in DOMAIN queue'[l], NEW k \in DOMAIN queue'[l], j < k,
                          queue'[l][j].conn = queue'[l][k].conn
                   PROVE  queue'[l][j].op = "established" /\ queue'[l][k].op = "destroyed"
      BY DEF OrderInv
    <3>2. j \in Nat /\ k \in Nat
      BY <2>5
    <3>3. CASE k \in DOMAIN q
      <4>1. j \in DOMAIN q
        <5>1. 1 <= j
          BY <2>1, <2>5, <3>2, <3>3
        <5> QED BY <2>1, <3>1, <3>2, <3>3, <5>1
      <4>2. OrderInv(l)
        BY DEF QueueInv
      <4> QED BY <2>5, <3>1, <3>3, <4>1, <4>2 DEF OrderInv, q
    <3>4. CASE k \notin DOMAIN q /\ j \in DOMAIN q
      <4>1. k - Len(q) \in DOMAIN r /\ queue'[l][k] = r[k - Len(q)]
        BY <2>5, <3>4
      <4>2. /\ queue'[l][k].op = "destroyed" /\ queue'[l][k].conn \in InMap
            /\ queue'[l][j] = q[j]
        BY <2>2, <2>5, <3>4, <4>1
      <4> QED BY <1>4, <1>5, <2>4, <3>1, <3>4, <4>2
    <3>5. CASE k \notin DOMAIN q /\ j \notin DOMAIN q
      <4>1. /\ k - Len(q) \in DOMAIN r /\ queue'[l][k] = r[k - Len(q)]
            /\ j - Len(q) \in DOMAIN r /\ queue'[l][j] = r[j - Len(q)]
        BY <2>5, <3>5
      <4>2. k - Len(q) = j - Len(q)
        BY <2>3, <3>1, <4>1
      <4> QED BY <2>1, <3>1, <3>2, <4>2
    <3> QED BY <3>3, <3>4, <3>5
  <2>7. ASSUME NEW e \in Functors, InQueue(l, e)' PROVE FunctorInv(l, e)'
    <3>1. PICK k \in DOMAIN queue'[l] : queue'[l][k] = e
      BY <2>7 DEF InQueue
    <3>2. CASE k \in DOMAIN q
      BY <1>4, <2>4, <2>5, <3>1, <3>2
    <3>3. CASE k \notin DOMAIN q
      <4>1. e.op = "destroyed" /\ e.conn \in InMap /\ loopOf[e.conn] = l
        BY <2>2, <2>5, <3>1, <3>3
      <4>2. life'[e.conn] \in {"posted", "up", "closed"}
        BY <1>2, <1>5, <4>1 DEF InMap
      <4> QED BY <1>1, <4>1, <4>2 DEF FunctorInv
    <3> QED BY <3>2, <3>3
  <2> QED BY <2>6, <2>7
<1>6. queue'[Base] = queue[Base] /\ Base \in Loops
  BY <1>1 DEF Loops
<1>7. \A l \in Loops : OrderInv(l)'
  BY <1>5, <1>6, SameOrder
<1>8. \A l \in Loops, e \in Functors : InQueue(l, e)' => FunctorInv(l, e)'
  BY <1>4, <1>5, <1>6 DEF InQueue
<1> QED BY <1>3, <1>7, <1>8, QueuesKept

\* The connections a loop's end frees are on that loop.
LEMMA HeldByLoop ==
  ASSUME TypeOK, QueueInv, NEW i \in IoLoops, NEW c \in HeldBy(i)
  PROVE  /\ c \in Existing /\ loopOf[c] = i /\ i \in Loops /\ i # Base
         /\ \A l \in Loops, e \in Functors : InQueue(l, e) /\ e.conn = c => l = i
<1>1. i \in Loops /\ i # Base /\ Base \in Loops
  BY BoundsAssumption DEF Loops, IoLoops, Base
<1>2. c \in Conns /\ ~HeldByBase(c) /\ \E k \in DOMAIN queue[i] : queue[i][k].conn = c
  BY DEF HeldBy
<1>3. PICK k \in DOMAIN queue[i] : queue[i][k].conn = c
  BY <1>2
<1>4. c \in Existing /\ loopOf[c] = i
  <2>1. queue[i][k] \in Functors /\ FunctorInv(i, queue[i][k]) /\ c \in Existing
    BY <1>1, <1>3, FunctorFacts
  <2> QED BY <1>1, <1>3, <2>1, FunctorFacts DEF FunctorInv
<1>5. ASSUME NEW l \in Loops, NEW e \in Functors, InQueue(l, e), e.conn = c PROVE l = i
  <2>1. FunctorInv(l, e) /\ e.op \in {"established", "remove", "destroyed"}
    BY <1>5, OfQueue DEF Functors
  <2>2. e.op # "remove"
    <3>1. SUFFICES ASSUME e.op = "remove" PROVE FALSE
      OBVIOUS
    <3>2. l = Base /\ e = Functor("remove", c)
      BY <1>5, <2>1, <3>1 DEF FunctorInv, Functor, Functors
    <3> QED BY <1>2, <1>5, <3>2 DEF HeldByBase, InQueue
  <2> QED BY <1>4, <1>5, <2>1, <2>2 DEF FunctorInv
<1> QED BY <1>1, <1>4, <1>5

LEMMA LoopEndsQueues ==
  ASSUME TypeOK, TypeOK', QueueInv, BaseInv, NEW i \in IoLoops, LoopEnds(i)
  PROVE  QueueInv' /\ BaseInv'
<1>1. /\ basePc' = basePc /\ loopOf' = loopOf
      /\ queue' = [queue EXCEPT ![i] = <<>>]
      /\ life' = [c \in Conns |-> IF c \in HeldBy(i) THEN "freed" ELSE life[c]]
  BY DEF LoopEnds
<1>2. /\ queue'[i] = <<>> /\ \A l \in Loops \ {i} : queue'[l] = queue[l]
      /\ i \in Loops
      /\ \A c \in Conns : life'[c] = life[c] \/ (c \in HeldBy(i) /\ life'[c] = "freed")
  BY <1>1 DEF TypeOK, Loops
<1>3. BaseInv'
  BY <1>1, <1>2 DEF BaseInv, Ended
<1>4. \A l \in Loops : OrderInv(l)'
  BY <1>2, SameOrder DEF OrderInv
<1>5. ASSUME NEW l \in Loops, NEW e \in Functors, InQueue(l, e)' PROVE FunctorInv(l, e)'
  <2>1. l # i /\ InQueue(l, e)
    BY <1>2, <1>5 DEF InQueue
  <2>2. FunctorInv(l, e) /\ e.conn \in Conns
    BY <2>1, OfQueue DEF Functors
  <2>3. e.conn \notin HeldBy(i)
    BY <2>1, HeldByLoop
  <2> QED BY <1>1, <1>2, <2>2, <2>3 DEF FunctorInv, Ended
<1> QED BY <1>3, <1>4, <1>5, QueuesKept

LEMMA QueueStep ==
  ASSUME TypeOK, TypeOK', AcceptInv, QueueInv, BaseInv, [Next]_vars
  PROVE  QueueInv' /\ BaseInv'
<1>1. CASE \/ StartThread \/ LoopStarted \/ Listen \/ AcceptFails \/ CloseIdle \/ AcceptIdle
           \/ CloseDropped \/ ReopenIdle \/ QuitLoop \/ Gone \/ ClientConnects \/ OtherOpens
           \/ OtherCloses \/ (\E i \in IoLoops : PublishLoop(i) \/ EnterLoop(i))
           \/ UNCHANGED vars
  <2>1. UNCHANGED <<queue, life, loopOf>> /\ Ended' = Ended
    BY <1>1 DEF StartThread, LoopStarted, Listen, AcceptFails, CloseIdle, AcceptIdle, CloseDropped,
       ReopenIdle, QuitLoop, Gone, ClientConnects, OtherOpens, OtherCloses, PublishLoop, EnterLoop,
       connVars, vars, Ended
  <2> QED BY <2>1, QuietQueue
<1>2. CASE Accept
  BY <1>2, AcceptQueues
<1>3. CASE \E l \in Loops, c \in Conns : RunFunctor(l, c)
  BY <1>3, EstablishedQueues, RemoveQueues, DestroyedQueues DEF RunFunctor
<1>4. CASE \E c \in Conns : HandleClose(c) \/ Free(c)
  BY <1>4, HandleCloseQueues, FreeQueues
<1>5. CASE Destroy \/ \E i \in IoLoops : LoopEnds(i)
  BY <1>5, DestroyQueues, LoopEndsQueues
<1> QED BY <1>1, <1>2, <1>3, <1>4, <1>5 DEF Next, HandleConnection

-----------------------------------------------------------------------------
(* Descriptors and pollers.                                                *)

LEMMA SameDescriptors ==
  ASSUME FdInv, UNCHANGED <<open, others, fd>>, IdleFds' = IdleFds, Existing' = Existing
  PROVE  FdInv'
BY DEF FdInv

\* Connections are freed together, and their descriptors closed.
LEMMA CloseDescriptors ==
  ASSUME FdInv, NEW S, S \subseteq Existing, Existing' = Existing \ S,
         open' = open \ {fd[c] : c \in S}, UNCHANGED <<others, fd>>, IdleFds' = IdleFds
  PROVE  FdInv'
<1>1. open' = {fd[c] : c \in Existing \ S} \cup IdleFds \cup others
  BY DEF FdInv
<1> QED BY <1>1 DEF FdInv

LEMMA AcceptDescriptors ==
  ASSUME TypeOK, AcceptInv, FdInv, Accept
  PROVE  FdInv'
<1>0. PICK c : c = nextConnId + 1
  OBVIOUS
<1>1. PICK f : f = Lowest
  OBVIOUS
<1>2. /\ c \in Conns /\ life[c] = "none" /\ f \in Fds /\ f \notin open
      /\ open' = open \cup {f} /\ others' = others /\ IdleFds' = IdleFds
      /\ fd' = [fd EXCEPT ![c] = f]
  BY <1>0, <1>1, NextConn, LowestIsFree DEF Accept, IdleFds
<1>3. Existing' = Existing \cup {c} /\ c \notin Existing
  <2>1. \E s \in {"up", "posted"} : life' = [life EXCEPT ![c] = s]
    BY <1>0 DEF Accept, Establish
  <2>2. life'[c] \in {"up", "posted"} /\ \A d \in Conns \ {c} : life'[d] = life[d]
    BY <1>2, <2>1 DEF TypeOK
  <2> QED BY <1>2, <2>2 DEF Existing
<1>4. fd'[c] = f /\ \A d \in Existing : fd'[d] = fd[d]
  BY <1>2, <1>3 DEF TypeOK, Existing
<1>5. \A d \in Existing : fd[d] # f
  BY <1>2 DEF FdInv
<1>6. open' = {fd'[d] : d \in Existing \cup {c}} \cup IdleFds \cup others
  BY <1>2, <1>4 DEF FdInv
<1>7. f \notin IdleFds \cup others
  BY <1>2 DEF FdInv
<1> QED BY <1>2, <1>3, <1>4, <1>5, <1>6, <1>7 DEF FdInv

\* closing and opening idleFd_.
LEMMA IdleDescriptors ==
  ASSUME TypeOK, FdInv, CloseIdle \/ AcceptIdle \/ CloseDropped \/ ReopenIdle
  PROVE  FdInv'
<1>0. UNCHANGED <<others, life, fd>> /\ Existing' = Existing
  BY DEF CloseIdle, AcceptIdle, CloseDropped, ReopenIdle, connVars, Existing
<1>1. NoFd \notin Fds /\ open \subseteq Fds
  BY LimitAssumption DEF NoFd, Fds, TypeOK
<1>2. CASE CloseIdle \/ CloseDropped
  <2>1. IdleFds = {idleFd} \ {NoFd} /\ IdleFds' = {} /\ open' = open \ {idleFd}
    BY <1>2 DEF CloseIdle, CloseDropped, IdleFds
  <2>2. open' = open \ IdleFds
    BY <1>1, <2>1
  <2>3. open' = {fd[c] : c \in Existing} \cup others
    BY <2>2 DEF FdInv
  <2> QED BY <1>0, <2>1, <2>3 DEF FdInv
<1>3. CASE AcceptIdle \/ ReopenIdle
  <2>1. PICK f : f = Lowest
    OBVIOUS
  <2>2. /\ IdleFds = {}
        /\ \/ open' = open /\ IdleFds' = {}
           \/ f \in Fds /\ f \notin open /\ open' = open \cup {f} /\ IdleFds' = {f}
    <3>1. basePc \in {"reserve", "reopen"} /\ basePc' \in {"drop", "poll"}
      BY <1>3 DEF AcceptIdle, ReopenIdle
    <3>2. IdleFds = {} /\ IdleFds' = {idleFd'} \ {NoFd}
      BY <3>1 DEF IdleFds
    <3>3. CASE Exhausted
      BY <1>3, <3>2, <3>3 DEF AcceptIdle, ReopenIdle
    <3>4. CASE ~Exhausted
      <4>1. idleFd' = f /\ open' = open \cup {f} /\ f \in Fds /\ f \notin open
        BY <1>3, <2>1, <3>4, LowestIsFree DEF AcceptIdle, ReopenIdle
      <4> QED BY <1>1, <3>2, <4>1
    <3> QED BY <3>3, <3>4
  <2>3. CASE open' = open /\ IdleFds' = {}
    BY <1>0, <2>2, <2>3, SameDescriptors
  <2>4. CASE f \notin open /\ open' = open \cup {f} /\ IdleFds' = {f}
    <3>1. (\A c \in Existing : fd[c] # f) /\ f \notin others
      BY <2>4 DEF FdInv
    <3>2. open' = {fd[c] : c \in Existing} \cup IdleFds' \cup others
      BY <2>2, <2>4 DEF FdInv
    <3> QED BY <1>0, <2>2, <2>4, <3>1, <3>2 DEF FdInv
  <2> QED BY <2>2, <2>3, <2>4
<1> QED BY <1>2, <1>3

LEMMA OtherDescriptors ==
  ASSUME TypeOK, FdInv, OtherOpens \/ OtherCloses
  PROVE  FdInv'
<1>0. UNCHANGED fd /\ Existing' = Existing /\ IdleFds' = IdleFds
  BY DEF OtherOpens, OtherCloses, connVars, Existing, IdleFds
<1>1. CASE OtherOpens
  <2>1. PICK f : f = Lowest
    OBVIOUS
  <2>2. f \notin open /\ open' = open \cup {f} /\ others' = others \cup {f}
    BY <1>1, <2>1, LowestIsFree DEF OtherOpens
  <2>3. (\A c \in Existing : fd[c] # f) /\ f \notin IdleFds
    BY <2>2 DEF FdInv
  <2>4. open' = {fd[c] : c \in Existing} \cup IdleFds \cup others'
    BY <2>2 DEF FdInv
  <2> QED BY <1>0, <2>2, <2>3, <2>4 DEF FdInv
<1>2. CASE OtherCloses
  <2>1. PICK f \in others : open' = open \ {f} /\ others' = others \ {f}
    BY <1>2 DEF OtherCloses
  <2>2. open' = {fd[c] : c \in Existing} \cup IdleFds \cup others'
    BY <2>1 DEF FdInv
  <2> QED BY <1>0, <2>1, <2>2 DEF FdInv
<1> QED BY <1>1, <1>2

LEMMA FdStep ==
  ASSUME TypeOK, TypeOK', AcceptInv, QueueInv, FdInv, [Next]_vars
  PROVE  FdInv'
<1>1. CASE \/ StartThread \/ LoopStarted \/ Listen \/ AcceptFails \/ QuitLoop \/ Gone
           \/ ClientConnects \/ (\E i \in IoLoops : PublishLoop(i) \/ EnterLoop(i))
           \/ UNCHANGED vars
  <2>1. UNCHANGED <<open, others, fd, life>> /\ IdleFds' = IdleFds
    BY <1>1 DEF StartThread, LoopStarted, Listen, AcceptFails, QuitLoop, Gone, ClientConnects,
       PublishLoop, EnterLoop, connVars, vars, IdleFds
  <2> QED BY <2>1, SameDescriptors DEF Existing
<1>2. CASE Accept
  BY <1>2, AcceptDescriptors
<1>3. CASE CloseIdle \/ AcceptIdle \/ CloseDropped \/ ReopenIdle
  BY <1>3, IdleDescriptors
<1>4. CASE OtherOpens \/ OtherCloses
  BY <1>4, OtherDescriptors
<1>5. CASE \/ \E l \in Loops, c \in Conns : RunFunctor(l, c)
           \/ \E c \in Conns : HandleClose(c)
  <2>1. UNCHANGED <<open, others, fd>> /\ IdleFds' = IdleFds
    BY <1>5 DEF RunFunctor, ConnectionEstablished, RemoveConnectionInLoop, ConnectionDestroyed,
       HandleClose, IdleFds
  <2>2. \A d \in Conns : life'[d] = life[d] \/ life'[d] # "freed"
    BY <1>5, ZenonT(60) DEF RunFunctor, ConnectionEstablished, RemoveConnectionInLoop, ConnectionDestroyed,
       HandleClose, Establish, TypeOK
  <2>3. \A d \in Conns : life'[d] \in {"none", "freed"} <=> life[d] \in {"none", "freed"}
    BY <1>5, <2>2, LaterStages
  <2> QED BY <2>1, <2>3, SameDescriptors DEF Existing
<1>6. ASSUME NEW c \in Conns, Free(c) PROVE FdInv'
  <2>1. /\ life[c] = "removed" /\ life' = [life EXCEPT ![c] = "freed"]
        /\ open' = open \ {fd[d] : d \in {c}} /\ UNCHANGED <<others, fd>> /\ IdleFds' = IdleFds
    BY <1>6 DEF Free, IdleFds
  <2>2. Existing' = Existing \ {c} /\ {c} \subseteq Existing
    BY <2>1 DEF Existing, TypeOK
  <2> QED BY <2>1, <2>2, CloseDescriptors
<1>7. CASE Destroy
  <2>1. PICK S : S = {c \in InMap : loopOf[c] = Base}
    OBVIOUS
  <2>2. /\ life' = [c \in Conns |-> IF c \in S THEN "freed" ELSE life[c]]
        /\ open' = open \ {fd[c] : c \in S}
        /\ UNCHANGED <<others, fd>> /\ IdleFds' = IdleFds
    BY <1>7, <2>1 DEF Destroy, IdleFds
  <2>3. S \subseteq Existing /\ Existing' = Existing \ S
    BY <2>1, <2>2 DEF Existing, InMap
  <2> QED BY <2>2, <2>3, CloseDescriptors
<1>8. ASSUME NEW i \in IoLoops, LoopEnds(i) PROVE FdInv'
  <2>1. PICK S : S = HeldBy(i)
    OBVIOUS
  <2>2. /\ life' = [c \in Conns |-> IF c \in S THEN "freed" ELSE life[c]]
        /\ open' = open \ {fd[c] : c \in S}
        /\ UNCHANGED <<others, fd>> /\ IdleFds' = IdleFds
    BY <1>8, <2>1 DEF LoopEnds, IdleFds
  <2>3. S \subseteq Existing
    BY <2>1, HeldByLoop
  <2>4. Existing' = Existing \ S
    BY <2>2, <2>3 DEF Existing
  <2> QED BY <2>2, <2>3, <2>4, CloseDescriptors
<1> QED BY <1>1, <1>2, <1>3, <1>4, <1>5, <1>6, <1>7, <1>8 DEF Next, HandleConnection

\* A poller's entries when none is added: each was there before, and its connection
\* is still one that may be in a poller.
LEMMA ChannelsKept ==
  ASSUME ChannelInv,
         \A l \in Loops, f \in Fds : channels'[l][f] # NoConn =>
           /\ channels'[l][f] = channels[l][f]
           /\ LET c == channels[l][f]
              IN  /\ life'[c] = life[c] \/ life'[c] \in {"up", "closed", "erased"}
                  /\ fd'[c] = fd[c] /\ loopOf'[c] = loopOf[c]
  PROVE  ChannelInv'
BY DEF ChannelInv

LEMMA ChannelStep ==
  ASSUME TypeOK, TypeOK', AcceptInv, QueueInv, FdInv, ChannelInv, [Next]_vars
  PROVE  ChannelInv'
<1>0. \A l \in Loops, f \in Fds : channels[l][f] # NoConn => channels[l][f] \in Conns
  <2>1. channels \in [Loops -> [Fds -> Conns \cup {NoConn}]]
    BY DEF TypeOK
  <2> QED BY <2>1
<1>1. ASSUME UNCHANGED <<channels, life, fd, loopOf>> PROVE ChannelInv'
  BY <1>1 DEF ChannelInv
<1>2. CASE \/ StartThread \/ LoopStarted \/ Listen \/ AcceptFails \/ CloseIdle \/ AcceptIdle
           \/ CloseDropped \/ ReopenIdle \/ QuitLoop \/ Gone \/ ClientConnects \/ OtherOpens
           \/ OtherCloses \/ (\E i \in IoLoops : PublishLoop(i) \/ EnterLoop(i))
           \/ UNCHANGED vars
  <2>1. UNCHANGED <<channels, life, fd, loopOf>>
    BY <1>2 DEF StartThread, LoopStarted, Listen, AcceptFails, CloseIdle, AcceptIdle,
       CloseDropped, ReopenIdle, QuitLoop, Gone, ClientConnects, OtherOpens, OtherCloses,
       PublishLoop, EnterLoop, connVars, vars
  <2> QED BY <1>1, <2>1
<1>3. CASE Accept
  <2>0. PICK c : c = nextConnId + 1
    OBVIOUS
  <2>1. PICK g : g = Lowest
    OBVIOUS
  <2>2. /\ c \in Conns /\ life[c] = "none" /\ g \in Fds /\ Base \in Loops
        /\ fd' = [fd EXCEPT ![c] = g] /\ loopOf' = [loopOf EXCEPT ![c] = NextLoop]
    BY <1>3, <2>0, <2>1, NextConn, LowestIsFree DEF Accept, Loops
  <2>3. \/ /\ NextLoop = Base /\ life' = [life EXCEPT ![c] = "up"]
           /\ channels' = [channels EXCEPT ![Base][g] = c]
        \/ life' = [life EXCEPT ![c] = "posted"] /\ channels' = channels
    BY <1>3, <2>0, <2>1 DEF Accept, Establish
  <2>4. /\ \A d \in Conns \ {c} : life'[d] = life[d] /\ fd'[d] = fd[d] /\ loopOf'[d] = loopOf[d]
        /\ fd'[c] = g /\ loopOf'[c] = NextLoop
    BY <2>2, <2>3 DEF TypeOK
  <2>5. \A l \in Loops, f \in Fds : channels[l][f] # c
    <3>1. c # NoConn
      BY <2>2, BoundsAssumption DEF Conns, NoConn
    <3>2. \A l \in Loops, f \in Fds : channels[l][f] # NoConn => life[channels[l][f]] # "none"
      BY DEF ChannelInv
    <3> QED BY <2>2, <3>1, <3>2
  <2>6. CASE channels' = channels
    BY <1>0, <2>4, <2>5, <2>6, ChannelsKept
  <2>7. CASE /\ NextLoop = Base /\ life' = [life EXCEPT ![c] = "up"]
             /\ channels' = [channels EXCEPT ![Base][g] = c]
    <3>1. life'[c] = "up" /\ channels'[Base][g] = c
      BY <2>2, <2>7 DEF TypeOK
    <3>2. \A l \in Loops, f \in Fds : (l = Base /\ f = g) \/ channels'[l][f] = channels[l][f]
      BY <2>2, <2>7, ZenonT(60) DEF TypeOK
    <3> QED BY <1>0, <2>4, <2>5, <2>7, <3>1, <3>2 DEF ChannelInv
  <2> QED BY <2>3, <2>6, <2>7
<1>4. ASSUME NEW l \in Loops, NEW c \in Conns, ConnectionEstablished(l, c) PROVE ChannelInv'
  <2>1. FunctorInv(l, Functor("established", c)) /\ Functor("established", c).conn = c
        /\ Functor("established", c).op = "established"
    BY <1>4, HeadFacts DEF ConnectionEstablished, Functor
  <2>2. l = loopOf[c] /\ life[c] = "posted" /\ fd[c] \in Fds
    BY <2>1 DEF FunctorInv, FdInv, Existing
  <2>3. /\ life' = [life EXCEPT ![c] = "up"] /\ channels' = [channels EXCEPT ![l][fd[c]] = c]
        /\ UNCHANGED <<fd, loopOf>>
    BY <1>4 DEF ConnectionEstablished, Establish
  <2>4. /\ life'[c] = "up" /\ \A d \in Conns \ {c} : life'[d] = life[d]
        /\ channels'[l][fd[c]] = c
        /\ \A m \in Loops, f \in Fds : (m = l /\ f = fd[c]) \/ channels'[m][f] = channels[m][f]
    BY <2>2, <2>3 DEF TypeOK
  <2> QED BY <1>0, <2>2, <2>3, <2>4 DEF ChannelInv
<1>5. ASSUME NEW c \in Conns, RemoveConnectionInLoop(c) \/ HandleClose(c) PROVE ChannelInv'
  <2>1. /\ life'[c] \in {"closed", "erased"} /\ \A d \in Conns \ {c} : life'[d] = life[d]
        /\ UNCHANGED <<channels, fd, loopOf>>
    BY <1>5 DEF RemoveConnectionInLoop, HandleClose, TypeOK
  <2> QED BY <1>0, <2>1, ChannelsKept
<1>6. ASSUME NEW l \in Loops, NEW c \in Conns, ConnectionDestroyed(l, c) PROVE ChannelInv'
  <2>1. FunctorInv(l, Functor("destroyed", c)) /\ Functor("destroyed", c).conn = c
        /\ Functor("destroyed", c).op = "destroyed"
    BY <1>6, HeadFacts DEF ConnectionDestroyed, Functor
  <2>2. l = loopOf[c] /\ c \in Existing /\ fd[c] \in Fds
    BY <2>1 DEF FunctorInv, FdInv, Existing
  <2>3. /\ life' = [life EXCEPT ![c] = "removed"] /\ channels' = [channels EXCEPT ![l][fd[c]] = NoConn]
        /\ UNCHANGED <<fd, loopOf>>
    BY <1>6 DEF ConnectionDestroyed
  <2>4. /\ \A d \in Conns \ {c} : life'[d] = life[d]
        /\ channels'[l][fd[c]] = NoConn
        /\ \A m \in Loops, f \in Fds : (m = l /\ f = fd[c]) \/ channels'[m][f] = channels[m][f]
    BY <2>2, <2>3 DEF TypeOK
  <2>5. \A m \in Loops, f \in Fds : channels'[m][f] # NoConn =>
          channels'[m][f] = channels[m][f] /\ channels[m][f] # c
    BY <1>0, <2>2, <2>4 DEF ChannelInv, NoConn
  <2> QED BY <1>0, <2>3, <2>4, <2>5, ChannelsKept
<1>7. ASSUME NEW c \in Conns, Free(c) PROVE ChannelInv'
  <2>1. /\ life[c] = "removed" /\ \A d \in Conns \ {c} : life'[d] = life[d]
        /\ UNCHANGED <<channels, fd, loopOf>>
    BY <1>7 DEF Free, TypeOK
  <2>2. \A l \in Loops, f \in Fds : channels[l][f] # NoConn => channels[l][f] # c
    BY <2>1 DEF ChannelInv
  <2> QED BY <1>0, <2>1, <2>2, ChannelsKept
<1>8. CASE Destroy
  <2>1. PICK S : S = {c \in InMap : loopOf[c] = Base}
    OBVIOUS
  <2>2. /\ life' = [c \in Conns |-> IF c \in S THEN "freed" ELSE life[c]]
        /\ channels' = [channels EXCEPT ![Base] =
                          [f \in Fds |-> IF @[f] \in S THEN NoConn ELSE @[f]]]
        /\ UNCHANGED <<fd, loopOf>>
    BY <1>8, <2>1 DEF Destroy
  <2>3. \A l \in Loops, f \in Fds : channels'[l][f] # NoConn =>
          channels'[l][f] = channels[l][f] /\ (l = Base => channels[l][f] \notin S)
    BY <2>2 DEF TypeOK
  <2>4. \A l \in Loops, f \in Fds : channels'[l][f] # NoConn => channels[l][f] \notin S
    BY <2>1, <2>3 DEF ChannelInv
  <2> QED BY <1>0, <2>2, <2>3, <2>4, ChannelsKept
<1>9. ASSUME NEW i \in IoLoops, LoopEnds(i) PROVE ChannelInv'
  <2>1. PICK S : S = HeldBy(i)
    OBVIOUS
  <2>2. /\ life' = [c \in Conns |-> IF c \in S THEN "freed" ELSE life[c]]
        /\ channels' = [channels EXCEPT ![i] = [f \in Fds |-> NoConn]]
        /\ UNCHANGED <<fd, loopOf>>
    BY <1>9, <2>1 DEF LoopEnds
  <2>3. \A c \in S : loopOf[c] = i
    BY <2>1, HeldByLoop
  <2>4. \A l \in Loops, f \in Fds : channels'[l][f] # NoConn =>
          channels'[l][f] = channels[l][f] /\ l # i
    BY <2>2 DEF TypeOK
  <2>5. \A l \in Loops, f \in Fds : channels'[l][f] # NoConn => channels[l][f] \notin S
    BY <2>3, <2>4 DEF ChannelInv
  <2> QED BY <1>0, <2>2, <2>4, <2>5, ChannelsKept
<1> QED
  BY <1>2, <1>3, <1>4, <1>5, <1>6, <1>7, <1>8, <1>9 DEF Next, HandleConnection, RunFunctor

-----------------------------------------------------------------------------
(* The theorems.                                                           *)

LEMMA InitInv ==
  ASSUME Init
  PROVE  IInv
<1> USE DEF Init
<1>1. TypeOK
  <2>1. 1 \in Fds /\ \A l \in Loops : <<>> \in Seq(Functors)
    BY LimitAssumption DEF Fds
  <2>2. /\ queue \in [Loops -> Seq([op : {"established", "remove", "destroyed"}, conn : Conns])]
        /\ loopOf \in [Conns -> Loops]
    BY <2>1 DEF Functors, Loops
  <2>3. threadNum \in Nat /\ 0 \in 0 .. threadNum /\ 0 \in 0 .. MaxClients
    BY BoundsAssumption
  <2> QED BY <2>1, <2>2, <2>3 DEF TypeOK, Stages
<1>2. AcceptInv
  <2>1. threadNum \in Nat /\ \A c \in Conns : c > 0
    BY BoundsAssumption DEF Conns
  <2>2. next < threadNum \/ (next = 0 /\ threadNum = 0)
    BY <2>1
  <2> QED BY <2>1, <2>2 DEF AcceptInv
<1>3. QueueInv
  <2>1. \A l \in Loops : DOMAIN queue[l] = {}
    OBVIOUS
  <2> QED BY <2>1 DEF QueueInv, OrderInv
<1>4. BaseInv
  BY DEF BaseInv, Ended
<1>5. FdInv
  <2>1. Existing = {} /\ IdleFds = {1}
    BY DEF Existing, IdleFds, NoFd
  <2> QED BY <2>1 DEF FdInv
<1>6. ChannelInv
  BY DEF ChannelInv
<1> QED BY <1>1, <1>2, <1>3, <1>4, <1>5, <1>6 DEF IInv

\* The invariant holds in every state, whatever the number of I/O threads,
\* descriptors and clients: what accept4, the functors of the loops, ~TcpConnection
\* and ~TcpServer keep.
THEOREM Invariant == Spec => []IInv
<1>1. Init => IInv
  BY InitInv
<1>2. IInv /\ [Next]_vars => IInv'
  <2>1. SUFFICES ASSUME IInv, [Next]_vars PROVE IInv'
    OBVIOUS
  <2>2. TypeOK /\ AcceptInv /\ QueueInv /\ BaseInv /\ FdInv /\ ChannelInv
    BY <2>1 DEF IInv
  <2>3. TypeOK'
    BY <2>1, <2>2, TypeStep
  <2>4. AcceptInv'
    BY <2>1, <2>2, AcceptStep
  <2>5. QueueInv' /\ BaseInv'
    BY <2>1, <2>2, <2>3, QueueStep
  <2>6. FdInv'
    BY <2>1, <2>2, <2>3, FdStep
  <2>7. ChannelInv'
    BY <2>1, <2>2, <2>3, ChannelStep
  <2> QED BY <2>3, <2>4, <2>5, <2>6, <2>7 DEF IInv
<1> QED BY <1>1, <1>2, PTL DEF Spec

\* The types: nothing the server counts goes past its bound.
THEOREM TypeCorrect == Spec => []TypeOK
<1>1. IInv => TypeOK
  BY DEF IInv
<1> QED BY <1>1, Invariant, PTL

\* Every open descriptor has one owner, none is closed twice or forgotten, and a
\* poller's entry is for the connection that has the number now: what ~TcpConnection,
\* the idleFd_ steps of handleConnection and connectionDestroyed must keep between them.
THEOREM DescriptorsAlwaysOwned == Spec => []DescriptorsOwned
<1>1. IInv => DescriptorsOwned
  BY DEF IInv, FdInv, ChannelInv, DescriptorsOwned
<1> QED BY <1>1, Invariant, PTL
=============================================================================
