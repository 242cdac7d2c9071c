------------------------------ MODULE TcpServer ------------------------------
(***************************************************************************)
(* The server around its connections (matelib/TcpServer.cc,                *)
(* EventLoopThreadPool.cc, EventLoopThread.cc): starting the I/O threads,  *)
(* accepting, handing connections out to the loops, running out of         *)
(* descriptors, removing connections, and stopping.                        *)
(*                                                                         *)
(* Loop 0 is the base loop, whose thread owns the server; loops 1 to       *)
(* threadNum are the I/O threads'.  Each loop is a queue of functors that  *)
(* are run in order (module EventLoop implements that).  Of a connection   *)
(* only the steps that touch the server, a descriptor or a poller are kept *)
(* (module TcpConnection has the others).  Descriptors are the numbers the *)
(* kernel gives out, always the lowest that is free; those of the loops    *)
(* and of the listening socket are not counted.                            *)
(***************************************************************************)
EXTENDS Naturals, FiniteSets, SequencesExt

CONSTANTS
  MaxThreadNum, \* bound: threadNum_
  Limit,       \* how many descriptors the process may have
  MaxClients,  \* bound: the clients that connect
  MaxOthers    \* bound: descriptors that other threads hold at a time

ASSUME LimitAssumption == Limit \in Nat \ {0}
ASSUME BoundsAssumption == MaxThreadNum \in Nat /\ MaxClients \in Nat /\ MaxOthers \in Nat

Base == 0
IoLoops == 1 .. MaxThreadNum
Loops == IoLoops \cup {Base}
Fds == 1 .. Limit
Conns == 1 .. MaxClients

NoFd == 0
NoConn == 0

VARIABLES
  threadNum,    \* threadNum_
  basePc,       \* where the base loop's thread is
  loops,        \* how many loops are in loops_
  threadPc,     \* where each I/O thread is
  quit,         \* how many I/O loops have been told to quit
  next,         \* next_: the loop that gets the next connection
  idleFd,       \* idleFd_
  open,         \* the descriptors in use in the process
  others,       \* those that belong to other threads (a log file, say)
  backlog,      \* the clients in the listening socket's queue
  nextConnId,   \* nextConnId_: how many connections have been made
  life,         \* how far each connection has got
  fd,           \* sockfd_ of each connection
  loopOf,       \* loop_ of each connection
  queue,        \* each loop's functors
  channels,     \* channels_ of each loop's poller
  arrived,      \* history: the clients that connected
  turnedAway,   \* history: those accepted and closed at once
  reserveTaken   \* history: another thread took the descriptor of idleFd_

vars == <<threadNum, basePc, loops, threadPc, quit, next, idleFd, open, others, backlog, nextConnId,
          life, fd, loopOf, queue, channels, arrived, turnedAway, reserveTaken>>

poolVars == <<threadNum, loops, threadPc, quit, next>>
connVars == <<nextConnId, life, fd, loopOf, queue, channels>>
history  == <<arrived, turnedAway, reserveTaken>>

\* A connection is "posted" while connectionEstablished waits for its loop, "up"
\* while it can be read, "closed" after handleClose, "erased" from connectionMap_,
\* "removed" from the poller and then "freed".
Stages == {"none", "posted", "up", "closed", "erased", "removed", "freed"}

TypeOK ==
  /\ basePc \in {"start", "waitLoop", "poll", "full", "reserve", "drop", "reopen",
                 "quit", "gone"}
  /\ threadNum \in 0 .. MaxThreadNum
  /\ loops \in 0 .. threadNum
  /\ threadPc \in [IoLoops -> {"none", "created", "published", "loop", "ended"}]
  /\ quit \in 0 .. threadNum
  /\ next \in 0 .. threadNum
  /\ idleFd \in Fds \cup {NoFd}
  /\ open \in SUBSET Fds
  /\ others \in SUBSET Fds
  /\ backlog \in 0 .. MaxClients
  /\ nextConnId \in 0 .. MaxClients
  /\ life \in [Conns -> Stages]
  /\ fd \in [Conns -> Fds \cup {NoFd}]
  /\ loopOf \in [Conns -> Loops]
  /\ queue \in [Loops -> Seq([op : {"established", "remove", "destroyed"}, conn : Conns])]
  /\ channels \in [Loops -> [Fds -> Conns \cup {NoConn}]]
  /\ arrived \in 0 .. MaxClients
  /\ turnedAway \in 0 .. MaxClients
  /\ reserveTaken \in BOOLEAN

\* The constructor has opened idleFd_.
Init ==
  /\ threadNum \in 0 .. MaxThreadNum
  /\ basePc = "start"
  /\ loops = 0
  /\ threadPc = [i \in IoLoops |-> "none"]
  /\ quit = 0
  /\ next = 0
  /\ idleFd = 1
  /\ open = {1}
  /\ others = {}
  /\ backlog = 0
  /\ nextConnId = 0
  /\ life = [c \in Conns |-> "none"]
  /\ fd = [c \in Conns |-> NoFd]
  /\ loopOf = [c \in Conns |-> Base]
  /\ queue = [l \in Loops |-> <<>>]
  /\ channels = [l \in Loops |-> [f \in Fds |-> NoConn]]
  /\ arrived = 0
  /\ turnedAway = 0
  /\ reserveTaken = FALSE

-----------------------------------------------------------------------------
(* Descriptors.                                                            *)

Lowest == CHOOSE f \in Fds \ open : \A g \in Fds \ open : f <= g
Exhausted == open = Fds

\* Another thread of the process opens a file: the log, for one.
OtherOpens ==
  /\ ~Exhausted /\ Cardinality(others) < MaxOthers
  /\ open' = open \cup {Lowest}
  /\ others' = others \cup {Lowest}
  /\ UNCHANGED <<basePc, poolVars, idleFd, backlog, connVars, history>>

OtherCloses ==
  \E f \in others :
    /\ open' = open \ {f}
    /\ others' = others \ {f}
    /\ UNCHANGED <<basePc, poolVars, idleFd, backlog, connVars, history>>

-----------------------------------------------------------------------------
(* start: the I/O threads.                                                 *)

\* EventLoopThread::start: the thread is created.
StartThread ==
  /\ basePc = "start" /\ loops < threadNum
  /\ threadPc' = [threadPc EXCEPT ![loops + 1] = "created"]
  /\ basePc' = "waitLoop"
  /\ UNCHANGED <<threadNum, loops, quit, next, idleFd, open, others, backlog, connVars, history>>

\* threadFunc: loop_ = &loop and notify, in one critical section, ...
PublishLoop(i) ==
  /\ threadPc[i] = "created"
  /\ threadPc' = [threadPc EXCEPT ![i] = "published"]
  /\ UNCHANGED <<threadNum, basePc, loops, quit, next, idleFd, open, others, backlog, connVars,
                 history>>

\* ... and then loop.loop().
EnterLoop(i) ==
  /\ threadPc[i] = "published"
  /\ threadPc' = [threadPc EXCEPT ![i] = "loop"]
  /\ UNCHANGED <<threadNum, basePc, loops, quit, next, idleFd, open, others, backlog, connVars,
                 history>>

\* start returns: loop_ is not null.
LoopStarted ==
  /\ basePc = "waitLoop"
  /\ threadPc[loops + 1] \in {"published", "loop"}
  /\ loops' = loops + 1
  /\ basePc' = "start"
  /\ UNCHANGED <<threadNum, threadPc, quit, next, idleFd, open, others, backlog, connVars, history>>

\* TcpServer::start: listen and enableReading; the base loop runs.
Listen ==
  /\ basePc = "start" /\ loops = threadNum
  /\ basePc' = "poll"
  /\ UNCHANGED <<poolVars, idleFd, open, others, backlog, connVars, history>>

-----------------------------------------------------------------------------
(* handleConnection, on the base loop.                                     *)

ClientConnects ==
  /\ basePc \notin {"start", "waitLoop", "quit", "gone"}
  /\ arrived < MaxClients
  /\ arrived' = arrived + 1
  /\ backlog' = backlog + 1
  /\ UNCHANGED <<basePc, poolVars, idleFd, open, others, connVars, turnedAway, reserveTaken>>

\* next_ after getNextLoop.
NextIndex == (next + 1) % threadNum

\* getNextLoop.
NextLoop == IF threadNum = 0 THEN Base ELSE next + 1

Functor(o, c) == [op |-> o, conn |-> c]

\* connectionEstablished: the channel goes into its loop's poller.
Establish(c, l, f) ==
  /\ life' = [life EXCEPT ![c] = "up"]
  /\ channels' = [channels EXCEPT ![l][f] = c]

\* accept4 succeeds.
Accept ==
  /\ basePc = "poll" /\ backlog > 0 /\ ~Exhausted
  /\ backlog' = backlog - 1
  /\ open' = open \cup {Lowest}
  /\ nextConnId' = nextConnId + 1
  /\ fd' = [fd EXCEPT ![nextConnId + 1] = Lowest]
  /\ loopOf' = [loopOf EXCEPT ![nextConnId + 1] = NextLoop]
  /\ IF NextLoop = Base
       THEN /\ Establish(nextConnId + 1, Base, Lowest)
            /\ UNCHANGED <<queue, next>>
       ELSE /\ queue' = [queue EXCEPT ![NextLoop] =
                           Append(@, Functor("established", nextConnId + 1))]
            /\ life' = [life EXCEPT ![nextConnId + 1] = "posted"]
            /\ next' = NextIndex
            /\ UNCHANGED channels
  /\ UNCHANGED <<threadNum, basePc, loops, threadPc, quit, idleFd, others, history>>

\* accept4 fails with EMFILE.
AcceptFails ==
  /\ basePc = "poll" /\ backlog > 0 /\ Exhausted
  /\ basePc' = "full"
  /\ UNCHANGED <<poolVars, idleFd, open, others, backlog, connVars, history>>

\* close(idleFd_), and no more than that if it is -1.
CloseIdle ==
  /\ basePc = "full"
  /\ open' = open \ {idleFd}
  /\ basePc' = "reserve"
  /\ UNCHANGED <<poolVars, idleFd, others, backlog, connVars, history>>

\* Faulty variant: a failed accept does not change idleFd_.
AcceptIdleKept ==
  /\ basePc = "reserve"
  /\ IF Exhausted
       THEN /\ reserveTaken' = (reserveTaken \/ idleFd # NoFd)
            /\ UNCHANGED <<idleFd, open, backlog, turnedAway>>
       ELSE /\ idleFd' = Lowest
            /\ open' = open \cup {Lowest}
            /\ backlog' = backlog - 1
            /\ turnedAway' = turnedAway + 1
            /\ UNCHANGED reserveTaken
  /\ basePc' = "drop"
  /\ UNCHANGED <<poolVars, others, connVars, arrived>>

\* idleFd_ = accept().  Another thread may have taken the free descriptor.
AcceptIdle ==
  /\ basePc = "reserve"
  /\ IF Exhausted
       THEN /\ idleFd' = NoFd
            /\ reserveTaken' = (reserveTaken \/ idleFd # NoFd)
            /\ UNCHANGED <<open, backlog, turnedAway>>
       ELSE /\ idleFd' = Lowest
            /\ open' = open \cup {Lowest}
            /\ backlog' = backlog - 1
            /\ turnedAway' = turnedAway + 1
            /\ UNCHANGED reserveTaken
  /\ basePc' = "drop"
  /\ UNCHANGED <<poolVars, others, connVars, arrived>>

\* close(idleFd_).
CloseDropped ==
  /\ basePc = "drop"
  /\ open' = open \ {idleFd}
  /\ basePc' = "reopen"
  /\ UNCHANGED <<poolVars, idleFd, others, backlog, connVars, history>>

\* Faulty variant: idleFd_ is not opened again.
NotReopened ==
  /\ basePc = "reopen"
  /\ idleFd' = NoFd
  /\ basePc' = "poll"
  /\ UNCHANGED <<poolVars, open, others, backlog, connVars, history>>

\* idleFd_ = open("/dev/null").
ReopenIdle ==
  /\ basePc = "reopen"
  /\ IF Exhausted
       THEN idleFd' = NoFd /\ reserveTaken' = (reserveTaken \/ idleFd # NoFd) /\ UNCHANGED open
       ELSE idleFd' = Lowest /\ open' = open \cup {Lowest} /\ UNCHANGED reserveTaken
  /\ basePc' = "poll"
  /\ UNCHANGED <<poolVars, others, backlog, connVars, arrived, turnedAway>>

-----------------------------------------------------------------------------
(* The loops and their connections.                                        *)

Running(l) == IF l = Base THEN basePc \in {"poll", "gone"} ELSE threadPc[l] = "loop"

\* A connection's peer has gone: handleClose and removeConnection.  On the base
\* loop removeConnectionInLoop runs at once.
HandleClose(c) ==
  /\ life[c] = "up" /\ Running(loopOf[c])
  /\ IF loopOf[c] = Base
       THEN /\ life' = [life EXCEPT ![c] = "erased"]
            /\ queue' = [queue EXCEPT ![Base] = Append(@, Functor("destroyed", c))]
       ELSE /\ life' = [life EXCEPT ![c] = "closed"]
            /\ queue' = [queue EXCEPT ![Base] = Append(@, Functor("remove", c))]
  /\ UNCHANGED <<basePc, poolVars, idleFd, open, others, backlog, nextConnId, fd, loopOf,
                 channels, history>>

\* The next functor of loop l.
Dequeue(l, o, c) ==
  /\ Running(l)
  /\ queue[l] # <<>> /\ Head(queue[l]) = Functor(o, c)

ConnectionEstablished(l, c) ==
  /\ Dequeue(l, "established", c)
  /\ queue' = [queue EXCEPT ![l] = Tail(@)]
  /\ Establish(c, l, fd[c])
  /\ UNCHANGED <<basePc, poolVars, idleFd, open, others, backlog, nextConnId, fd, loopOf,
                 history>>

\* removeConnectionInLoop, on a server that still exists.
RemoveConnectionInLoop(c) ==
  /\ Dequeue(Base, "remove", c) /\ basePc = "poll"
  /\ queue' = [queue EXCEPT ![Base] = Tail(@),
                            ![loopOf[c]] = Append(@, Functor("destroyed", c))]
  /\ life' = [life EXCEPT ![c] = "erased"]
  /\ UNCHANGED <<basePc, poolVars, idleFd, open, others, backlog, nextConnId, fd, loopOf,
                 channels, history>>

\* connectionDestroyed: the channel leaves the poller.  The shared_ptr in the
\* functor is dropped when the loop has finished its batch.
ConnectionDestroyed(l, c) ==
  /\ Dequeue(l, "destroyed", c)
  /\ queue' = [queue EXCEPT ![l] = Tail(@)]
  /\ life' = [life EXCEPT ![c] = "removed"]
  /\ channels' = [channels EXCEPT ![l][fd[c]] = NoConn]
  /\ UNCHANGED <<basePc, poolVars, idleFd, open, others, backlog, nextConnId, fd, loopOf,
                 history>>

\* A connection some functor of the base loop still holds.
HeldByBase(c) == \E k \in DOMAIN queue[Base] : queue[Base][k] = Functor("remove", c)

\* ~TcpConnection: close(sockfd_).
Free(c) ==
  /\ life[c] = "removed" /\ ~HeldByBase(c)
  /\ life' = [life EXCEPT ![c] = "freed"]
  /\ open' = open \ {fd[c]}
  /\ UNCHANGED <<basePc, poolVars, idleFd, others, backlog, nextConnId, fd, loopOf, queue,
                 channels, history>>

-----------------------------------------------------------------------------
(* ~TcpServer and the end of the I/O threads.                              *)

InMap == {c \in Conns : life[c] \in {"posted", "up", "closed"}}

\* The functors ~TcpServer queues on loop l, in some order: the map's is that of the
\* connections' names.
DestroyedOn(l) ==
  LET conns == SetToSeq({c \in InMap : loopOf[c] = l})
  IN  [k \in DOMAIN conns |-> Functor("destroyed", conns[k])]

\* ~TcpServer, to the end of its body.  On the base loop connectionDestroyed
\* runs at once, and the last shared_ptr goes with it.
Destroy ==
  /\ basePc = "poll"
  /\ basePc' = "quit"
  /\ LET here == {c \in InMap : loopOf[c] = Base}
     IN  /\ queue' = [l \in Loops |-> IF l = Base THEN queue[l] ELSE queue[l] \o DestroyedOn(l)]
         /\ life' = [c \in Conns |-> IF c \in here THEN "freed" ELSE life[c]]
         /\ open' = open \ {fd[c] : c \in here}
         /\ channels' = [channels EXCEPT ![Base] =
                           [f \in Fds |-> IF @[f] \in here THEN NoConn ELSE @[f]]]
  /\ UNCHANGED <<poolVars, idleFd, others, backlog, nextConnId, fd, loopOf, history>>

\* ~EventLoopThread of the next thread: loop_->quit(), and then it is joined.
QuitLoop ==
  /\ basePc = "quit" /\ quit < threadNum
  /\ quit > 0 => threadPc[quit] = "ended"
  /\ quit' = quit + 1
  /\ UNCHANGED <<threadNum, basePc, loops, threadPc, next, idleFd, open, others, backlog, connVars,
                 history>>

\* The connections only loop l's functors hold.
HeldBy(l) == {c \in Conns : ~HeldByBase(c) /\ \E k \in DOMAIN queue[l] : queue[l][k].conn = c}

\* The I/O loop finds quit_ set; the functors still in it, and its poller, are
\* destroyed with it.
LoopEnds(i) ==
  /\ threadPc[i] = "loop" /\ i <= quit
  /\ \A c \in Conns : loopOf[c] = i /\ life[c] = "removed" => HeldByBase(c)
  /\ threadPc' = [threadPc EXCEPT ![i] = "ended"]
  /\ queue' = [queue EXCEPT ![i] = <<>>]
  /\ life' = [c \in Conns |-> IF c \in HeldBy(i) THEN "freed" ELSE life[c]]
  /\ open' = open \ {fd[c] : c \in HeldBy(i)}
  /\ channels' = [channels EXCEPT ![i] = [f \in Fds |-> NoConn]]
  /\ UNCHANGED <<threadNum, basePc, loops, quit, next, idleFd, others, backlog, nextConnId, fd, loopOf,
                 history>>

\* Every thread has been joined; the server is gone.
Gone ==
  /\ basePc = "quit" /\ quit = threadNum
  /\ \A i \in 1 .. threadNum : threadPc[i] = "ended"
  /\ basePc' = "gone"
  /\ UNCHANGED <<poolVars, idleFd, open, others, backlog, connVars, history>>

-----------------------------------------------------------------------------
HandleConnection ==
  Accept \/ AcceptFails \/ CloseIdle \/ AcceptIdle \/ CloseDropped \/ ReopenIdle

RunFunctor(l, c) ==
  \/ ConnectionEstablished(l, c)
  \/ l = Base /\ RemoveConnectionInLoop(c)
  \/ ConnectionDestroyed(l, c)

Next ==
  \/ StartThread \/ LoopStarted \/ Listen
  \/ \E i \in IoLoops : PublishLoop(i) \/ EnterLoop(i) \/ LoopEnds(i)
  \/ HandleConnection
  \/ \E l \in Loops, c \in Conns : RunFunctor(l, c)
  \/ \E c \in Conns : HandleClose(c) \/ Free(c)
  \/ Destroy \/ QuitLoop \/ Gone
  \/ ClientConnects \/ OtherOpens \/ OtherCloses

Spec == Init /\ [][Next]_vars

\* Every thread runs.  Nobody has to close a connection or a file.
FairSpec ==
  /\ Spec
  /\ WF_vars(StartThread) /\ WF_vars(LoopStarted) /\ WF_vars(Listen)
  /\ \A i \in IoLoops : WF_vars(PublishLoop(i)) /\ WF_vars(EnterLoop(i)) /\ WF_vars(LoopEnds(i))
  /\ WF_vars(HandleConnection)
  /\ WF_vars(\E l \in Loops, c \in Conns : RunFunctor(l, c))
  /\ WF_vars(QuitLoop) /\ WF_vars(Gone)

-----------------------------------------------------------------------------
(* Properties.                                                             *)

Existing == {c \in Conns : life[c] \notin {"none", "freed"}}

\* idleFd_ is a descriptor the server holds, but for a moment in handleConnection.
IdleFds == IF basePc \in {"reserve", "reopen"} THEN {} ELSE {idleFd} \ {NoFd}

\* Descriptors, their numbers reused, are owned exactly (accept4, close in
\* ~TcpConnection, the idleFd_ dance): each open one by one connection, the
\* reserve or another thread; none is closed twice or forgotten.  And a poller's
\* entry for a number is for the connection that has that number now, so a new
\* connection never meets the channel of an old one.
DescriptorsOwned ==
  /\ open = {fd[c] : c \in Existing} \cup IdleFds \cup others
  /\ \A c, d \in Existing : fd[c] = fd[d] => c = d
  /\ \A c \in Existing : fd[c] \notin IdleFds \cup others
  /\ IdleFds \cap others = {}
  /\ \A l \in Loops, f \in Fds : channels[l][f] # NoConn =>
       LET c == channels[l][f]
       IN  life[c] \in {"up", "closed", "erased"} /\ fd[c] = f /\ loopOf[c] = l

\* A client that connects is accepted, or turned away if there are no descriptors
\* (handleConnection), and not left in the queue with the loop spinning on it,
\* unless another thread took the reserve or the server is destroyed.
ClientsServed ==
  \A n \in 1 .. MaxClients :
    (arrived >= n) ~> (nextConnId + turnedAway >= n \/ reserveTaken \/ basePc \in {"quit", "gone"})
=============================================================================
