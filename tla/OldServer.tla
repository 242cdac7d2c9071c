------------------------------ MODULE OldServer ------------------------------
(***************************************************************************)
(* The earlier copy of the library (old-version/webserver) as its          *)
(* HttpServer runs it: the accepting loop, the I/O loops, the poller's     *)
(* channels and the connections from accept to close.  It differs from the *)
(* library of the other modules in how a connection ends: two flags,       *)
(* connected_ and needDisconn_, instead of a state, and no check for       *)
(* EAGAIN.                                                                 *)
(*                                                                         *)
(* Loop 0 is the main loop; with no I/O thread it has the connections too. *)
(* A request is one unit, an answer is ReplySize units, and a read takes   *)
(* what has come: onMessage answers once for it.  The server is not        *)
(* destroyed: ~TcpServer is not modelled.                                  *)
(***************************************************************************)
EXTENDS Naturals, FiniteSets, SequencesExt

CONSTANTS
  MaxThreads,   \* bound: threadNum_
  MaxClients,   \* bound: the clients that connect
  MaxFds,       \* bound: the descriptors there are for connections
  MaxLoad,      \* bound: these descriptors and the clients' requests together
  SockSize,     \* units the kernel keeps for a socket
  ReplySize     \* units of an answer

ASSUME OldBoundsAssumption == MaxThreads \in Nat /\ MaxClients \in Nat /\ MaxLoad \in Nat
ASSUME OldSizesAssumption ==
  MaxFds \in Nat \ {0} /\ SockSize \in Nat \ {0} /\ ReplySize \in Nat \ {0}

Main == 0
Loops == 0 .. MaxThreads
Conns == 1 .. MaxClients
Fds == 1 .. MaxFds

NoConn == 0
NoFd == 0

\* The channels of a loop: its connections', the listening socket's and the eventfd's.
Acceptor == 0
Wakeup == MaxClients + 1

VARIABLES
  threadNum,    \* threadNum_
  limit,        \* how many descriptors there are for connections
  next,         \* next_ of the thread pool
  loop,         \* each EventLoop
  channels,     \* channels_ of each loop's poller
  conn,         \* each TcpConnection and its socket
  map,          \* connectionMap_
  backlog       \* the clients in the listening socket's queue

oldVars == <<threadNum, limit, next, loop, channels, conn, map, backlog>>

\* functors is what doPendingFunctors has swapped out, done how many of them ran.
NewLoop == [pc |-> "poll", active |-> {}, pending |-> <<>>, functors |-> <<>>, done |-> 0,
            woken |-> FALSE]

\* The members of TcpConnection and of its Channel, and then the socket: what the
\* kernel holds to send, the requests that have come, the peer, SO_ERROR, whether
\* the write side is shut; and history: what the peer got, how many answers were
\* sent, how many requests were made.
NewConn == [life |-> "none", fd |-> NoFd, loop |-> Main,
            connected |-> FALSE, needDisconn |-> FALSE, output |-> <<>>,
            events |-> {}, state |-> "new",
            sock |-> <<>>, inbox |-> 0, peer |-> "open", error |-> FALSE, shut |-> FALSE,
            got |-> <<>>, answers |-> 0, requests |-> 0]

OldInit ==
  /\ threadNum \in 0 .. MaxThreads
  /\ limit \in Fds
  /\ next = 0
  /\ loop = [l \in Loops |-> NewLoop]
  /\ channels = [l \in Loops |-> [f \in Fds |-> NoConn]]
  /\ conn = [c \in Conns |-> NewConn]
  /\ map = {}
  /\ backlog = <<>>

-----------------------------------------------------------------------------
(* EventLoop: functors.                                                    *)

\* Faulty variant: another thread does not wake the loop.
QueuedAsleep(loops, thread, l, f) ==
  [loops EXCEPT ![l].pending = Append(@, f), ![l].woken = @ \/ loops[l].pc = "functors"]

\* queueInLoop, called by the thread of loop "thread".
QueueInLoop(loops, thread, l, f) ==
  [loops EXCEPT ![l].pending = Append(@, f),
                ![l].woken = @ \/ thread # l \/ loops[l].pc = "functors"]

Functor(op, c) == [op |-> op, conn |-> c]

-----------------------------------------------------------------------------
(* Channel and EpollPoller: what is watched.                               *)

\* Channel::update: a channel with no events is kept but not watched; one that is
\* kept is watched again by the next update, whatever its events.
Update(k, events) ==
  [k EXCEPT !.events = events,
            !.state = IF @ = "added" /\ events = {} THEN "deleted" ELSE "added"]

EnableWriting(k)  == Update(k, k.events \cup {"out"})
DisableWriting(k) == Update(k, k.events \ {"out"})
DisableReading(k) == Update(k, k.events \ {"in"})
DisableAll(k)     == Update(k, {})

\* removeChannel, of a channel that is in the poller.
RemoveChannel(k) == [k EXCEPT !.state = "new"]

IsWriting(k) == "out" \in k.events

\* What epoll was told (EpollPoller::update).
Watched(k) == k.state = "added"

\* What epoll_wait reports of a socket.
Revents(k) ==
  IF ~Watched(k) THEN {} ELSE
    (IF k.inbox > 0 \/ k.peer # "open" THEN {"in"} \cap k.events ELSE {})
    \cup (IF Len(k.sock) < SockSize \/ k.peer = "reset" THEN {"out"} \cap k.events ELSE {})
    \cup (IF k.peer = "reset" \/ (k.peer = "closed" /\ k.shut) THEN {"hup"} ELSE {})
    \cup (IF k.error THEN {"err"} ELSE {})

-----------------------------------------------------------------------------
(* TcpConnection, on its own loop.                                         *)

Room(k) == SockSize - Len(k.sock)

\* write: as much as there is room for, or an error, EAGAIN among them.
WriteFails(k) == k.peer = "reset" \/ k.shut \/ Room(k) = 0
Taken(k, units) == IF Len(units) < Room(k) THEN Len(units) ELSE Room(k)
Write(k, units) == [k EXCEPT !.sock = @ \o SubSeq(units, 1, Taken(k, units))]

Behind(units, n) == SubSeq(units, n + 1, Len(units))

\* Faulty variant: what was not written is kept from its first byte on.
SendInThreadAgain(k, units) ==
  IF ~k.connected
    THEN k
    ELSE LET direct == ~IsWriting(k) /\ k.output = <<>>
             n == IF direct THEN Taken(k, units) ELSE 0
         IN  IF direct /\ WriteFails(k) THEN [k EXCEPT !.error = FALSE]
             ELSE IF n = Len(units) THEN Write(k, units)
             ELSE EnableWriting([(IF direct THEN Write(k, units) ELSE k)
                                   EXCEPT !.output = @ \o units])

\* sendInThread: at once if nothing waits; the rest into outputBuffer_.  A failed
\* write, of whatever kind, ends it.
SendInThread(k, units) ==
  IF ~k.connected
    THEN k
    ELSE LET direct == ~IsWriting(k) /\ k.output = <<>>
             n == IF direct THEN Taken(k, units) ELSE 0
         IN  IF direct /\ WriteFails(k) THEN [k EXCEPT !.error = FALSE]
             ELSE IF n = Len(units) THEN Write(k, units)
             ELSE EnableWriting([(IF direct THEN Write(k, units) ELSE k)
                                   EXCEPT !.output = @ \o Behind(units, n)])

\* send: the answer's units are its number and theirs.
Reply(i) == [j \in 1 .. ReplySize |-> <<i, j>>]

Send(k) ==
  IF k.connected
    THEN SendInThread([k EXCEPT !.answers = @ + 1], Reply(k.answers + 1))
    ELSE k

\* shutdownInLoop.
ShutdownInLoop(k) ==
  IF IsWriting(k) THEN k ELSE [k EXCEPT !.connected = FALSE, !.shut = TRUE]

\* shutdown, once.
Shutdown(k) ==
  IF k.needDisconn THEN k ELSE ShutdownInLoop([k EXCEPT !.needDisconn = TRUE])

\* HttpServer::onMessage: an answer, and the end if the request or its error asks for it.
OnMessage(k, close) == IF close THEN Shutdown(Send(k)) ELSE Send(k)

\* handleError: getsockopt clears SO_ERROR.
HandleError(k) == [k EXCEPT !.error = FALSE]

\* Faulty variant: the channel is still watched.
HandleCloseWatched(k) == [k EXCEPT !.connected = FALSE, !.life = "closed"]

\* handleClose, up to the functor it has the main loop run.
HandleClose(k) == DisableAll([k EXCEPT !.connected = FALSE, !.life = "closed"])

\* handleRead.
HandleRead(k, close) ==
  IF k.inbox > 0 THEN OnMessage([k EXCEPT !.inbox = 0], close)
  ELSE IF k.error THEN HandleError(k)
  ELSE IF k.peer # "open" THEN HandleClose(k)
  ELSE HandleError(k)

\* Faulty variant: the end that waited for the output is forgotten.
HandleWriteOnly(k) ==
  IF ~IsWriting(k) THEN k
  ELSE IF WriteFails(k) THEN [k EXCEPT !.error = FALSE]
  ELSE LET w == [Write(k, k.output) EXCEPT !.output = Behind(k.output, Taken(k, k.output))]
       IN  IF w.output # <<>> THEN w ELSE DisableWriting(w)

\* handleWrite.
HandleWrite(k) ==
  IF ~IsWriting(k) THEN k
  ELSE IF WriteFails(k) THEN [k EXCEPT !.error = FALSE]
  ELSE LET w == [Write(k, k.output) EXCEPT !.output = Behind(k.output, Taken(k, k.output))]
       IN  IF w.output # <<>> THEN w
           ELSE IF w.needDisconn THEN ShutdownInLoop(DisableWriting(w))
           ELSE DisableWriting(w)

\* Channel::handleEvent, whose callbacks come in this order.
HandleEvent(k, revents, close) ==
  LET hup == IF "hup" \in revents /\ "in" \notin revents THEN HandleClose(k) ELSE k
      err == IF "err" \in revents THEN HandleError(hup) ELSE hup
      in  == IF "in" \in revents THEN HandleRead(err, close) ELSE err
  IN  IF "out" \in revents THEN HandleWrite(in) ELSE in

\* connectionEstablished; connectionCallback_, here and at the end, is told and
\* changes nothing.
ConnectionEstablished(k) ==
  Update([k EXCEPT !.life = "up", !.connected = TRUE], k.events \cup {"in"})

\* connectionDestroyed, whose last call removes the channel.
ConnectionDestroyed(k) ==
  RemoveChannel([DisableReading(k) EXCEPT !.life = "down"])

-----------------------------------------------------------------------------
(* TcpServer, on the main loop.                                            *)

Existing == {c \in Conns : conn[c].life \in {"posted", "up", "closed", "down"}}
FreeFds == (1 .. limit) \ {conn[c].fd : c \in Existing}
Lowest(fds) == CHOOSE f \in fds : \A g \in fds : f <= g

\* getNextLoop.
NextLoop == IF threadNum = 0 THEN Main ELSE next + 1

\* handleConnection.  Without a descriptor for it the client is accepted with the
\* one of idleFd_ and closed.
HandleConnection(loops) ==
  LET c == Head(backlog)
      l == NextLoop
      f == Lowest(FreeFds)
      k == [conn[c] EXCEPT !.life = "posted", !.fd = f, !.loop = l]
  IN  /\ backlog' = Tail(backlog)
      /\ IF FreeFds = {}
           THEN /\ conn' = [conn EXCEPT ![c].life = "turnedAway"]
                /\ loop' = loops
                /\ UNCHANGED <<next, map, channels>>
           ELSE /\ map' = map \cup {c}
                /\ next' = IF threadNum = 0 THEN next ELSE (next + 1) % threadNum
                /\ IF l = Main
                     THEN /\ conn' = [conn EXCEPT ![c] = ConnectionEstablished(k)]
                          /\ channels' = [channels EXCEPT ![l][f] = c]
                          /\ loop' = loops
                     ELSE /\ conn' = [conn EXCEPT ![c] = k]
                          /\ loop' = QueueInLoop(loops, Main, l, Functor("established", c))
                          /\ UNCHANGED channels

\* removeConnection; the thread is the main loop's.
RemoveConnection(loops, c) ==
  /\ map' = map \ {c}
  /\ loop' = QueueInLoop(loops, Main, conn[c].loop, Functor("destroyed", c))

-----------------------------------------------------------------------------
(* EventLoop: one turn of a loop.                                          *)

\* The channels of loop l that have something to report.
Ready(l) ==
  {[channel |-> c, revents |-> Revents(conn[c])] :
     c \in {d \in Existing : conn[d].loop = l /\ Revents(conn[d]) # {}}}
  \cup (IF l = Main /\ backlog # <<>> THEN {[channel |-> Acceptor, revents |-> {"in"}]} ELSE {})
  \cup (IF loop[l].woken THEN {[channel |-> Wakeup, revents |-> {"in"}]} ELSE {})

\* poll; its timeout of 20 seconds is left out.
Poll(l) ==
  /\ loop[l].pc = "poll" /\ Ready(l) # {}
  /\ loop' = [loop EXCEPT ![l].pc = "events", ![l].active = Ready(l)]
  /\ UNCHANGED <<threadNum, limit, next, channels, conn, map, backlog>>

\* handleEvent of one active channel.
HandleChannel(l) ==
  /\ loop[l].pc = "events"
  /\ \E a \in loop[l].active :
       LET loops == [loop EXCEPT ![l].active = @ \ {a}]
       IN  \/ /\ a.channel = Wakeup
              /\ loop' = [loops EXCEPT ![l].woken = FALSE]
              /\ UNCHANGED <<next, channels, conn, map, backlog>>
           \/ /\ a.channel = Acceptor
              /\ HandleConnection(loops)
           \/ /\ a.channel \in Conns
              /\ \E close \in BOOLEAN :
                   LET c == a.channel
                       k == HandleEvent(conn[c], a.revents, close)
                   IN  /\ conn' = [conn EXCEPT ![c] = k]
                       /\ IF k.life # "closed"
                            THEN loop' = loops /\ UNCHANGED map
                            ELSE IF l = Main
                              THEN RemoveConnection(loops, c)
                              ELSE /\ loop' = QueueInLoop(loops, l, Main, Functor("remove", c))
                                   /\ UNCHANGED map
              /\ UNCHANGED <<next, channels, backlog>>
  /\ UNCHANGED <<threadNum, limit>>

\* doPendingFunctors: the functors are swapped out, ...
SwapFunctors(l) ==
  /\ loop[l].pc = "events" /\ loop[l].active = {}
  /\ loop' = [loop EXCEPT ![l].pc = IF loop[l].pending = <<>> THEN "poll" ELSE "functors",
                          ![l].functors = loop[l].pending, ![l].pending = <<>>]
  /\ UNCHANGED <<threadNum, limit, next, channels, conn, map, backlog>>

\* ... run in order, ...
RunFunctor(l) ==
  /\ loop[l].pc = "functors" /\ loop[l].done < Len(loop[l].functors)
  /\ LET f == loop[l].functors[loop[l].done + 1]
         c == f.conn
         loops == [loop EXCEPT ![l].done = @ + 1]
     IN  \/ /\ f.op = "established"
            /\ conn' = [conn EXCEPT ![c] = ConnectionEstablished(@)]
            /\ channels' = [channels EXCEPT ![l][conn[c].fd] = c]
            /\ loop' = loops
            /\ UNCHANGED map
         \/ /\ f.op = "remove"
            /\ RemoveConnection(loops, c)
            /\ UNCHANGED <<channels, conn>>
         \/ /\ f.op = "destroyed"
            /\ conn' = [conn EXCEPT ![c] = ConnectionDestroyed(@)]
            /\ channels' = [channels EXCEPT ![l][conn[c].fd] = NoConn]
            /\ loop' = loops
            /\ UNCHANGED map
  /\ UNCHANGED <<threadNum, limit, next, backlog>>

\* The shared_ptrs to c: the map's and the functors'.
Held(loops, c) ==
  \/ c \in map
  \/ \E l \in Loops : \E i \in DOMAIN loops[l].pending : loops[l].pending[i].conn = c
  \/ \E l \in Loops : \E i \in DOMAIN loops[l].functors : loops[l].functors[i].conn = c

\* What is left of a connection: history.
Freed(k) ==
  [NewConn EXCEPT !.life = "freed", !.peer = k.peer, !.requests = k.requests]

\* ... and destroyed; ~TcpConnection, which closes the descriptor, comes with the
\* last shared_ptr.
EndFunctors(l) ==
  /\ loop[l].pc = "functors" /\ loop[l].done = Len(loop[l].functors)
  /\ loop' = [loop EXCEPT ![l].pc = "poll", ![l].functors = <<>>, ![l].done = 0]
  /\ conn' = [c \in Conns |->
                IF c \in Existing /\ ~Held(loop', c)
                  THEN Freed(conn[c]) ELSE conn[c]]
  /\ UNCHANGED <<threadNum, limit, next, channels, map, backlog>>

LoopStep(l) ==
  Poll(l) \/ HandleChannel(l) \/ SwapFunctors(l) \/ RunFunctor(l) \/ EndFunctors(l)

-----------------------------------------------------------------------------
(* The clients.                                                            *)

Arrived == Cardinality({c \in Conns : conn[c].life # "none"})

ClientConnects ==
  /\ Arrived < MaxClients
  /\ conn' = [conn EXCEPT ![Arrived + 1].life = "queued"]
  /\ backlog' = Append(backlog, Arrived + 1)
  /\ UNCHANGED <<threadNum, limit, next, loop, channels, map>>

Connected(c) == conn[c].life \in {"queued", "posted", "up"}

Client(c, k) ==
  /\ conn' = [conn EXCEPT ![c] = k]
  /\ UNCHANGED <<threadNum, limit, next, loop, channels, map, backlog>>

Requests == FoldFunction(+, 0, [c \in Conns |-> conn[c].requests])

ClientSends(c) ==
  /\ Connected(c) /\ conn[c].peer = "open" /\ Requests + limit < MaxLoad
  /\ Client(c, [conn[c] EXCEPT !.requests = @ + 1, !.inbox = @ + 1])

ClientReads(c) ==
  /\ conn[c].peer # "reset" /\ conn[c].sock # <<>>
  /\ Client(c, [conn[c] EXCEPT !.got = Append(@, Head(conn[c].sock)), !.sock = Tail(@)])

ClientCloses(c) ==
  /\ Connected(c) /\ conn[c].peer = "open"
  /\ Client(c, [conn[c] EXCEPT !.peer = "closed"])

ClientResets(c) ==
  /\ Connected(c) /\ conn[c].peer # "reset"
  /\ Client(c, [conn[c] EXCEPT !.peer = "reset", !.error = TRUE])

-----------------------------------------------------------------------------
OldNext ==
  \/ \E l \in 0 .. threadNum : LoopStep(l)
  \/ ClientConnects
  \/ \E c \in Conns : ClientSends(c) \/ ClientReads(c) \/ ClientCloses(c) \/ ClientResets(c)

OldSpec == OldInit /\ [][OldNext]_oldVars

\* Every loop runs; a client reads what has come.
OldFairSpec ==
  /\ OldSpec
  /\ \A l \in Loops : WF_oldVars(LoopStep(l))
  /\ \A c \in Conns : WF_oldVars(ClientReads(c))

-----------------------------------------------------------------------------
(* Properties.                                                             *)

\* All that was taken for a client, from what it has read to what waits.
Stream(k) == k.got \o k.sock \o k.output

\* A unit is followed by the next of its answer, the last by the first of a later one.
Follows(t, u) ==
  IF t[2] < ReplySize THEN u = <<t[1], t[2] + 1>> ELSE u[1] > t[1] /\ u[2] = 1

\* Units that are whole answers, of the first n and in order.
Whole(units, n) ==
  /\ units # <<>> => units[1][2] = 1 /\ units[Len(units)][2] = ReplySize
  /\ \A j \in 1 .. Len(units) - 1 : Follows(units[j], units[j + 1])
  /\ \A j \in DOMAIN units : units[j][1] <= n

\* An answer may be given up when write fails (sendInThread does not tell EAGAIN
\* from an error), but never a part of it, and never out of order; and the write
\* side is not shut before all of them are with the kernel (shutdownInLoop).
AnswersWhole ==
  \A c \in Conns :
    /\ Whole(Stream(conn[c]), conn[c].answers)
    /\ conn[c].shut => conn[c].output = <<>>

\* The pointers that keep nothing alive: a poller's and the active channels' are to
\* connections that exist, on their own loop and under their own descriptor, which
\* no other connection has (updateChannel's and removeChannel's asserts).
NothingDangles ==
  /\ \A l \in Loops, f \in Fds : channels[l][f] # NoConn =>
       LET k == conn[channels[l][f]]
       IN  k.life \in {"up", "closed"} /\ k.fd = f /\ k.loop = l /\ k.state # "new"
  /\ \A c \in Existing : conn[c].life \in {"up", "closed"} =>
       channels[conn[c].loop][conn[c].fd] = c
  /\ \A l \in Loops : \A a \in loop[l].active :
       a.channel \in Conns => a.channel \in Existing /\ conn[a.channel].life = "up"
  /\ \A c, d \in Existing : conn[c].fd = conn[d].fd => c = d
  /\ \A c \in Conns : conn[c].life = "down" => conn[c].events = {}

\* A connection whose client has gone is freed, and its descriptor with it, through
\* three functors on two loops (handleClose, removeConnection, connectionDestroyed).
GoneAreFreed ==
  \A c \in Conns :
    (c \in Existing /\ conn[c].peer # "open") ~> (conn[c].life = "freed")

\* A shutdown that had to wait for the output takes place, unless the client goes.
ShutdownHappens ==
  \A c \in Conns :
    conn[c].needDisconn ~> (conn[c].shut \/ conn[c].peer # "open")
=============================================================================
