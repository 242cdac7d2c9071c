---------------------------- MODULE TcpConnection ----------------------------
(***************************************************************************)
(* One connection of a TcpServer (matelib/TcpConnection.cc): its life from *)
(* the accepted socket to the closed one, its output buffer and its        *)
(* channel.                                                                *)
(*                                                                         *)
(* The threads: the I/O loop that owns the connection, the server's base   *)
(* loop, which owns the connection map (it may be the same thread), and    *)
(* other threads that hold a shared_ptr and call send and shutdown.  What  *)
(* the loops run for each other is queued as functors (module EventLoop):  *)
(* those bound to the shared_ptr keep the connection alive until the batch *)
(* they ran in ends; those bound to the raw this do not.                   *)
(*                                                                         *)
(* The data are units numbered as sendInThread accepts them, so the order  *)
(* in which they reach the socket can be read off it.                      *)
(***************************************************************************)
EXTENDS Naturals, Sequences, Channel

CONSTANTS
  Users,         \* the other threads
  CrossThread,   \* what they call: a subset of {"send", "shutdown"}
  ServerMayDie,  \* the TcpServer may be destroyed while the connection lives
  MsgLen,        \* the length of a message
  SndBuf,        \* the room in the socket's send buffer
  MaxSends,      \* bound: calls of send
  MaxInput       \* bound: messages from the peer

ASSUME CrossThreadAssumption == CrossThread \subseteq {"send", "shutdown"}
ASSUME FlagsAssumption == ServerMayDie \in BOOLEAN
ASSUME SizesAssumption == MsgLen \in Nat \ {0} /\ SndBuf \in Nat \ {0}
ASSUME BoundsAssumption == MaxSends \in Nat /\ MaxInput \in Nat

VARIABLES
  sameLoop,     \* the I/O loop is the base loop (a server without I/O threads)
  state,        \* state_
  channel,      \* channel_ and its place in the poller
  output,       \* outputBuffer_
  sock,         \* the socket: room, write half shut, pending error, peer's FIN, input
  ioPc,         \* where the I/O loop is
  after,        \* where it goes when the user's callback returns
  revents,      \* the callbacks Channel::handleEvent still has to make
  pending,      \* the I/O loop's pendingFunctors_
  batch,        \* the functors it still has to run
  batchHolds,   \* the batch holds a shared_ptr to the connection
  removals,     \* removeConnectionInLoop functors queued on the base loop
  inMap,        \* the server's connectionMap_ holds the connection
  holders,      \* the other threads that hold a shared_ptr
  userPc,       \* what each of them is doing
  serverAlive,  \* the TcpServer exists
  failure,      \* the assert that failed or the freed object that was used
  wire,         \* history: the units given to the socket, in order
  accepted,     \* history: how many units sendInThread accepted
  callbacks,    \* history: the calls of connectionCallback_
  overClose,    \* history: kDisconnecting was stored over kDisconnected
  late,         \* history: a call was queued behind connectionDestroyed
  sends,        \* history: how many times send was called
  received      \* history: how many messages the peer sent

vars == <<sameLoop, state, channel, output, sock, ioPc, after, revents, pending, batch,
          batchHolds, removals, inMap, holders, userPc, serverAlive, failure, wire,
          accepted, callbacks, overClose, late, sends, received>>

ioVars    == <<ioPc, after, revents>>
queueVars == <<pending, batch, batchHolds, removals>>
ownerVars == <<inMap, holders, userPc, serverAlive, sameLoop>>
dataVars  == <<output, wire, accepted>>
envVars   == <<overClose, late, sends, received>>

States == {"kConnecting", "kConnected", "kDisconnecting", "kDisconnected"}
Functors == {"established", "destroyed", "send", "shutdown"}

\* Faulty variant: connectionDestroyed is bound to this.
HoldingLess == {"established"}

\* Functors bound to a shared_ptr, not to this.
Holding == {"established", "destroyed"}

TypeOK ==
  /\ sameLoop \in BOOLEAN
  /\ state \in States
  /\ channel \in ChannelType
  /\ output \in Seq(Nat)
  /\ sock \in [room : 0 .. SndBuf, wrShut : BOOLEAN, err : {"none", "reset", "dead"},
               fin : BOOLEAN, input : BOOLEAN]
  /\ ioPc \in {"poll", "event", "callback", "cleanup", "remove", "swap", "functors", "stopped",
             "aborted"}
  /\ after \in {"event", "cleanup", "remove", "functors"}
  /\ revents \in SUBSET {"close", "err", "read", "write"}
  /\ pending \in Seq(Functors)
  /\ batch \in Seq(Functors)
  /\ batchHolds \in BOOLEAN
  /\ removals \in Nat
  /\ inMap \in BOOLEAN
  /\ holders \in SUBSET Users
  /\ userPc \in [Users -> {"idle", "send", "setState", "shutdown"}]
  /\ serverAlive \in BOOLEAN
  /\ failure \in {"none", "handleClose", "remove", "freed"}
  /\ wire \in Seq(Nat)
  /\ accepted \in Nat
  /\ callbacks \in Seq({"up", "down"})
  /\ overClose \in BOOLEAN
  /\ late \in BOOLEAN
  /\ sends \in Nat
  /\ received \in Nat

\* handleConnection has made the connection, put it in the map and handed
\* connectionEstablished to its loop.
Init ==
  /\ sameLoop \in BOOLEAN
  /\ state = "kConnecting"
  /\ channel = NewChannel
  /\ output = <<>>
  /\ sock = [room |-> SndBuf, wrShut |-> FALSE, err |-> "none", fin |-> FALSE, input |-> FALSE]
  /\ ioPc = "poll"
  /\ after = "functors"
  /\ revents = {}
  /\ pending = <<"established">>
  /\ batch = <<>>
  /\ batchHolds = FALSE
  /\ removals = 0
  /\ inMap = TRUE
  /\ holders = {}
  /\ userPc = [u \in Users |-> "idle"]
  /\ serverAlive = TRUE
  /\ failure = "none"
  /\ wire = <<>>
  /\ accepted = 0
  /\ callbacks = <<>>
  /\ overClose = FALSE
  /\ late = FALSE
  /\ sends = 0
  /\ received = 0

\* Somebody holds the shared_ptr.  The last holder to go runs ~TcpConnection,
\* which closes the socket.
Alive ==
  \/ inMap
  \/ holders # {}
  \/ \E i \in DOMAIN pending : pending[i] \in Holding
  \/ batchHolds
  \/ removals > 0
  \/ ioPc = "cleanup" \/ (ioPc = "callback" /\ after \in {"event", "cleanup"})

\* An assert fails or freed memory is used: the process is lost, and its loops
\* go no further.
Fail(why) == failure' = why /\ ioPc' = "aborted"

-----------------------------------------------------------------------------
(* sendInThread and shutdownInLoop, on the I/O loop's thread.              *)

Units(from, n) == [i \in 1 .. n |-> from + i]

\* write(2) takes what fits; the rest meets EWOULDBLOCK.
Fits(n) == IF n <= sock.room THEN n ELSE sock.room

\* write(2) fails with EPIPE.  The first call on a socket the peer has reset fails
\* with ECONNRESET instead, unless the peer had closed it before.
Broken ==
  \/ sock.err = "dead"
  \/ sock.err = "reset" /\ sock.fin
  \/ sock.err = "none" /\ sock.wrShut

\* A call on a reset socket takes its pending error.
AfterCall == IF sock.err = "reset" THEN [sock EXCEPT !.err = "dead"] ELSE sock

\* Faulty variant: always write at once.
AlwaysDirect == TRUE

\* The data are written at once when no others wait before them.
Direct == ~IsWriting(channel) /\ output = <<>>

SendInThread ==
  LET direct == Direct
      data   == Units(accepted, MsgLen)
      nwrote == IF direct /\ sock.err = "none" THEN Fits(MsgLen) ELSE 0
      kept   == SubSeq(data, nwrote + 1, MsgLen)
  IN  IF state = "kDisconnected" \/ (direct /\ Broken)
        THEN /\ sock' = IF direct THEN AfterCall ELSE sock
             /\ UNCHANGED <<dataVars, channel>>
        ELSE /\ wire' = wire \o SubSeq(data, 1, nwrote)
             /\ output' = output \o kept
             /\ accepted' = accepted + MsgLen
             /\ sock' = IF direct THEN [AfterCall EXCEPT !.room = @ - nwrote] ELSE sock
             /\ channel' = IF kept # <<>> /\ ~IsWriting(channel)
                             THEN EnableWriting(channel) ELSE channel

\* Faulty variant: whatever waits in outputBuffer_.
ShutdownAtOnce(s, ch) == [s EXCEPT !.wrShut = TRUE]

\* ShutdownInLoop(s, ch): the socket after shutdownInLoop.
ShutdownInLoop(s, ch) == IF IsWriting(ch) THEN s ELSE [s EXCEPT !.wrShut = TRUE]

-----------------------------------------------------------------------------
(* The user's callbacks, on the I/O loop's thread.  They may send, shut    *)
(* down and hand the shared_ptr to another thread before they return.      *)

InCallback == ioPc = "callback"

LoopSend ==
  /\ InCallback
  /\ sends < MaxSends
  /\ sends' = sends + 1
  /\ IF state = "kConnected" THEN SendInThread ELSE UNCHANGED <<dataVars, sock, channel>>
  /\ UNCHANGED <<state, ioVars, queueVars, ownerVars, failure, callbacks, overClose, late,
                 received>>

LoopShutdown ==
  /\ InCallback
  /\ state = "kConnected"
  /\ state' = "kDisconnecting"
  /\ sock' = ShutdownInLoop(sock, channel)
  /\ UNCHANGED <<channel, ioVars, queueVars, ownerVars, failure, dataVars, callbacks, envVars>>

GiveRef(u) ==
  /\ InCallback
  /\ holders' = holders \cup {u}
  /\ UNCHANGED <<state, channel, sock, ioVars, queueVars, inMap, userPc, serverAlive, sameLoop,
                 failure, dataVars, callbacks, envVars>>

CallbackReturns ==
  /\ InCallback
  /\ ioPc' = after
  /\ UNCHANGED <<state, channel, sock, after, revents, queueVars, ownerVars, failure, dataVars,
                 callbacks, envVars>>

-----------------------------------------------------------------------------
(* The other threads.  A call made there is split at its accesses to       *)
(* state_, which no lock protects, and at the queueing of its functor.     *)

Post(f) == pending' = Append(pending, f)

\* send: if (state_ == kConnected).
SendCheck(u) ==
  /\ "send" \in CrossThread
  /\ u \in holders /\ userPc[u] = "idle"
  /\ sends < MaxSends
  /\ sends' = sends + 1
  /\ userPc' = [userPc EXCEPT ![u] = IF state = "kConnected" THEN "send" ELSE "idle"]
  /\ UNCHANGED <<state, channel, sock, ioVars, queueVars, inMap, holders, serverAlive, sameLoop,
                 failure, dataVars, callbacks, overClose, late, received>>

\* runInLoop on the I/O loop, if it still exists.  Once the connection is out of the
\* map, connectionDestroyed has been queued before.
RunInLoop(f) ==
  /\ IF ioPc = "stopped" THEN Fail("freed") /\ UNCHANGED pending
                         ELSE Post(f) /\ UNCHANGED <<ioPc, failure>>
  /\ late' = (late \/ ~inMap)

\* runInLoop(bind(sendInLoop, this, message)).
SendPost(u) ==
  /\ userPc[u] = "send"
  /\ RunInLoop("send")
  /\ userPc' = [userPc EXCEPT ![u] = "idle"]
  /\ UNCHANGED <<state, channel, sock, after, revents, batch, batchHolds, removals, inMap, holders,
                 serverAlive, sameLoop, dataVars, callbacks, overClose, sends, received>>

\* shutdown: if (state_ == kConnected).
ShutdownCheck(u) ==
  /\ "shutdown" \in CrossThread
  /\ u \in holders /\ userPc[u] = "idle"
  /\ state = "kConnected"
  /\ userPc' = [userPc EXCEPT ![u] = "setState"]
  /\ UNCHANGED <<state, channel, sock, ioVars, queueVars, inMap, holders, serverAlive, sameLoop,
                 failure, dataVars, callbacks, envVars>>

\* setState(kDisconnecting).
ShutdownSet(u) ==
  /\ userPc[u] = "setState"
  /\ overClose' = (overClose \/ state = "kDisconnected")
  /\ state' = "kDisconnecting"
  /\ userPc' = [userPc EXCEPT ![u] = "shutdown"]
  /\ UNCHANGED <<channel, sock, ioVars, queueVars, inMap, holders, serverAlive, sameLoop,
                 failure, dataVars, callbacks, late, sends, received>>

\* runInLoop(bind(shutdownInLoop, this)).
ShutdownPost(u) ==
  /\ userPc[u] = "shutdown"
  /\ RunInLoop("shutdown")
  /\ userPc' = [userPc EXCEPT ![u] = "idle"]
  /\ UNCHANGED <<state, channel, sock, after, revents, batch, batchHolds, removals, inMap, holders,
                 serverAlive, sameLoop, dataVars, callbacks, overClose, sends, received>>

\* The shared_ptr is dropped, also while functors bound to the raw this wait.
DropRef(u) ==
  /\ u \in holders /\ userPc[u] = "idle"
  /\ holders' = holders \ {u}
  /\ UNCHANGED <<state, channel, sock, ioVars, queueVars, inMap, userPc, serverAlive, sameLoop,
                 failure, dataVars, callbacks, envVars>>

-----------------------------------------------------------------------------
(* The I/O loop: its poller and the channel's handlers.                    *)

\* What poll can report of the socket.
Possible == {e \in {"read", "write", "hup", "err"} :
  \/ e = "read"  /\ (sock.input \/ sock.fin \/ sock.err # "none")
  \/ e = "write" /\ (sock.room > 0 \/ sock.wrShut \/ sock.err # "none")
  \/ e = "hup"   /\ ((sock.fin /\ sock.wrShut) \/ sock.err # "none")
  \/ e = "err"   /\ sock.err = "reset"}

\* Closing the descriptor takes it out of epoll, whatever the poller notes.
Ready == IF Alive THEN Reported(channel, Possible) ELSE {}

PollEvents ==
  /\ ioPc = "poll"
  /\ Ready # {}
  /\ revents' = Handled(Ready)
  /\ ioPc' = "event"
  /\ UNCHANGED <<state, channel, sock, after, queueVars, ownerVars, failure, dataVars, callbacks,
                 envVars>>

\* Woken up for its functors only.
PollWakeup ==
  /\ ioPc = "poll"
  /\ Ready = {}
  /\ pending # <<>>
  /\ ioPc' = "swap"
  /\ UNCHANGED <<state, channel, sock, after, revents, queueVars, ownerVars, failure, dataVars,
                 callbacks, envVars>>

\* handleError: SO_ERROR takes the pending error and reports it, no more.
HandleError ==
  /\ ioPc = "event" /\ TurnOf("err", revents)
  /\ revents' = revents \ {"err"}
  /\ sock' = AfterCall
  /\ UNCHANGED <<state, channel, ioPc, after, queueVars, ownerVars, failure, dataVars, callbacks,
                 envVars>>

\* handleRead gets data and calls messageCallback_.
HandleMessage ==
  /\ ioPc = "event" /\ TurnOf("read", revents)
  /\ sock.input
  /\ sock' = [sock EXCEPT !.input = FALSE]
  /\ revents' = revents \ {"read"}
  /\ ioPc' = "callback" /\ after' = "event"
  /\ UNCHANGED <<state, channel, queueVars, ownerVars, failure, dataVars, callbacks, envVars>>

\* readv returns 0, or the peer has hung up: handleClose up to connectionCallback_.
\* (readv does not fail here: what made the socket readable is still there, and a
\* pending error has just been taken.)
HandleClose(e) ==
  /\ ioPc = "event" /\ TurnOf(e, revents)
  /\ e = "read" => ~sock.input
  /\ revents' = revents \ {e}
  /\ IF state \in {"kConnected", "kDisconnecting"}
       THEN /\ state' = "kDisconnected"
            /\ channel' = DisableAll(channel)
            /\ callbacks' = Append(callbacks, "down")
            /\ ioPc' = "callback" /\ after' = "cleanup"
            /\ UNCHANGED failure
       ELSE /\ Fail("handleClose")
            /\ UNCHANGED <<state, channel, callbacks, after>>
  /\ UNCHANGED <<sock, queueVars, ownerVars, dataVars, envVars>>

\* cleanupCallback_: TcpServer::removeConnection.  On the base loop itself
\* removeConnectionInLoop runs at once.  A server that is being destroyed still
\* waits for this loop, so its baseLoop_ can be read.
Cleanup ==
  /\ ioPc = "cleanup"
  /\ IF sameLoop
       THEN IF serverAlive
              THEN /\ inMap' = FALSE /\ Post("destroyed")
                   /\ ioPc' = "event" /\ UNCHANGED failure
              ELSE Fail("freed") /\ UNCHANGED <<inMap, pending>>
       ELSE ioPc' = "event" /\ UNCHANGED <<inMap, pending, failure>>
  /\ removals' = IF sameLoop THEN removals ELSE removals + 1
  /\ UNCHANGED <<state, channel, sock, after, revents, batch, batchHolds, holders, userPc,
                 serverAlive, sameLoop, dataVars, callbacks, envVars>>

\* Faulty variant: a shutdown asked for earlier is forgotten.
ForgetShutdown(s, before, ch) == s

\* outputBuffer_ has just been emptied: the shutdown that waited for it.
DeferredShutdown(s, before, ch) ==
  IF ch # before /\ state = "kDisconnecting" THEN ShutdownInLoop(s, ch) ELSE s

\* handleWrite, after handleRead.
HandleWrite ==
  /\ ioPc = "event" /\ TurnOf("write", revents)
  /\ revents' = {}
  /\ LET n    == IF sock.wrShut \/ sock.err # "none" THEN 0 ELSE Fits(Len(output))
         rest == SubSeq(output, n + 1, Len(output))
         ch   == IF n > 0 /\ rest = <<>> THEN DisableWriting(channel) ELSE channel
         s    == [AfterCall EXCEPT !.room = @ - n]
     IN  IF ~IsWriting(channel)
           THEN UNCHANGED <<wire, output, channel, sock>>
           ELSE /\ wire' = wire \o SubSeq(output, 1, n)
                /\ output' = rest
                /\ channel' = ch
                /\ sock' = DeferredShutdown(s, channel, ch)
  /\ UNCHANGED <<state, ioPc, after, queueVars, ownerVars, failure, accepted, callbacks, envVars>>

EventsDone ==
  /\ ioPc = "event" /\ revents = {}
  /\ ioPc' = "swap"
  /\ UNCHANGED <<state, channel, sock, after, revents, queueVars, ownerVars, failure, dataVars,
                 callbacks, envVars>>

\* The loop finds quit_ set by ~EventLoopThread and is destroyed with the functors
\* that wait in it.
StopLoop ==
  /\ ioPc = "poll" /\ ~serverAlive
  /\ ioPc' = "stopped"
  /\ pending' = <<>>
  /\ UNCHANGED <<state, channel, sock, after, revents, batch, batchHolds, removals, ownerVars,
                 failure, dataVars, callbacks, envVars>>

-----------------------------------------------------------------------------
(* The I/O loop: its functors.                                             *)

SwapFunctors ==
  /\ ioPc = "swap"
  /\ batch' = pending
  /\ batchHolds' = (\E i \in DOMAIN pending : pending[i] \in Holding)
  /\ pending' = <<>>
  /\ ioPc' = "functors"
  /\ UNCHANGED <<state, channel, sock, after, revents, removals, ownerVars, failure, dataVars,
                 callbacks, envVars>>

\* The batch's end: the local vector, and the shared_ptrs in it, are destroyed.
FunctorsDone ==
  /\ ioPc = "functors" /\ batch = <<>>
  /\ batchHolds' = FALSE
  /\ ioPc' = "poll"
  /\ UNCHANGED <<state, channel, sock, after, revents, pending, batch, removals, ownerVars,
                 failure, dataVars, callbacks, envVars>>

NextFunctor(f) ==
  /\ ioPc = "functors"
  /\ batch # <<>> /\ Head(batch) = f
  /\ batch' = Tail(batch)

ConnectionEstablished ==
  /\ NextFunctor("established")
  /\ state' = "kConnected"
  /\ channel' = EnableReading(channel)
  /\ callbacks' = Append(callbacks, "up")
  /\ ioPc' = "callback" /\ after' = "functors"
  /\ UNCHANGED <<sock, revents, pending, batchHolds, removals, ownerVars, failure, dataVars,
                 envVars>>

\* Faulty variant: connectionDestroyed does not look at state_.
ConnectionDestroyedAlways ==
  /\ NextFunctor("destroyed")
  /\ state' = "kDisconnected"
  /\ channel' = DisableAll(channel)
  /\ callbacks' = Append(callbacks, "down")
  /\ ioPc' = "callback" /\ after' = "remove"
  /\ UNCHANGED <<sock, revents, pending, batchHolds, removals, ownerVars, failure, dataVars,
                 envVars>>

\* connectionDestroyed up to its connectionCallback_.
ConnectionDestroyed ==
  /\ NextFunctor("destroyed")
  /\ IF state = "kConnected"
       THEN /\ state' = "kDisconnected"
            /\ channel' = DisableAll(channel)
            /\ callbacks' = Append(callbacks, "down")
            /\ ioPc' = "callback" /\ after' = "remove"
       ELSE /\ ioPc' = "remove"
            /\ UNCHANGED <<state, channel, callbacks, after>>
  /\ UNCHANGED <<sock, revents, pending, batchHolds, removals, ownerVars, failure, dataVars,
                 envVars>>

\* Its channel_->remove().
RemoveFromPoller ==
  /\ ioPc = "remove"
  /\ IF MayRemove(channel)
       THEN channel' = RemoveChannel(channel) /\ ioPc' = "functors" /\ UNCHANGED failure
       ELSE Fail("remove") /\ UNCHANGED channel
  /\ UNCHANGED <<state, sock, after, revents, queueVars, ownerVars, dataVars, callbacks, envVars>>

RunSend ==
  /\ NextFunctor("send")
  /\ IF Alive THEN SendInThread /\ UNCHANGED <<failure, ioPc>>
              ELSE Fail("freed") /\ UNCHANGED <<dataVars, sock, channel>>
  /\ UNCHANGED <<state, after, revents, pending, batchHolds, removals, ownerVars, callbacks, envVars>>

RunShutdown ==
  /\ NextFunctor("shutdown")
  /\ IF Alive THEN sock' = ShutdownInLoop(sock, channel) /\ UNCHANGED <<failure, ioPc>>
              ELSE Fail("freed") /\ UNCHANGED sock
  /\ UNCHANGED <<state, channel, after, revents, pending, batchHolds, removals, ownerVars, dataVars,
                 callbacks, envVars>>

-----------------------------------------------------------------------------
(* The base loop, when it is another thread.                               *)

\* removeConnectionInLoop: out of the map, connectionDestroyed to the I/O loop.
\* ~TcpServer occupies the base loop's thread until the I/O loop has stopped.
RemoveConnectionInLoop ==
  /\ removals > 0 /\ failure = "none"
  /\ serverAlive \/ ioPc = "stopped"
  /\ removals' = removals - 1
  /\ IF serverAlive
       THEN inMap' = FALSE /\ Post("destroyed") /\ UNCHANGED <<failure, ioPc>>
       ELSE Fail("freed") /\ UNCHANGED <<inMap, pending>>
  /\ UNCHANGED <<state, channel, sock, after, revents, batch, batchHolds, holders, userPc, serverAlive,
                 sameLoop, dataVars, callbacks, envVars>>

\* ~TcpServer: connectionDestroyed for every connection in the map; then its
\* ioThreadPool_ goes, which makes the I/O loop quit.  On the base loop itself, between
\* two rounds or when it has ended, connectionDestroyed runs at once; there
\* connectionEstablished has run as soon as the connection was made.
DestroyServer ==
  /\ ServerMayDie /\ serverAlive /\ failure = "none"
  /\ sameLoop => ioPc = "poll" /\ state # "kConnecting"
  /\ serverAlive' = FALSE
  /\ inMap' = FALSE
  /\ IF inMap /\ ~sameLoop THEN Post("destroyed") ELSE UNCHANGED pending
  /\ IF inMap /\ sameLoop
       THEN batch' = <<"destroyed">> /\ batchHolds' = TRUE /\ ioPc' = "functors"
       ELSE UNCHANGED <<batch, batchHolds, ioPc>>
  /\ UNCHANGED <<state, channel, sock, after, revents, removals, holders, userPc,
                 sameLoop, failure, dataVars, callbacks, envVars>>

-----------------------------------------------------------------------------
(* The peer and the kernel.                                                *)

Environment(s) ==
  /\ sock' = s
  /\ UNCHANGED <<state, channel, ioVars, queueVars, ownerVars, failure, dataVars, callbacks,
                 overClose, late, sends>>

PeerAlive == ~sock.fin /\ sock.err = "none"

PeerSends ==
  /\ PeerAlive /\ ~sock.input /\ received < MaxInput
  /\ received' = received + 1
  /\ Environment([sock EXCEPT !.input = TRUE])

PeerDrains ==
  /\ sock.err = "none" /\ sock.room < SndBuf
  /\ Environment([sock EXCEPT !.room = SndBuf]) /\ UNCHANGED received

PeerCloses ==
  /\ PeerAlive
  /\ Environment([sock EXCEPT !.fin = TRUE]) /\ UNCHANGED received

PeerResets ==
  /\ sock.err = "none"
  /\ Environment([sock EXCEPT !.err = "reset"]) /\ UNCHANGED received

-----------------------------------------------------------------------------
IoLoop ==
  \/ LoopSend \/ LoopShutdown \/ (\E u \in Users : GiveRef(u)) \/ CallbackReturns
  \/ PollEvents \/ PollWakeup \/ HandleError \/ HandleMessage
  \/ (\E e \in {"read", "close"} : HandleClose(e)) \/ Cleanup \/ HandleWrite \/ EventsDone
  \/ StopLoop
  \/ SwapFunctors \/ FunctorsDone \/ ConnectionEstablished \/ ConnectionDestroyed
  \/ RemoveFromPoller \/ RunSend \/ RunShutdown

User(u) ==
  \/ SendCheck(u) \/ SendPost(u)
  \/ ShutdownCheck(u) \/ ShutdownSet(u) \/ ShutdownPost(u)
  \/ DropRef(u)

Peer == PeerSends \/ PeerDrains \/ PeerCloses \/ PeerResets

Next ==
  \/ IoLoop
  \/ \E u \in Users : User(u)
  \/ RemoveConnectionInLoop
  \/ DestroyServer
  \/ Peer

Spec == Init /\ [][Next]_vars

\* Threads keep running, users' callbacks return, other threads finish their
\* calls and in the end drop their shared_ptr, and the peer reads what is sent.
\* Strong for StopLoop: quit_ stays set, so a loop that polls again and again must
\* read it.
Fairness ==
  /\ WF_vars(CallbackReturns \/ PollEvents \/ PollWakeup \/ HandleError \/ HandleMessage
                \/ (\E e \in {"read", "close"} : HandleClose(e))
                \/ Cleanup \/ HandleWrite \/ EventsDone
                \/ SwapFunctors \/ FunctorsDone \/ ConnectionEstablished
                \/ ConnectionDestroyed \/ RemoveFromPoller \/ RunSend \/ RunShutdown)
  /\ SF_vars(StopLoop)
  /\ \A u \in Users : WF_vars(SendPost(u) \/ ShutdownSet(u) \/ ShutdownPost(u))
  /\ \A u \in Users : WF_vars(DropRef(u))
  /\ WF_vars(RemoveConnectionInLoop)
  /\ WF_vars(PeerDrains)

FairSpec == Spec /\ Fairness

-----------------------------------------------------------------------------
(* Properties.                                                             *)

\* The two things that break the connection's protocol.  A thread that calls
\* shutdown may read kConnected and store kDisconnecting after handleClose has
\* stored kDisconnected; and the TcpServer may go before its connections do.
Undisturbed == serverAlive /\ ~overClose

\* Short of those two no assert of the connection, its channel or its poller
\* fails and nothing freed is used (handleClose, Channel::remove).  The functors bound
\* to a raw this are among what may not meet a freed object, although a thread may drop
\* its shared_ptr before its functor runs: what was queued before connectionDestroyed
\* runs before the shared_ptr bound there goes.  A call that is queued behind it, by a
\* thread that found the connection up, has no such protection.
NoFailure == Undisturbed /\ ~late => failure = "none"

\* The bytes reach the socket in the order in which they were sent, none
\* skipped or repeated, whether they are written at once, wait in outputBuffer_
\* or are cut in two by a full socket (sendInThread, handleWrite).
StreamInOrder == wire \o output = Units(0, accepted)

\* Half-closing is graceful (shutdownInLoop): while the connection is up and the
\* peer has not reset it, the write half is shut only when everything accepted
\* before has been given to the socket.
FlushedBeforeShutdown ==
  (sock.wrShut /\ sock.err = "none" /\ callbacks = <<"up">>) => output = <<>>

\* The user sees the connection come up once and go down at most once, and gets
\* messages only in between (connectionEstablished, handleClose,
\* connectionDestroyed), even if the server is destroyed, unless a shutdown in
\* another thread overwrites kDisconnected.
CallbackProtocol ==
  ~overClose =>
  /\ callbacks \in {<<>>, <<"up">>, <<"up", "down">>}
  /\ (InCallback /\ after = "event") => callbacks = <<"up">>

\* The object outlives every handler that runs on it, and is freed only when the
\* poller has forgotten it: channels_ keeps no pointer to a dead channel
\* (removeConnectionInLoop, connectionDestroyed).
NeverFreedInUse ==
  Undisturbed =>
    /\ ioPc \in {"event", "callback", "cleanup", "remove"} => Alive
    /\ ~Alive => channel.state = kNew

\* A connection the peer has left is taken out of the map and the poller and its
\* socket is closed: no descriptor leaks.
PeerLeftIsReleased == (sock.fin \/ sock.err # "none") ~> (~Alive \/ failure # "none")

\* A shutdown asked for gets done: the write half is shut, unless the peer or the
\* loop has gone.
ShutdownCompletes ==
  (state = "kDisconnecting") ~>
     (sock.wrShut \/ callbacks = <<"up", "down">> \/ ioPc = "stopped" \/ failure # "none")

\* EpollPoller.cc:126, assert(isNoneEvent()) there and in Channel::remove: only a channel
\* that asks for no event is removed.
RemovedWhenQuiet == failure # "remove"
=============================================================================
