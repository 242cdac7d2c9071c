------------------------------ MODULE TcpClient ------------------------------
(***************************************************************************)
(* A client (matelib/TcpClient.cc): one socket, made by the constructor,   *)
(* that connect() tries again and again on a timer until it is connected   *)
(* or given up, and the connection on it until it is released.             *)
(*                                                                         *)
(* Everything runs on the loop's thread.  The socket is what connect(2)    *)
(* makes of it; of the TcpConnection only its state, its channel and who   *)
(* holds it are kept (module TcpConnection has the rest).  The user calls  *)
(* connect() once, shutdown() at any time, and drops the client when it    *)
(* has been told of an error or is told to clean up.                       *)
(***************************************************************************)
EXTENDS Naturals, Sequences

maxRetryTimes == 10
maxRetryDelayMs == 30000

VARIABLES
  state,         \* state_
  connectTimes,  \* connectTimes_
  retryDelayMs,  \* retryDelayMs_
  retrying,      \* a timer that calls connect() is pending
  called,        \* the user has called connect()
  sock,          \* the socket behind sockfd_
  peerGone,      \* the server has closed its end
  conn,          \* state_ of conn_
  reading,       \* conn_'s channel asks for read events
  inPoller,      \* conn_'s channel is in the poller's map
  destroying,    \* connectionDestroyed is queued, with a shared_ptr of conn_
  pc,            \* the loop, or the user's callback it is in
  owned,         \* the user holds the client
  dropped,       \* where the user let go of it
  failure,       \* a freed client is used, or an assert fails
  heard          \* what the user's callbacks have been told

clientVars == <<state, connectTimes, retryDelayMs, retrying, called, sock, peerGone, conn, reading,
          inPoller, destroying, pc, owned, dropped, failure, heard>>

tryVars  == <<connectTimes, retryDelayMs, retrying, called>>
userVars == <<owned, dropped>>

ClientTypeOK ==
  /\ state \in {"kDisconnected", "kConnected", "kConnectError"}
  /\ connectTimes \in 0 .. maxRetryTimes + 1
  /\ retryDelayMs \in 1 .. 2 * maxRetryDelayMs
  /\ retrying \in BOOLEAN
  /\ called \in BOOLEAN
  /\ sock \in {"idle", "connecting", "established", "refused", "timedOut", "connected", "closed"}
  /\ peerGone \in BOOLEAN
  /\ conn \in {"kConnecting", "kConnected", "kDisconnecting", "kDisconnected"}
  /\ reading \in BOOLEAN
  /\ inPoller \in BOOLEAN
  /\ destroying \in BOOLEAN
  /\ pc \in {"loop", "up", "down", "cleanup", "error"}
  /\ owned \in BOOLEAN
  /\ dropped \in {"no", "loop", "cleanup", "error"}
  /\ failure \in BOOLEAN
  /\ heard \in Seq({"up", "down", "cleanup", "error"})

ClientInit ==
  /\ state = "kDisconnected"
  /\ connectTimes = 0
  /\ retryDelayMs = 500
  /\ retrying = FALSE
  /\ called = FALSE
  /\ sock = "idle"
  /\ peerGone = FALSE
  /\ conn = "kConnecting"
  /\ reading = FALSE
  /\ inPoller = FALSE
  /\ destroying = FALSE
  /\ pc = "loop"
  /\ owned = TRUE
  /\ dropped = "no"
  /\ failure = FALSE
  /\ heard = <<>>

\* A callback is given a shared_ptr of the client.
ClientAlive == owned \/ pc # "loop"

\* Faulty variant: the functor is bound to the bare pointer.
ConnAliveUnheld == ClientAlive

\* conn_ and the functor hold the connection.
ConnAlive == ClientAlive \/ destroying

-----------------------------------------------------------------------------
(* The network.                                                            *)

\* What connect(2) may say of a socket, and what it makes of it.
ConnectResults ==
  CASE sock = "idle" -> {<<"EINPROGRESS", "connecting">>, <<"0", "connected">>,
                         <<"ECONNREFUSED", "idle">>, <<"EPERM", "idle">>}
    [] sock = "connecting"  -> {<<"EALREADY", "connecting">>}
    [] sock = "established" -> {<<"0", "connected">>}
    [] sock = "refused"     -> {<<"ECONNREFUSED", "idle">>}
    [] sock = "timedOut"    -> {<<"ETIMEDOUT", "idle">>}
    [] sock = "connected"   -> {<<"EISCONN", "connected">>}
    [] sock = "closed"      -> {<<"EBADF", "closed">>}

Handshake ==
  /\ sock = "connecting"
  /\ sock' \in {"established", "refused", "timedOut"}
  /\ UNCHANGED <<state, tryVars, peerGone, conn, reading, inPoller, destroying, pc, userVars,
                 failure, heard>>

PeerCloses ==
  /\ sock \in {"established", "connected"} /\ ~peerGone
  /\ peerGone' = TRUE
  /\ UNCHANGED <<state, tryVars, sock, conn, reading, inPoller, destroying, pc, userVars,
                 failure, heard>>

-----------------------------------------------------------------------------
(* connect.                                                                *)

\* A callback of the user's.
Tell(what) == pc' = what /\ heard' = Append(heard, what)

\* initConnection and, at once, connectionEstablished.
InitConnection ==
  /\ connectTimes' = 0
  /\ conn' = "kConnected"
  /\ reading' = TRUE
  /\ inPoller' = TRUE
  /\ state' = "kConnected"
  /\ Tell("up")
  /\ UNCHANGED <<retryDelayMs, destroying>>

\* retryDelayMs_ after another failure.
Backoff == IF retryDelayMs < maxRetryDelayMs THEN 2 * retryDelayMs ELSE retryDelayMs

\* runAfter(retryDelayMs_).
Retry ==
  /\ connectTimes' = connectTimes + 1
  /\ retryDelayMs' = Backoff
  /\ UNCHANGED <<state, conn, reading, inPoller, destroying, pc, heard>>

\* Faulty variant: connectionCallback_ is not told.
GiveUpSilently ==
  /\ connectTimes' = connectTimes + 1
  /\ sock' = "closed"
  /\ state' = "kConnectError"
  /\ UNCHANGED <<retryDelayMs, conn, reading, inPoller, destroying, pc, heard>>

\* The socket is closed, and connectionCallback_ is told.
GiveUp ==
  /\ connectTimes' = connectTimes + 1
  /\ sock' = "closed"
  /\ state' = "kConnectError"
  /\ Tell("error")
  /\ UNCHANGED <<retryDelayMs, conn, reading, inPoller, destroying>>

\* ECONNREFUSED stands for the other errors that connect tries again after (EINTR,
\* EAGAIN, EADDRINUSE, EADDRNOTAVAIL, ENETUNREACH).
Retried == {"EINPROGRESS", "ECONNREFUSED"}
Succeeded == {"0", "EISCONN"}

\* Faulty variant: the retried cases fall through to the failures.
AttemptFallsThrough ==
  \/ /\ connectTimes < maxRetryTimes
     /\ \E r \in ConnectResults :
          \/ r[1] \in Succeeded /\ InitConnection /\ sock' = r[2] /\ retrying' = FALSE
          \/ r[1] \notin Succeeded /\ GiveUp /\ retrying' = (r[1] \in Retried)
  \/ connectTimes >= maxRetryTimes /\ GiveUp /\ retrying' = FALSE

\* One attempt.  The test of connectTimes_ comes before its increment.
Attempt ==
  \/ /\ connectTimes < maxRetryTimes
     /\ \E r \in ConnectResults :
          \/ r[1] \in Succeeded /\ InitConnection /\ sock' = r[2] /\ retrying' = FALSE
          \/ r[1] \in Retried /\ Retry /\ sock' = r[2] /\ retrying' = TRUE
          \/ r[1] \notin Succeeded \cup Retried /\ GiveUp /\ retrying' = FALSE
  \/ connectTimes >= maxRetryTimes /\ GiveUp /\ retrying' = FALSE

\* The user's call.
Connect ==
  /\ pc = "loop" /\ owned /\ ~called
  /\ called' = TRUE
  /\ Attempt
  /\ UNCHANGED <<peerGone, userVars, failure>>

\* The timer's, which holds no shared_ptr of the client.
RetryTimer ==
  /\ pc = "loop" /\ retrying
  /\ Attempt
  /\ failure' = (failure \/ ~ClientAlive)
  /\ UNCHANGED <<called, peerGone, userVars>>

-----------------------------------------------------------------------------
(* The end of the connection.                                              *)

\* TcpClient::shutdown, by the user, in a callback or in some other handler.
Shutdown ==
  /\ owned
  /\ state' = "kDisconnected"
  /\ conn' = IF conn = "kConnected" THEN "kDisconnecting" ELSE conn
  /\ UNCHANGED <<tryVars, sock, peerGone, reading, inPoller, destroying, pc, userVars, failure,
                 heard>>

\* handleClose, and onConnection in it.
HandleClose ==
  /\ pc = "loop" /\ reading /\ peerGone
  /\ conn' = "kDisconnected"
  /\ reading' = FALSE
  /\ state' = "kDisconnected"
  /\ Tell("down")
  /\ failure' = (failure \/ ~ClientAlive)
  /\ UNCHANGED <<tryVars, sock, peerGone, inPoller, destroying, userVars>>

\* onCleanup, up to the user's callback.
OnCleanup ==
  /\ pc = "down"
  /\ Tell("cleanup")
  /\ UNCHANGED <<state, tryVars, sock, peerGone, conn, reading, inPoller, destroying, userVars,
                 failure>>

\* The rest of onCleanup uses loop_ and conn_: the shared_ptr that the user's
\* callback was given has gone.
Cleanup ==
  /\ pc = "cleanup"
  /\ pc' = "loop"
  /\ destroying' = TRUE
  /\ failure' = (failure \/ ~owned)
  /\ UNCHANGED <<state, tryVars, sock, peerGone, conn, reading, inPoller, userVars, heard>>

\* A connection or an error callback returns.
CallbackReturns ==
  /\ pc \in {"up", "error"}
  /\ pc' = "loop"
  /\ failure' = (failure \/ (pc = "up" /\ ~owned))
  /\ UNCHANGED <<state, tryVars, sock, peerGone, conn, reading, inPoller, destroying, userVars,
                 heard>>

\* connectionDestroyed, of a connection that is down: channel_->remove().
ConnectionDestroyed ==
  /\ pc = "loop" /\ destroying
  /\ destroying' = FALSE
  /\ inPoller' = FALSE
  /\ failure' = (failure \/ ~ConnAlive \/ reading \/ ~inPoller)
  /\ UNCHANGED <<state, tryVars, sock, peerGone, conn, reading, pc, userVars, heard>>

\* The user lets go of the client: when it has been told of an error or to clean
\* up, in that callback or later.
Drop ==
  /\ owned
  /\ pc \in {"loop", "cleanup", "error"}
  /\ heard # <<>> /\ heard[Len(heard)] \in {"cleanup", "error"}
  /\ owned' = FALSE
  /\ dropped' = pc
  /\ UNCHANGED <<state, tryVars, sock, peerGone, conn, reading, inPoller, destroying, pc, failure,
                 heard>>

-----------------------------------------------------------------------------
ClientNext ==
  \/ Connect \/ RetryTimer \/ Shutdown \/ Drop
  \/ HandleClose \/ OnCleanup \/ Cleanup \/ CallbackReturns \/ ConnectionDestroyed
  \/ Handshake \/ PeerCloses

ClientSpec == ClientInit /\ [][ClientNext]_clientVars

\* The loop's thread runs, user callbacks return.  The network and the user need
\* not do anything.
ClientFairSpec ==
  /\ ClientSpec
  /\ WF_clientVars(RetryTimer) /\ WF_clientVars(HandleClose) /\ WF_clientVars(ConnectionDestroyed)
  /\ WF_clientVars(OnCleanup) /\ WF_clientVars(Cleanup) /\ WF_clientVars(CallbackReturns)

-----------------------------------------------------------------------------
(* Properties.                                                             *)

\* The user is told of an error, once and of nothing else, or that the connection
\* is up, then down, then to be cleaned up (connect, onConnection, onCleanup).
CallbackProtocol ==
  \/ heard \in {<<>>, <<"error">>}
  \/ heard = SubSeq(<<"up", "down", "cleanup">>, 1, Len(heard))

\* A client dropped after an error or a cleanup is used no more, by a retry timer
\* or a functor that binds it, and no assert fails; and the connection outlives its
\* channel's entry in the poller (onCleanup queues it with conn_).  A client dropped
\* inside cleanupCallback_ is the exception: onCleanup goes on to read its members.
SafeToDrop ==
  /\ dropped # "cleanup" => ~failure
  /\ inPoller => ConnAlive

\* TcpClient.h:78: cleanupCallback_ is mainly for the application to delete its data
\* structures.  The client it is called with is one of them: dropped there, it is used no
\* more.
SafeToDropInCleanup == dropped = "cleanup" => ~failure

\* connect() is heard of: connected or given up, whatever the network does and
\* does not do, and shutdown() or not.
HeardBack == called ~> heard # <<>>
=============================================================================
