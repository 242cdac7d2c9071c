# Formal models of matelib

matelib is a small C++11 network library in the reactor style: one event loop per
thread, non-blocking TCP connections, timers on a timerfd, a thread pool and an
asynchronous logger; an HTTP server and an RPC layer are built on it, and an earlier
copy of the library with a web server of its own is kept beside them. This directory
holds TLA+ models of its code, the TLC configurations that check them, and proofs that
the TLA+ proof system checks.

Paths below are relative to the repository (`src/` here). Definitions keep the code's
names; `PROJECT.json` gives, for every definition, the lines it stands for.

    tlc -workers 2 -config MCEventLoop.cfg MCEventLoop     # check an instance
    tlapm TcpServer_proofs.tla                             # check the proofs

## 1. The system

### Components, their state and what makes them correct

| Component | Source | State | Operations | Correct when |
|---|---|---|---|---|
| Event loop | `matelib/EventLoop.cc` | `quit_`, `pendingFunctors_` (mutex), `callingPendingFunctors_`, the eventfd, `activeChannels_` | `loop`, `quit`, `runInLoop`, `queueInLoop`, `wakeup`, `handleWakeup`, `doPendingFunctors` | a functor queued by any thread runs once, in order, without waiting for the poll's 20 s; `quit` ends the loop; the loop does not spin |
| Timers | `matelib/TimerQueue.cc`, `Timer.h` | `timers_` ordered by time and address, the timerfd, `cancelingTimers_`, `callingExpiredTimers_`; each `Timer` on the heap | `addTimer`, `cancelTimer`, `handleRead`, `getExpired`, `reset` | no timer is forgotten, early, run after it is cancelled, leaked or freed twice |
| Channel and poller | `matelib/Channel.cc`, `EpollPoller.cc` | `events_`, `state_` of a channel; `channels_`; the kernel's interest list | `enable*`, `disable*`, `remove`, `handleEvent`, `poll`, `updateChannel`, `removeChannel` | what epoll watches is what the channel asks for; a channel is removed only when idle; no dangling pointer is dispatched |
| TCP connection | `matelib/TcpConnection.cc` | `state_`, `outputBuffer_`, the channel, the socket; shared ownership | `connectionEstablished`, `send`, `shutdown`, `handleRead/Write/Close/Error`, `connectionDestroyed` | bytes leave in order, none lost; the half-close comes after the data; the callbacks come up once and down once; the object outlives its handlers and does not leak |
| TCP server | `matelib/TcpServer.cc` | `connectionMap_`, `idleFd_`, the listening channel | `start`, `handleConnection`, `removeConnection`, `~TcpServer` | every accepted descriptor is owned or closed; the accept loop does not spin when descriptors run out |
| I/O threads | `matelib/EventLoopThread.cc`, `EventLoopThreadPool.cc` | `loop_` (mutex, condition), `next_` | `start`, `threadFunc`, `getNextLoop`, destructor | `start` returns a loop that exists; round robin; destruction ends |
| TCP client | `matelib/TcpClient.cc` | `state_`, `sockfd_`, `conn_`, `connectTimes_`, `retryDelayMs_` | `connect`, its retry timer, `shutdown`, `onConnection`, `onCleanup` | the user hears of an error or of up, down and cleanup; `connect` is always heard of; a client can be dropped then |
| Buffer | `matelib/Buffer.cc`, `.h` | a vector with a read and a write index | `append`, `retrieve*`, `erase`, `readFd`, `ensureWritableBytes` | a queue of bytes; indices stay in the vector |
| Asynchronous logger | `matelib/base/AsyncLogging.cc` | `currentBuffer_`, `nextBuffer_`, `fullBuffers_` (mutex); the consumer's two spare buffers | `append`, `stop`, `threadFunc` | every message reaches the file once and in order; buffers go round without being lost or shared |
| Log file | `matelib/base/LogFile.cc` | the open file and the C library's buffer, its size, roll and flush times | `append`, `flush`, `rollFile` | nothing is lost or reordered from one file to the next; the file of a day gets little of the next day |
| Log statement | `matelib/base/Logging.cc`, `LogStream.*` | a buffer of fixed size on the stack, the thread's cached second, `localtime`'s shared `tm` | the `LOG_*` macros, `operator<<`, `convertInt`, `finish` | the line stays in its buffer; a short line is whole; a number is written as what it is |
| Thread pool | `matelib/base/ThreadPool.cc`, `Thread.cc` | `tasks_`, `running_` (mutex, condition) | `start`, `stop`, `run`, `take` | every task starts once, in order; no worker sleeps while a task waits; `stop` returns |
| HTTP | `http/*` | one parser (`HttpContext`) per I/O thread, shared by its connections | `parseRequest`, `onMessage`, `reset` | one answer per request, whatever the thread's other connections send |
| RPC | `rpc/*` | a registry of functions; a serializer over a buffer, one per I/O thread | `bind`, `call`, `onMessage`, `serialize` | what is written is what is read; one answer per call, of the call's own arguments |
| Earlier copy | `old-version/webserver/*` | as above, with `connected_` and `needDisconn_` for a connection's state | as above, and its `HttpServer` | answers leave whole and in order; what is gone is freed and pointed to by nothing |

### How they interact

- A **loop** owns a poller, a timer queue and a wakeup channel. Everything else attaches
  a channel to it and is called back on its thread (callbacks, not messages).
- **Threads** meet a loop in one place, `queueInLoop`: a mutex around a vector, then a
  write to the eventfd. `runInLoop` on the loop's own thread runs the function inline.
  All cross-thread operations (`send`, `shutdown`, adding and cancelling timers, handing a
  connection to its I/O loop, taking it out of the server's map) go through it.
- A **connection** is owned by shared pointers in the server's map and in queued functors.
  Removal hops from the I/O loop to the server's base loop and back
  (`handleClose` -> `removeConnection` -> `removeConnectionInLoop` -> `connectionDestroyed`).
- The **logger** and the **pool** are separate monitors: a mutex and a condition variable.

### What is hard

The behaviours no test of the repository reaches: the loop swapping its functor vector
between another thread's push and its wakeup; a callback that cancels its own timer; a
partial write followed by a shutdown; a peer that resets while a shutdown from another
thread is half done; a server destroyed while connections live; a consumer that swaps
buffers while producers use up the spare ones; a file rolled with data still in the C
library's buffer; a notify that meets no waiter; a call that arrives in pieces while another
client's call uses the same serializer.
`PROJECT.json` lists them as hazards, each at its line, with the properties that would
catch it going wrong.

## 2. The modules

| Module | Models | Form |
|---|---|---|
| `TaskQueue` | what an executor promises: tasks run once, in order, until it closes | abstract specification |
| `EventLoop` | the reactor | implements `TaskQueue` |
| `EventLoop_TcpClient_proofs` | proofs about `EventLoop` and `TcpClient` | |
| `TimerQueue` | the timers of one loop | state machine with a clock |
| `TimerQueue_proofs` | proofs about it | |
| `Channel` | a channel and its poller entry | operators on a record |
| `TcpConnection` | one connection, its I/O loop, the server's base loop, other threads, the peer; uses `Channel` | composed state machine |
| `TcpConnection_proofs` | proofs about it | |
| `TcpServer` | the server: I/O threads, accepting, descriptors, removal, destruction | composed state machine, a functor queue per loop |
| `TcpServer_proofs` | proofs about it | |
| `TcpClient` | a client from `connect` to its release | state machine |
| `HttpServer` | one I/O thread's HTTP connections and the context they share | state machine |
| `HttpServer_proofs` | proofs about it | |
| `ByteQueue` | what a buffer promises: bytes come out in the order they went in | abstract specification |
| `Buffer` | the vector and its two indices | implements `ByteQueue` (proved, no run) |
| `LogFile` | the log file, as functions on a record | operators |
| `AsyncLogging` | producers, the consumer thread, the buffers; uses `LogFile` | composed state machine |
| `Logging` | log statements of several threads, piece by piece | state machine (proved, no run) |
| `ConvertInt` | the loop that writes a number | state machine (proved, no run) |
| `AsyncLogging_proofs` | proofs about `LogFile`, `AsyncLogging`, `Logging` and `ConvertInt` | |
| `Serializer` | what is put into and taken out of a stream of bytes | operators |
| `Bytes_proofs` | proofs about `Buffer`, `Serializer` and `Rpc` | |
| `Rpc` | clients that call, a server's I/O threads that answer; uses `Serializer` | composed state machine |
| `OldServer` | the server of the earlier copy, from loop to connection | state machine |
| `ThreadPool` | owner, submitters, workers | implements `TaskQueue` |
| `ThreadPool_OldServer_proofs` | proofs about `ThreadPool` and `OldServer` | |
| `MC*` | instances of the above for TLC | |

Small components share a module of proofs, each with its own part of it. So that both can be extended at
once, the names that every model has begin with the component's there: `ClientTypeOK`, `ClientInit`,
`ClientNext` and `ClientSpec` in `TcpClient`, `OldInit`, `OldNext` and `OldSpec` in `OldServer`.

### EventLoop

`loopPc` follows `loop()`: `test` is `while (!quit_)`, `poll` is inside `epoll_wait`,
`dispatch` the loop over `activeChannels_`, `swap` and `run` are `doPendingFunctors`.
`body` is the user code that runs on the loop's thread (a handler or a functor): while it
runs it may queue functors and call `quit`. A call from another thread is two steps,
because the loop runs between them: push under the mutex (or set `quit_`), then write the
eventfd (`Wakeup`). The eventfd is a flag, since only whether its counter is zero matters.
Functors are numbered in the order of the push, which is what makes the order checkable.
A loop that has returned is not called any more: its owner destroys it.

### TimerQueue

Time is in units of 100 microseconds, the least delay `howMuchTimeFromNow` arms; the clock
(`Tick`) may advance between any two steps, inside callbacks too. A timer is its address, a
number, because `std::set<pair<Timestamp, Timer*>>` orders equal times by address. The
operations run at once when called on the loop's thread and as queued functors when called
from another. `handleRead` is one step up to its first callback, one per callback
(`RunExpired`), one for `reset`; callbacks add and cancel in between. The history variables
`ran`, `cancelled` and `missed` serve the properties only.

### Channel and TcpConnection

`Channel` is a record and operators: what the channel asks for, the poller's note
(`kNew`, `kAdded`, `kDeleted`) and what the kernel watches. `Reported` is what `epoll_wait`
returns (errors and hangups are never masked), `Handled` and `TurnOf` are the order of the
callbacks in `handleEvent`.

`TcpConnection` runs four kinds of actor. The I/O loop's `ioPc` walks through poll, the
handlers of one event, user callbacks (inside which the user sends, shuts down and hands the
connection to another thread), the cleanup callback and the functor batch. Other threads'
`send` and `shutdown` are split at each access to `state_`, which no lock protects, and at
the queueing. The base loop runs `removeConnectionInLoop`, or the I/O loop does when there
is only one loop (`sameLoop`). The peer sends, drains, closes or resets. `Alive` says
whether some shared pointer is left; what runs on a freed object, or fails an assert, sets
`failure` and stops the loops. A thread may drop its `shared_ptr` as soon as its call has
returned, with the functor still queued; `late` notes that a call was queued behind
`connectionDestroyed`, by a thread that had found the connection up. `~TcpServer` queues
`connectionDestroyed`, or runs it at once when the base loop is the connection's own (`sameLoop`),
then makes the I/O loop quit and joins it (`StopLoop`): the functors still waiting are dropped.
Bytes are numbered as they are accepted, so `StreamInOrder` compares sequences.

### TcpServer

Each loop is a queue of functors run in order, which is what module `EventLoop` shows of the
real one; loop 0 is the base loop. A connection is reduced to the steps that touch the
server, a descriptor or a poller: it is `posted`, `up`, `closed`, `erased` from the map,
`removed` from the poller, `freed` (and its descriptor closed with it). Descriptors are
numbers and the kernel gives out the lowest free one (`Lowest`), so numbers are reused as they
are in the process. `handleConnection` without a free descriptor is four steps (`CloseIdle`,
`AcceptIdle`, `CloseDropped`, `ReopenIdle`), because another thread of the process, the
logger's for one, may open a file between them (`OtherOpens`). `EventLoopThread::start` is
split at the loop's publication; `~TcpServer` queues `connectionDestroyed` for what is in the
map and then makes the I/O loops quit one after the other, and a loop that ends drops its
functors. The destructor does not take `acceptChannel_` out of the poller and does not close
the listening descriptor or `idleFd_`; the model stops accepting when the destructor begins
and keeps `idleFd_` open.

### TcpClient

Everything runs on the loop's thread. `sock` is what `connect(2)` makes of the one socket, and
`ConnectResults` what it answers in each of its states, so an attempt on a socket that is
connecting or connected gets `EALREADY` or `EISCONN`. `Attempt` is `connect` with its test of
`connectTimes_` before the increment; `RetryTimer` is the timer that calls it. The constants
(ten attempts, delays from 500 ms) are the code's. The user calls `connect` once, may call
`shutdown` at any time, and may drop the client once it has heard of an error or of the
cleanup. `failure` is set when a member of a freed client is used or an assert fails.

### HttpServer

A connection's bytes are lines, and a line is what the parser can tell of it; the network cuts
them anywhere, and a cut inside a line (`SendPart`) is a message that brings no whole line.
The connections share one `context`, as those of an I/O thread do. `parseRequest` is one
step per line, and its ends are `RejectRequest` and `AnswerRequest`. The latter is taken, as
in the code, when the request is complete or when nothing more of it is there.

### Buffer

A record of cells, size and the two indices; every member function is an operator on it, with
the code's own constants. Cells behind the vector's end hold anything: they are never read.
`ReadInto` is `readFd` with its second half through the buffer on the stack. `Contents` is
what can be read, and the refinement mapping to `ByteQueue`.

### AsyncLogging and LogFile

Buffers are sequences of numbered messages; a `unique_ptr` is a sequence of at most one
buffer, so a moved-from pointer is empty and using it is an error TLC sees. `append` is one
critical section. The consumer's round is: test `running_`, enter the critical section or
wait, take the buffers, drop a backlog, write buffer by buffer, recycle two. Since the wait
is timed, waking up needs no notify: `WakeUp` is enabled whenever the code would leave its
inner loop.

The consumer owns a `LogFile`: a record with the files opened so far, in order, what the C
library still holds (`unflushed`), and the members. `Appended` is `append_unlocked`,
`RollFile` opens the new file before the old one is closed, `Written` writes out the C
library's buffer whenever it is full. A file is named for the second in which it is opened,
so two rolls in one second append to the same file. The day is the one of the clock's
seconds, in UTC, as in the code (`now / kRollPerSeconds_`). `late` counts the appends to the
file of a day that is over. `AllInOrder` says of the files (`Parts`), the buffers being written
(`Unwritten`), the full ones and the current one that they hold the messages in this order.

### Logging and ConvertInt

A log statement is a sequence of pieces put into a buffer of fixed size: the prefix, the
statement's own, the place and the newline. A number is put only if `kMaxNumericSize` bytes are
free. `formatTime` uses the thread's cached text, or calls `localtime`, whose one `tm` any
other thread may overwrite before `strftime` reads it (`tm`); the properties stated do not
depend on which second is then printed. `ConvertInt` is the loop of `convertInt` and
`convertHex`, digit by digit, with C's division of negative numbers.

### Serializer and Rpc

The serializer is a set of operators on sequences of bytes; an object is its bytes in memory,
reversed when the byte order asks for it, a string its length in two bytes and then its bytes
up to a NUL. An operation that takes yields what is left and whether `Buffer::retrieve`'s
assert held. `Rpc` has no framing, as the code has none: either side takes for a whole message
whatever one read brings, and TCP may cut or join the bytes anywhere. All connections of an I/O
thread use its one serializer. A failed assert ends the process: the server is `down`, or the
client `gone`. `cut` notes that a message on a connection was not read as a whole, which is the
premise of both invariants. Of a message that was cut nothing is promised, and the model shows
what may happen: a client may read a success code with a value that was never set.

### OldServer

The loops (poll, handlers, functor batch, eventfd), the pollers' channels, the accepting loop
and the connections of the earlier copy in one module, since a connection's end there crosses
three functors on two loops. A connection has two flags instead of a state. `sendInThread`
takes `EAGAIN` for an error and gives the message up. Descriptors are numbers the kernel
reuses. `AnswersWhole` is stated of each unit that was sent and the one behind it: a unit that does not end
its answer is followed by the next one of the same answer, and the last unit of an answer by the first of a
later one.

### ThreadPool

Critical sections are steps. `waiting` is the set of workers blocked in the condition
variable; a notify takes one of them out, a spurious wakeup too; a worker out of `waiting`
tests the condition again. `CreateWorker` and `Begin` are the two halves of `Thread::start`
with its latch.

## 3. What TLC checks

| Run | Asks | Bounds |
|---|---|---|
| `eventloop` | no lost wakeup, implements `TaskQueue` (so functors run once and in order), functors run, quit ends, the eventfd is drained | 2 other threads, 2 channels, 3 functors |
| `timerqueue` | the timerfd is armed while timers wait, and late by one interval at most, ownership of every Timer, cancel is final, first runs on time, every due timer is taken | 2 timers, delays 0 and 2, intervals 1 and 2, time 0..4, 2 queued operations |
| `timer_on_time` | (violated) no timer is called early, and the timerfd is armed for no later than the timer that expires first | the same |
| `tcpconnection` | order of the stream, graceful half-close, callbacks up then down, no use after free, release of dead connections, shutdown completes | messages of 2 units, a socket buffer of 1, 2 sends, 1 message in, 1 other thread, with and without a separate I/O loop, server destroyed at any time |
| `tcp_removal` | (violated) only a channel that asks for nothing is removed | as above, 1 send |
| `tcpserver` | descriptors are owned by one connection, the reserve or another thread and a poller's entry is for the connection that has the number now; clients are accepted or turned away | 0 to 2 I/O threads, 3 descriptors, 4 clients, 1 file of another thread, destroyed at any time |
| `tcpclient` | the order of what the user hears, no use of a dropped client, `connect` is heard of | the code's 10 attempts, every result of `connect(2)` |
| `http` | the shared context is ready for the next message; messages that are whole requests get their own answers | 2 connections, 3 requests of 5 kinds, cut anywhere |
| `rpc` | whole calls get the right answers, whole answers are read, calls return | 2 clients on one I/O thread, 3 calls of 3 functions, cut anywhere, bytes of 3 values |
| `asynclogging` | order and completeness through buffers and files, buffers ready, loss only in a burst, rolling at midnight, messages get written | buffers of 2 messages, backlog limit 3 (25 in the code), 9 messages, files of 6, a stdio buffer of 4, days of 2 seconds, the date looked at on every third append |
| `threadpool` | a wakeup per task, implements `TaskQueue`, tasks taken, stop returns | 3 workers, 4 tasks |
| `oldserver` | answers whole and in order, no dangling pointer in a poller, gone connections are freed, a postponed shutdown takes place | 0 or 1 I/O threads, 2 clients, descriptors and requests together 3, a socket that holds half an answer |

Five more configurations show a single behaviour that the code has and its texts deny, or that a premise of a
property above leaves out; TLC refutes each:

| Configuration | Property | Shows |
|---|---|---|
| `MCTimerNeverEarly.cfg` | `NeverEarly` | a repeating timer is called before its expiration |
| `MCTimerEarlierAdded.cfg` | `EarlierTimerArms` | a timer that expires before all others is added and does not arm the timerfd |
| `MCTcpShutdownRace.cfg` | `RemovedWhenQuiet` | a `shutdown` of another thread that crosses `handleClose`, with a server that lives |
| `MCTcpClientCleanup.cfg` | `SafeToDropInCleanup` | a client dropped inside `cleanupCallback_` is used again |
| `MCAsyncLoggingStop.cfg` | `WrittenAtStop` | messages appended before `stop()` are never written |

**Why the bounds are enough.** Three functors let one run while one sits in the local batch
and one in the queue, which is every place a functor can be. Two timers give equal keys, a
timer that cancels the other, itself, or both inside one batch; four time units let an
interval of 1 or 2 restart at least once after another timer has expired. A socket buffer
smaller than a message makes every write partial, and two sends make the second one queue
behind the first. Nine messages in buffers of two overrun both spare buffers and the
backlog limit of three, roll files of six by size, and fill a stdio buffer of four in the middle
of a message's buffer; a clock that goes to 3 crosses midnight once, with the date looked at before
and after it. Two RPC clients on one thread let one's call be answered between two pieces of the
other's; bytes of three values are the least with a NUL and two other characters. In `oldserver`
half an answer fits into the socket, so that every answer waits in `outputBuffer_`; one descriptor
for two clients makes a number be used again, two let both be connected. Three descriptors are the reserve and two more, so four clients, two I/O
loops and one foreign file exhaust them, reuse a number on another loop and take the
reserve. Two requests on one connection and one on the other let either be answered while
the other is half parsed. Three workers let one be notified, one be late for the same task
and one sleep on; four tasks are more than the workers.

**Fairness.** Each thread's own steps are weakly fair: the scheduler runs a thread that can
run, and user callbacks return. Not assumed fair: the poll's timeout (`PollNothing`), so
what is shown to happen does not wait 20 s for it; spurious wakeups; calls of users; the
peer closing or resetting; the clock. `TcpConnection` assumes strong fairness of
`StopLoop`: `quit_` stays set, and a loop that returns to its test again and again must read
it. The peer is assumed to read what it is sent in `tcpconnection` (`PeerDrains`); no
liveness of a connection holds against a peer that stops reading, and the code has no
timeout for it. `TcpServer` assumes that every thread runs, and of the environment nothing: no
client has to leave and no other thread to close its files. `TcpClient` assumes that the
loop's thread runs and its timers fire; the network may stay silent. `AsyncLogging` assumes that
the consumer runs. `Rpc` assumes that each connection's server thread and client run, so that what
is under way arrives in the end, whole or in parts; nothing limits the client's wait. `OldServer`
assumes that the loops run and that clients read what they are sent. `HttpServer` states no
liveness.

**Deadlock** is not checked: bounds on calls and on the clock let every model stop.

### What the checks show beyond a pass

- `timer_on_time` is violated: `reset` restarts a repeating timer but inserts the old pair, with the key that
  has passed, back into the set (`TimerQueue.cc:211`), and then takes that entry's timer, which expires an interval
  later, for the first to expire (`TimerQueue.cc:221`). For the same reason `addTimerInLoop` (`TimerQueue.cc:120`)
  does not arm the timerfd for an earlier timer (`MCTimerEarlierAdded.cfg`); either way a timer is late
  until the timerfd fires. Whenever it does, for any timer, all repeating timers run again
  (`MCTimerNeverEarly.cfg`). `TimerfdArmed` says how bad it gets: before a repeating timer has run
  the timerfd is armed for the earliest timer, and afterwards it is late by no more than one of their intervals. With
  the new expiration as the key (`Reinserted`), `OnTime` holds in the same instance.
- What `stop()` does depends on where the consumer is. If it waits, everything appended is written, which is the
  second half of `MessagesWritten`; if it is writing, it ends without a last look at the buffers
  (`AsyncLogging.cc:79`, `MCAsyncLoggingStop.cfg`).
- `tcp_removal` is violated: `connectionDestroyed` leaves the channel enabled in state
  `kDisconnecting` (`TcpConnection.cc:173`), so destroying a server during a graceful shutdown fails the
  assert in `Channel::remove` and `EPollPoller::removeChannel`. With a server that lives there is another way to
  that assert (`MCTcpShutdownRace.cfg`): a `shutdown` in another thread that read `kConnected` before `handleClose`
  stores `kDisconnecting` over its `kDisconnected` (`TcpConnection.cc:144`), a send that was queued before then
  passes the test of `state_` and has the closed connection's channel watched again, and
  `connectionDestroyed` removes it as it is.
- The exception `dropped = "cleanup"` in `SafeToDrop` is needed (`MCTcpClientCleanup.cfg`): `onCleanup` reads `loop_`
  and `conn_` after the user's `cleanupCallback_` (`TcpClient.cc:157`), so a client whose last reference goes
  inside that callback, as `TcpClient.h:78` suggests, is used after it is freed.
- `WholeRequestsAnswered` speaks of connections whose messages have each been one request, but of
  no restriction on what the other connections of the thread send. `parseRequest` returns true when
  it runs out of complete lines, and `onMessage` cannot tell that from a complete request
  (`HttpContext.cc:34-37`, `HttpServer.cc:69-95`): a request that arrives in two pieces is answered
  after the first, with an empty path, and the rest is answered with status 400.
- `WholeCallsAnswered` and `WholeAnswersRead` have the same shape for the same reason. A call or an
  answer that TCP cuts may end the process that reads it (`Buffer::retrieve`'s assert) or return
  `RPC_SUCCESS` with a value nobody set. `stateCode_` is never reset after a timeout, so every later
  call of that client returns the timeout.
- `AnswersWhole` allows an answer of the earlier server to be missing as a whole: `sendInThread`
  does not tell `EAGAIN` from an error. It is never cut, repeated or overtaken.
- The exception `reserveTaken` in `ClientsServed` is needed: between `close(idleFd_)` and the
  `accept` (or the `open`) that follows, another thread may take the descriptor. `idleFd_` is -1
  from then on, and with no free descriptor the loop spins on the readable listening socket.
- `retryDelayMs_` reaches 32000 (`ClientTypeOK` bounds it by twice `maxRetryDelayMs`), although
  `TcpClient.h:80` names 30 seconds as the longest delay: the test comes before the doubling.
- The premises of `NoFailure` and `CallbackProtocol` are exact. Without `~overClose` the race above happens,
  and the connection may go down twice: the watched channel reports the peer's reset and
  `handleClose` runs again. Without `serverAlive`, a `removeConnectionInLoop` that was queued runs on the
  freed server. Without `~late`, a thread that found the connection up and queues its functor behind
  `connectionDestroyed` may drop its `shared_ptr` before the functor runs, and the raw `this` that it binds
  (`TcpConnection.cc:55`, `146`) is freed by then. A functor queued before `connectionDestroyed` is safe even
  then, which the code nowhere says: the `shared_ptr` bound to `connectionDestroyed` stays in the batch until
  every functor of it has run.
- The exception `early` in `NoLostWakeup` is needed: a functor that the loop's own thread
  queues before `loop()` writes no eventfd (`EventLoop.cc:145`) and waits for an event or the
  poll's timeout.
- The exception `missed` in `CancelIsFinal` is needed: a timer added by another thread and
  cancelled by the loop's thread before the addition ran is not cancelled.

Type invariants are stated in every module as `TypeOK` (`LineTypes` in `Logging`, `ClientTypeOK` in
`TcpClient`; `OldServer`'s, `OldTypeOK`, is with its proofs). They say what the variables range over, and
but for `Rpc`'s they are proved and part of what the other invariants rest on. `Rpc`'s could not be: nothing says
what a user's function makes of the arguments that a message which was cut happens to hold. `CallInv` has
what is needed of it.

Every property of a passing run has a mutant of the model (an operator called a faulty
variant in a comment) that TLC finds to violate it.

## 4. What is proved

`EventLoop_TcpClient_proofs`, about `EventLoop`, for any sets of threads and channels and any number of functors:

- `TypeCorrect`: `Spec => []TypeOK`.
- `WakeupNotLost`: `Spec => []NoLostWakeup`. `NoLostWakeup` speaks of `poll` alone and is not
  inductive: the loop gets to `poll` from `test`, and to `test` from the functor batch. The
  inductive invariant `IInv` adds `WakeupInv`, which asks the same at every point from which
  `poll` is reached without a swap, and `ControlInv`, which ties `callingPendingFunctors_` to
  the batch. That second part is what makes the condition at `EventLoop.cc:145` right: inside
  a batch the loop's own thread must write the eventfd, in a handler it need not, as the swap
  follows.
- `Implementation`: `Spec => ImplementsTaskQueue`. The swap maps to a stutter, since
  `functors \o pendingFunctors` does not change when the local vector was empty (`ControlInv`).
- `FunctorsInOrder`: `Spec => []FifoExactlyOnce`, from the implementation: the invariant is
  shown for the steps of the abstract queue and carried over.

The same module about `TcpClient`, with the code's own ten attempts and its delays:

- `CallbacksOnce`: `ClientSpec => []CallbackProtocol`. What the user has heard is the backbone of `ClientInv`:
  `HeardInv` lists the five histories there can be and says which callback runs at the end of which, and
  `RetryInv` that the timer is set only as long as nothing was heard. The attempts' results alone would not do:
  the timer fires whatever became of the socket in between, and it is the absence of a callback that
  makes another attempt harmless.
- `ClientSafeToDrop`: `ClientSpec => []SafeToDrop`. `ChannelInv` follows the connection's channel from up to
  `connectionDestroyed`, which `onCleanup` has queued by the time it returns; `OwnerInv` says that the user lets
  go only after an error or the cleanup, and that a failure has one cause, a client dropped inside
  `cleanupCallback_`.
- `ClientTypeCorrect`: `ClientSpec => []ClientTypeOK`.

`TcpConnection_proofs`, for any other threads, any message length, any send buffer and any number of calls:

- `BytesInOrder`: `Spec => []StreamInOrder`, and `GracefulShutdown`: `Spec => []FlushedBeforeShutdown`. They
  rest on one another: `sendInThread` may write at once only because what waits keeps the channel writing
  (`Flushing`), and a shut write half stays without a backlog because it was shut when the channel was not
  writing. `FlushedBeforeShutdown` alone is not inductive, and neither part holds once the connection is down:
  `disableAll` stops the writing with data still in the buffer. `SendInThreadKeeps` and `HandleWriteKeeps`
  carry the argument, and `StreamStep` the rest.
- `TypeCorrect`: `Spec => []TypeOK`. The socket's room stays within its buffer.
- `CallbacksInOrder`: `Spec => []CallbackProtocol`, whether or not the server is destroyed. `StateInv` ties
  the callbacks made to `state_`, and says that `connectionEstablished` is the first functor to run and runs
  once; `ReadInv` says that only a connection that is up asks its poller for input, that a round reports
  input or a close but never both, and that no event is left when the functors run.
- `OrderlyLife`: the invariant of how a connection ends. Its removal is in one place at a time: open,
  closing (`handleClose` runs), asked (a functor of the base loop), queued and running (functors of the
  I/O loop), removing, gone. For each place the invariant says what the channel, the poller's map, the server's
  map and the `shared_ptr`s must be; `NoFailure` and `NeverFreedInUse` alone say nothing of the way there.
- `NothingFails`: `Spec => []NoFailure`. `NoFailure` says itself what it excludes: the server's end, a
  `shutdown` that crosses `handleClose`, and a call queued behind `connectionDestroyed`. The other threads drop
  their `shared_ptr` whenever they like. `FunctorInv` is why the functors bound to a raw `this` still meet a live
  object: out of the server's map, they wait in front of `connectionDestroyed`, or the batch that has both
  holds its `shared_ptr` (`batchHolds`).
- `FreedAfterUse`: `Spec => []NeverFreedInUse`, short of the first two of these, late calls or not.

`TcpServer_proofs`, for any number of I/O threads, descriptors and clients:

- `DescriptorsAlwaysOwned`: `Spec => []DescriptorsOwned`. It speaks of descriptors and pollers only, and is not
  inductive: a functor that was left behind could free a connection twice or put a closed one back into a
  poller. `QueueInv` says which functors of a connection may wait where: `connectionEstablished` only
  on its own loop and only before anything else, `removeConnectionInLoop` only on the base loop, and two on one
  loop only if the connection is to be established and then destroyed. What a connection may have come to
  while its functor waits changes when `~TcpServer` has run (`Ended`): it queues `connectionDestroyed` for
  connections that may be closed already or may not even be established. `BaseInv` is the part of
  the connections that live on the base loop, which skip the queues.
- `Invariant` and `TypeCorrect`. `AcceptInv` counts who has connected, so that `handleConnection` takes a client only
  if there is one, and keeps `next_` within the loops.

`TimerQueue_proofs`, for any addresses, delays, intervals and queue length:

- `OneOwner`: `Spec => []Ownership`, `TimerfdIsArmed`: `Spec => []TimerfdArmed` and `CancelFinal`: `Spec =>
  CancelIsFinal`. The invariant has the entries' keys (`EntryInv`: an entry of `timers_` is that of a live
  timer), the functors that carry timers in and out (`QueueInv`), who holds a `Timer` (`OwnerInv`), and what a
  timer that was cancelled can still be in (`CancelInv`: a timer found in the batch is remembered in
  `cancelingTimers_` until `reset` has looked at it).
- `FirstRunTimely`: `Spec => FirstRunOnTime`. `RunInv` says what `getExpired` took out was due, and that only a
  timer that repeats is queued again once it has run.
- `TimerfdIsArmed` needs `ArmInv`, which splits the queue in two: entries whose key is their timer's expiration
  (`Fresh`), for which the timerfd is armed in time, and entries that `reset` put back with a past key, which lie at or
  before the time of the last round. A timer that goes behind either kind inherits its bound, so the lateness is at
  most the longest interval among the timers that have run (`Lates`).
- `DueAreTaken`: `Spec => DueTimersTaken`. `KeyInv`: an entry's key is never later than its timer's expiration,
  because `restart` counts from a time at or after the key. So the stale keys make timers early, never left behind by
  `getExpired`.

`HttpServer_proofs`, for any connections, any requests and any way of cutting them:

- `RequestsAnswered`: `Spec => []WholeRequestsAnswered`. That the answers so far are right says nothing of a
  request that is half parsed. `WireInv` ties a connection's buffer to its requests: what has arrived and
  what has not make up the requests that are left. `ParseInv` says that while a whole request is parsed the
  context is as far as its lines are consumed, `ProgressInv` that the next answer is for the next
  request, and `ContextInv` that between messages the context of the thread is as new but for a path,
  and that only the connection at work writes it.
- `ContextAlwaysReady`: `Spec => []ContextReady`.

`ThreadPool_OldServer_proofs`, about `ThreadPool`, for any finite set of workers and any number of tasks:

- `TypeCorrect`, and `NoTaskSleepsUnattended`: `Spec => []WakeupPerTask`. It counts: while workers
  sleep, there are at least as many woken ones as queued tasks. A `run` adds one to both sides,
  a `Take` removes at most one from both; a worker goes to sleep only on an empty queue.
- `Implementation`: `Spec => ImplementsTaskQueue`.

The same module about `OldServer`, for any number of I/O threads, clients, descriptors and requests and any
sizes of socket and answer:

- `OldInvariant`: `OldSpec => []OldInv`. Neither property is inductive. `ConnInv` is a connection by itself: what
  its life says of its flags, of its channel and of what may wait. `QueueInv` says that a connection has
  one functor at most in what a loop has still to run (`Todo`: what is left of the swapped vector and what is
  pending), on which loop, and what the connection has come to meanwhile: `removeConnection` waits on the main loop
  only, for a closed connection of another loop that the map still holds. `HolderInv` is the hand-over of the
  `shared_ptr`: the map holds a connection until its removal has run, and from then on a functor does.
  `ActiveInv` says that the channels a loop has still to handle are those of connections that are up, one event
  each, so that a close in one handler leaves nothing for a later one of the round; `FdInv` and `ChannelInv`
  say whose a descriptor is and who is in a poller under it, both ways. `AcceptInv` and `LoopInv` are the
  listening queue and the places of a loop.
- `AnswersAlwaysWhole`: `OldSpec => []AnswersWhole`. It is part of `ConnInv` as it stands, with what it needs:
  an up connection with something to send is writing, so that `sendInThread` either writes into an empty
  buffer or only appends, and a connection whose write side is shut has nothing left. `SendInThread`,
  `HandleWrite` and the shutdown each have a lemma that says what they make of the stream.
- `NothingEverDangles`: `OldSpec => []NothingDangles`, from `ChannelInv`, `ActiveInv` and `FdInv`.

`Bytes_proofs`, about `Buffer`, for any bytes and data of any size, with the code's own constants:

- `IndicesAlwaysValid`: `BufferSpec => []IndicesValid`. `kCheapPrepend <= readIndex <= writeIndex <=
  size` is inductive as it stands; each operator has a lemma that it keeps it.
- `MoveAlwaysHasRoom`: `BufferSpec => []MoveHasRoom`, the assert at `Buffer.cc:64`. It follows from the
  indices: there is too little room behind the write index and enough in all, so some of it is
  in front.
- `BufferIsAQueue`: `BufferSpec => ImplementsByteQueue`. One lemma per operator says what it makes of
  `Contents`: `FilledAppends` and `AppendAppends`, `EnsureMakesRoom` (growing and moving change
  nothing that can be read, and make room), `ReadIntoAppends` (what was read in two pieces is
  one), `RetrieveTakes`, `EraseCuts`. `EveryStep` puts them together.

`AsyncLogging_proofs`, for buffers, backlogs, files, days, flush intervals and stdio buffers of any size:

- `BuffersAreReady`: `Spec => []BuffersReady`. The property speaks of the start of a round and of its
  end; the inductive `PtrInv` follows the buffers in between: the consumer holds at least as many as it
  will need (two if it gave its second spare one away), `Kept` never leaves fewer, and the shared
  next buffer is missing only while a full one waits, so that one round gives at most two away.
- `DayIsRolled`: `Spec => []RolledAtMidnight`. `LateInv` is the counting: as many appends went to a file
  whose day is over as were counted since the date was last looked at. `AppendedType` shows it of
  `append_unlocked`, whichever way it rolls, flushes or counts.
- `MessagesInOrder`: `Spec => []AllInOrder`. The property is a set and an order, so that it can be reasoned
  about without an induction: the files, the C library's buffer and the logger's buffers are parts that
  follow one another; each message of a part is below those of the later ones, and together they hold what
  was appended and not thrown away. `HeldJoined` and `PartsJoined` say what parts joined hold and when they
  are in order. `Gains` is what each function of `LogFile` does: it keeps the messages and puts the new ones behind
  them (`WriteOutGains`, `FlushedGains`, `WrittenGains`, `OpenedHolds`, `RollFileGains`, `AppendedGains`), wherever
  the file is cut or rolled. `PlaceInv` says where the consumer is among its buffers, and that a next buffer is empty.
- `LostInBurst`: `Spec => LossOnlyInBurst`. `FullInv` (`BuffersFilled`) follows a buffer from the producers to
  the backlog: what waits behind the current buffer has no room left, because only `append` pushes buffers, when the
  message does not fit, and the consumer swaps all of them with the current one last.
- `Invariant`: `Spec => []IInv`, with the types of all variables, the log file's among them.

The same module about `ConvertInt`, for every number and every base:

- `DigitsAreTheNumber`: `Spec => []ShowsValue`. What is left times the weight of the next digit, plus what
  the digits written stand for, is always the number's magnitude.
- `DigitsFit`: a number of `most` digits, its sign or prefix and its terminator take at most `most + 2`
  bytes, so 64 bits need 22. An address has 16 digits at most, 18 bytes, and with the `0x` that `convertHex`
  writes in front (`LogStream.cc:136-138`), which `Size` leaves out, 20 of the 32 that callers make sure of. The powers of the base
  are any function with their two equations, since an inductive definition cannot be unfolded.

And about `Logging`, for any number of threads and any pieces of any length (`Sizes` says what the code's
constants and types do):

- `LinesStayInBuffer` and `ShortLinesAreWhole`. The invariant ties what was put to what is in the line: they
  are equal, or so much was put that a number did not fit any more.

`Bytes_proofs`, about `Serializer`, for both byte orders, any types and any bytes:

- `ObjectsRoundTrip`, `StringsRoundTrip` (strings without NUL whose length fits two bytes) and `AnswersRoundTrip`,
  whatever the type of the result: what was put is what is taken, and what follows in the stream is left alone.
- `TuplesRoundTrip`: arguments of any number and types come out as they went in. `packageArgs` and `getTuple` are
  recursive functions: `PackedOneByOne` and `TakenOneByOne` show that the recursions define something, and the rest
  is induction on the index of the argument, as the least index of a set where it fails (`EveryIndex`). What is left of
  the stream after each argument is what the later ones were packed into, because equal streams with
  the same front have the same rest (`SameFront`).

And about `Rpc`, for any clients, I/O threads, functions, types and calls that fit `CallsAssumption`:

- `CallsAnswered`: `Spec => []WholeCallsAnswered`, and `AnswersRead`: `Spec => []WholeAnswersRead`. The results
  alone say nothing of a call that is under way. `UncutInv` says what is: on a connection whose messages were
  each read as a whole there is one at most, the whole request to the server or the whole answer to the
  client, and a timeout means that the server is gone. `CallInv` adds that nothing stays in a serializer
  or an input buffer from one message to the next, whatever another connection of the thread had
  cut, which is all that connections share. `RequestsAnswered` and `RepliesRead` are the data: a whole request is answered
  with the function's result, and a whole answer is read as that result.
- `CallsAssumption` is the caller's part, which nothing in a message lets the server check: the arguments
  and the result have the types the function was bound with, and strings are no longer than two bytes can say.

`Buffer`, `Logging` and `ConvertInt` have no run of their own: their constants are sizes and texts, and the
theorems say more than an instance with small ones would.

Assumptions used: `WakeupAssumption`, `SizesAssumption` (a message and a send buffer are not empty), `BoundAssumption`, `WorkersAssumption` (the workers are finitely
many), `BacklogAssumption` (25 in the code), `RollAssumption`, `CheckAssumption`, `DayAssumption`, `StdioAssumption`,
`BaseAssumption`, `CodeAssumption`, `ThreadsAssumption`, `CallsAssumption`, `DelaysAssumption` (times are natural numbers), `RequestsAssumption`, `ConnsAssumption`,
`PathsAssumption`, `LimitAssumption` (the process may open a descriptor), `BoundsAssumption`, `OldBoundsAssumption` and `OldSizesAssumption` (an answer and a
socket's buffer are not empty, and there is a descriptor), all in the modules that declare the constants.

**Only model-checked**: liveness (`FunctorsRun`, `QuitEnds`, `WakeupDrained`, `PeerLeftIsReleased`,
`ShutdownCompletes`, `ClientsServed`, `HeardBack`, `MessagesWritten`, `TasksTaken`, `StopReturns`, `CallsReturn`,
`GoneAreFreed`, `ShutdownHappens`), which the prover does not reach. Every invariant, action property and
refinement of a passing run is a theorem too. The properties that TLC
refutes are not: `OnTime`, `NeverEarly`, `EarlierTimerArms`, `RemovedWhenQuiet`, `SafeToDropInCleanup`, `WrittenAtStop`.

## 5. What is not modelled, and why

- Allocation failure, `abort` on failed system calls, and the text of log lines and of HTTP answers
  (`HttpResponse::appendToBuffer`).
- The reuse of an address by the allocator: a `TimerId` is an address and a time, and a new timer may get both.
- The destructor of `TimerQueue`, which deletes what is left when its loop's thread ends.
- The poller's event list, which grows when it is full, and its map with the channels of several
  connections: `Channel` is one channel's part, and `TcpServer` has the descriptors' numbers.
- The loop object's own lifetime against late callers (`quit()` writing the eventfd of a loop that
  has gone): `EventLoop` assumes it outlives the calls.
- The second `close` of a client's `sockfd_`, by the destructor of `conn_` after `connect` has given up
  and closed it, when another thread has got the number in between: the model has no other threads.
- `setBaseName` and `setRollSize` of the logger, meant for before the start; a write to the log file that fails,
  of which the code only prints the number.
- `snprintf`'s text of floating-point numbers, and `setOutput`.
- Request bodies, which the HTTP parser does not support, and the request's method: `HttpContext` keeps the
  `method_` of a line it rejects (`HttpRequest.h:46-70`), but no answer depends on it.
- Copying, moving, swapping and searching buffers.
- The RPC templates that turn arguments and results into objects: one function from arguments to result.
- A client's `write` that fails or is short (`RpcClient.h:61-63`): `Call` is one step, and the message is sent as a whole.
- The value classes and helpers (`Timestamp`, `InetAddress`, `StringPiece`, `stringUtil`): no state.
- In `old-version/`: the destructors, which end with the process; the timer queue, the logger and the HTTP
  parser, which differ little from the library's; `send` and `shutdown` from other threads, which nothing there calls.
- There too, the one `httpContext_` that all I/O threads of its `HttpServer` share (`HttpServer.cc:31`, `68`) and write
  without a lock when there is more than one: `OnMessage` takes of the parse only whether the answer closes the
  connection, either way. The steps of the accepting loop when descriptors run out (`TcpServer.cc:129-132`) are one, and
  other errors of `accept4` are left out: their interleaving is in `TcpServer`. `queueInLoop`'s push and its write to
  the eventfd are one step: their interleaving is in `EventLoop`.

## 6. What could follow

1. Composition: `TcpConnection` with `ByteQueue` for its output, and `TcpServer`'s reduced connection
   shown to be an abstraction of `TcpConnection`.
2. The earlier copy's parser and timer queue, if they are to be kept.
