----------------------------- MODULE AsyncLogging -----------------------------
(***************************************************************************)
(* The asynchronous logger (matelib/base/AsyncLogging.cc): the threads     *)
(* that log append to a current buffer under a mutex, one consumer thread  *)
(* swaps the full buffers out and writes them to its LogFile, and the      *)
(* emptied buffers go round.                                               *)
(*                                                                         *)
(* A buffer is the sequence of the messages in it; messages have one size, *)
(* and are numbered in the order in which append takes the mutex.  A       *)
(* unique_ptr to a buffer is a sequence of at most one buffer, empty when  *)
(* it has been moved from.  The consumer's wait is timed, so it may wake   *)
(* up at any moment; a notify only makes it wake up sooner.                *)
(***************************************************************************)
EXTENDS LogFile

CONSTANTS
  Capacity,    \* the size of a buffer, in messages
  MaxBacklog,  \* how many buffers the consumer writes at once, 25 in the code
  MaxMessages, \* bound: how many messages are appended
  MaxTime      \* bound: how far the clock goes

\* A message always goes into an empty buffer: a log line is far below 4 MB.
ASSUME CapacityAssumption == Capacity \in Nat /\ Capacity > 1
ASSUME BacklogAssumption == MaxBacklog \in Nat /\ MaxBacklog > 1
ASSUME BoundAssumption == MaxMessages \in Nat /\ MaxTime \in Nat

VARIABLES
  running,         \* running_
  currentBuffer,   \* currentBuffer_
  nextBuffer,      \* nextBuffer_
  fullBuffers,     \* fullBuffers_
  newBuffer1,      \* the consumer's spare buffers
  newBuffer2,
  buffersToWrite,  \* the buffers the consumer has taken
  written,         \* how many of those the log file was given
  logfile,         \* the consumer's LogFile
  now,             \* the clock, in seconds
  late,            \* history: what the file of a day that is over was given
  pc,              \* where the consumer is
  appended,        \* history: how many messages were appended
  discarded,       \* history: the messages thrown away
  stopped          \* history: how many messages had been appended at stop()

vars == <<running, currentBuffer, nextBuffer, fullBuffers, newBuffer1, newBuffer2,
          buffersToWrite, written, logfile, now, late, pc, appended, discarded, stopped>>

shared == <<currentBuffer, nextBuffer, fullBuffers>>
spares == <<newBuffer1, newBuffer2>>
callerVars == <<running, appended, stopped>>
fileVars == <<logfile, now, late>>

Buffers == Seq(Nat)

\* A unique_ptr: null, or a buffer.
Null == <<>>
Ptr(b) == <<b>>
Fresh == Ptr(<<>>)

TypeOK ==
  /\ running \in BOOLEAN
  /\ currentBuffer \in Seq(Buffers) /\ Len(currentBuffer) = 1
  /\ nextBuffer \in Seq(Buffers) /\ Len(nextBuffer) \leq 1
  /\ fullBuffers \in Seq(Buffers)
  /\ newBuffer1 \in Seq(Buffers) /\ Len(newBuffer1) \leq 1
  /\ newBuffer2 \in Seq(Buffers) /\ Len(newBuffer2) \leq 1
  /\ buffersToWrite \in Seq(Buffers)
  /\ written \in Nat
  /\ logfile \in LogFiles
  /\ now \in Nat
  /\ late \in Nat
  /\ pc \in {"test", "enter", "wait", "backlog", "write", "recycle", "done"}
  /\ appended \in Nat
  /\ discarded \in SUBSET Nat
  /\ stopped \in Nat

Init ==
  /\ running = TRUE
  /\ currentBuffer = Fresh
  /\ nextBuffer = Fresh
  /\ fullBuffers = <<>>
  /\ newBuffer1 = Fresh
  /\ newBuffer2 = Fresh
  /\ buffersToWrite = <<>>
  /\ written = 0
  /\ logfile = NewLogFile(0)
  /\ now = 0
  /\ late = 0
  /\ pc = "test"
  /\ appended = 0
  /\ discarded = {}
  /\ stopped = 0

-----------------------------------------------------------------------------
(* The threads that log.                                                   *)

\* Faulty variant: room is left over for a second message.
HasRoomForTwo(b) == Capacity - Len(b) > 2

\* FixedBuffer::append: currentBuffer_->avail() > len.
HasRoom(b) == Capacity - Len(b) > 1

\* The buffer p points to, with m at its end.
WithMessage(p, m) == [i \in DOMAIN p |-> Append(p[i], m)]

\* What replaces a full buffer: the next one, or a new one.
Replacement == IF nextBuffer # Null THEN nextBuffer ELSE Fresh

\* append, one critical section.
AppendMessage ==
  /\ appended < MaxMessages
  /\ appended' = appended + 1
  /\ IF HasRoom(currentBuffer[1])
       THEN /\ currentBuffer' = WithMessage(currentBuffer, appended + 1)
            /\ UNCHANGED <<nextBuffer, fullBuffers>>
       ELSE /\ fullBuffers' = fullBuffers \o currentBuffer
            /\ currentBuffer' = WithMessage(Replacement, appended + 1)
            /\ nextBuffer' = Null
  /\ UNCHANGED <<running, spares, buffersToWrite, written, fileVars, pc, discarded, stopped>>

\* stop, up to its join.
Stop ==
  /\ running
  /\ running' = FALSE
  /\ stopped' = appended
  /\ UNCHANGED <<shared, spares, buffersToWrite, written, fileVars, pc, appended, discarded>>

-----------------------------------------------------------------------------
(* The consumer.                                                           *)

\* The log file is given data, and a file of a day that is over gets some of it.
Log(data) ==
  /\ logfile' = Appended(logfile, data, now)
  /\ late' = IF DayIsOver(logfile', now) THEN late + 1 ELSE 0
  /\ UNCHANGED now

\* Or flushed.
FlushLog ==
  /\ logfile' = Flushed(logfile)
  /\ UNCHANGED <<now, late>>

\* while (running_), and the last flush after it.
Test ==
  /\ pc = "test"
  /\ IF running
       THEN pc' = "enter" /\ UNCHANGED fileVars
       ELSE pc' = "done" /\ FlushLog
  /\ UNCHANGED <<callerVars, shared, spares, buffersToWrite, written, discarded>>

\* Nothing to do: fullBuffers_.empty() && running_.
Idle == fullBuffers = <<>> /\ running

\* The rest of the critical section, once the wait is over.
TakeBuffers ==
  /\ buffersToWrite' = fullBuffers \o currentBuffer
  /\ fullBuffers' = <<>>
  /\ currentBuffer' = newBuffer1
  /\ newBuffer1' = Null
  /\ IF nextBuffer = Null
       THEN nextBuffer' = newBuffer2 /\ newBuffer2' = Null
       ELSE UNCHANGED <<nextBuffer, newBuffer2>>
  /\ pc' = "backlog"
  /\ UNCHANGED <<callerVars, written, fileVars, discarded>>

\* The consumer takes the mutex and finds something to do.
Enter ==
  /\ pc = "enter"
  /\ ~Idle
  /\ TakeBuffers

\* Or nothing.
StartWait ==
  /\ pc = "enter"
  /\ Idle
  /\ pc' = "wait"
  /\ UNCHANGED <<callerVars, shared, spares, buffersToWrite, written, fileVars, discarded>>

\* Faulty variant: the consumer waits for a full buffer.
WakeUpWhenFull ==
  /\ pc = "wait"
  /\ ~Idle
  /\ TakeBuffers

\* waitForSeconds returns (notified, timed out or for no reason) and there is
\* something to write or the logger stops.  When there is not, it waits again.
WakeUp ==
  /\ pc = "wait"
  /\ currentBuffer[1] # <<>> \/ ~Idle
  /\ TakeBuffers

\* How many of n buffers are kept: the first two, if there are too many.
Kept(n) == IF n > MaxBacklog THEN 2 ELSE n

Backlog ==
  /\ pc = "backlog"
  /\ IF Len(buffersToWrite) > MaxBacklog THEN Log(<<Flag>>) ELSE UNCHANGED fileVars
  /\ LET kept == Kept(Len(buffersToWrite))
     IN  /\ buffersToWrite' = SubSeq(buffersToWrite, 1, kept)
         /\ discarded' = discarded \cup
              UNION {Messages(buffersToWrite[i]) : i \in kept + 1 .. Len(buffersToWrite)}
  /\ written' = 0
  /\ pc' = "write"
  /\ UNCHANGED <<callerVars, shared, spares>>

\* logfile.append of the next buffer.
Write ==
  /\ pc = "write"
  /\ written < Len(buffersToWrite)
  /\ Log(buffersToWrite[written + 1])
  /\ written' = written + 1
  /\ UNCHANGED <<callerVars, shared, spares, buffersToWrite, pc, discarded>>

WriteDone ==
  /\ pc = "write"
  /\ written = Len(buffersToWrite)
  /\ pc' = "recycle"
  /\ UNCHANGED <<callerVars, shared, spares, buffersToWrite, written, fileVars, discarded>>

\* Faulty variant: the cursor is not moved back.
Unchanged(b) == b

\* FixedBuffer::reset.
Emptied(b) == <<>>

\* How many buffers the consumer needs for the next round, and how many it keeps
\* for that.
Needed == IF newBuffer2 = Null THEN 2 ELSE 1
Reusable == IF Len(buffersToWrite) > 2 THEN 2 ELSE Len(buffersToWrite)

\* They become the spare ones (newBuffer1 has always been given away).  Popping
\* from an empty vector is undefined: no step is taken then.
Recycle ==
  /\ pc = "recycle"
  /\ Needed <= Reusable
  /\ newBuffer1' = Ptr(Emptied(buffersToWrite[Reusable]))
  /\ newBuffer2' = IF newBuffer2 = Null THEN Ptr(Emptied(buffersToWrite[Reusable - 1]))
                                        ELSE newBuffer2
  /\ buffersToWrite' = <<>>
  /\ written' = 0
  /\ FlushLog
  /\ pc' = "test"
  /\ UNCHANGED <<callerVars, shared, discarded>>

Consumer ==
  Test \/ Enter \/ StartWait \/ WakeUp \/ Backlog \/ Write \/ WriteDone \/ Recycle

\* Time passes.
Tick ==
  /\ now < MaxTime
  /\ now' = now + 1
  /\ UNCHANGED <<callerVars, shared, spares, buffersToWrite, written, logfile, late, pc, discarded>>

Next == AppendMessage \/ Stop \/ Consumer \/ Tick

Spec == Init /\ [][Next]_vars

\* The consumer keeps running; its wait ends after flushInterval_ seconds.
FairSpec == Spec /\ WF_vars(Consumer)

-----------------------------------------------------------------------------
(* Properties.                                                             *)

\* All of a are before all of b.
Before(a, b) == \A m \in a, n \in b : m < n

\* The messages in several parts, and that they are in order, within each part and
\* from one to the next.
Held(parts) == UNION {Messages(parts[k]) : k \in DOMAIN parts}
InOrder(data) ==
  \A i, j \in DOMAIN data : i < j /\ data[i] # Flag /\ data[j] # Flag => data[i] < data[j]
Ordered(parts) ==
  /\ \A k \in DOMAIN parts : InOrder(parts[k])
  /\ \A k, l \in DOMAIN parts : k < l => Before(Messages(parts[k]), Messages(parts[l]))

\* The buffers the log file was not given yet.
Unwritten == SubSeq(buffersToWrite, written + 1, Len(buffersToWrite))

\* No message is lost, repeated or overtaken on its way through the buffers
\* (append, threadFunc) and from one file to the next (rollFile): the files, the C
\* library's buffer and the buffers together hold every message appended and not
\* thrown away, once and in order.
AllInOrder ==
  LET all == Parts(logfile) \o Unwritten \o fullBuffers \o currentBuffer
  IN  Ordered(all) /\ Held(all) = 1 .. appended \ discarded

\* The consumer's asserts hold, and it never pops from an empty vector: whatever
\* the producers took meanwhile, two empty buffers are ready for each round.
BuffersReady ==
  /\ pc \in {"test", "enter", "wait"} =>
       newBuffer1 = Fresh /\ newBuffer2 = Fresh /\ buffersToWrite = <<>>
  /\ pc = "recycle" => newBuffer1 = Null /\ Needed <= Reusable

\* Messages are thrown away only in a burst: more than MaxBacklog buffers were
\* appended since the consumer's last round, and none but the last has room left.
\* So append passes on no buffer before it is full, and the swaps in between leave
\* no half-filled one in the backlog.
LossOnlyInBurst ==
  [][discarded' # discarded =>
       /\ Len(buffersToWrite) > MaxBacklog
       /\ \A k \in 1 .. Len(buffersToWrite) - 1 : Len(buffersToWrite[k]) = Capacity - 1]_vars

\* The file of a day is given little of the next day's data, although the date is
\* looked at only now and then (append_unlocked).
RolledAtMidnight == late < CheckEvery

\* A message gets to the disk in the end, whether or not its buffer fills up (how soon is
\* not said: the wait may end at any moment), while the logger runs and also if stop()
\* comes once the consumer has begun the round that should take it.
Settled(m) == m \in OnDisk(logfile) \/ m \in discarded
MessagesWritten ==
  \A m \in 1 .. MaxMessages :
    /\ (appended >= m) ~> (Settled(m) \/ ~running)
    /\ (appended >= m /\ pc \in {"enter", "wait"}) ~> Settled(m)

\* AsyncLogging.cc:91: data that do not fill a buffer are written in time too.  So
\* what was appended before stop() should be in the file when stop() returns.
WrittenAtStop ==
  pc = "done" => 1 .. stopped \subseteq OnDisk(logfile) \cup discarded
=============================================================================
