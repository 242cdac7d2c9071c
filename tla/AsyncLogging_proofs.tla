------------------------- MODULE AsyncLogging_proofs -------------------------
(***************************************************************************)
(* Proofs about the asynchronous logger and its log file, for buffers,     *)
(* backlogs, files, days and flush intervals of any size: the types, the   *)
(* two spare buffers that the consumer always has, the burst without which *)
(* no message is thrown away, the end of a day's file, and the order of    *)
(* all messages in the files and the buffers.                              *)
(*                                                                         *)
(* And about what it is given: a log line stays within its buffer, and is  *)
(* whole unless it is longer than the buffer holds, whatever is put to it, *)
(* by any number of threads; the digits put for a number are those of the  *)
(* number, and there are not too many of them.                             *)
(***************************************************************************)
EXTENDS AsyncLogging, Logging, ConvertInt, TLAPS

-----------------------------------------------------------------------------
(* Sequences.                                                              *)

\* The two ends of a sequence.
LEMMA Ends ==
  ASSUME NEW S, NEW s \in Seq(S), NEW n \in 0 .. Len(s)
  PROVE  /\ SubSeq(s, 1, n) \in Seq(S)
         /\ Len(SubSeq(s, 1, n)) = n
         /\ SubSeq(s, n + 1, Len(s)) \in Seq(S)
  OBVIOUS

LEMMA Elements ==
  ASSUME NEW S, NEW s \in Seq(S)
  PROVE  /\ Len(s) \in Nat
         /\ s \in [1 .. Len(s) -> S]
         /\ \A n \in 1 .. Len(s) : s[n] \in S
  OBVIOUS

LEMMA NotEmpty ==
  ASSUME NEW S, NEW s \in Seq(S), s # <<>>
  PROVE  Len(s) \in Nat /\ Len(s) >= 1
  OBVIOUS

LEMMA Single ==
  ASSUME NEW S, NEW s \in Seq(S), s # <<>>, Len(s) <= 1
  PROVE  Len(s) = 1
<1> DEFINE n == Len(s)
<1>1. n \in Nat /\ n >= 1
  BY NotEmpty
<1>2. n <= 1
  OBVIOUS
<1> HIDE DEF n
<1>3. n = 1
  BY <1>1, <1>2
<1> QED BY <1>3 DEF n

LEMMA FunctionIsSeq ==
  ASSUME NEW S, NEW n \in Nat, NEW s \in [1 .. n -> S]
  PROVE  s \in Seq(S)
  OBVIOUS

\* A record in a sequence of records is given another field.
LEMMA Replaced ==
  ASSUME NEW S, NEW s \in Seq([name : Nat, data : S]), NEW n \in Nat, NEW d \in S
  PROVE  [s EXCEPT ![n] = [s[n] EXCEPT !.data = d]] \in Seq([name : Nat, data : S])
<1> DEFINE R == [name : Nat, data : S]
           t == [s EXCEPT ![n] = [s[n] EXCEPT !.data = d]]
<1>0. s \in Seq(R)
  OBVIOUS
<1>1. ASSUME NEW r \in R PROVE [r EXCEPT !.data = d] \in R
  OBVIOUS
<1> HIDE DEF R
<1>2. Len(s) \in Nat /\ s \in [1 .. Len(s) -> R] /\ \A j \in 1 .. Len(s) : s[j] \in R
  BY <1>0, Elements
<1>3. n \in 1 .. Len(s) => [s[n] EXCEPT !.data = d] \in R
  BY <1>1, <1>2
<1>4. t \in [1 .. Len(s) -> R]
  BY <1>2, <1>3
<1> HIDE DEF t
<1>5. t \in Seq(R)
  BY <1>2, <1>4, FunctionIsSeq
<1> QED BY <1>5 DEF t, R

-----------------------------------------------------------------------------
(* The log file: each function of LogFile keeps the record's type, and     *)
(* what it leaves alone is named.                                          *)

\* f is a log file that counts and dates as g does.
SameCount(f, g) == f.count = g.count /\ f.startOfPeriod = g.startOfPeriod

LEMMA CountType ==
  ASSUME NEW f, f \in LogFiles, NEW n \in Nat
  PROVE  /\ [f EXCEPT !.count = n] \in LogFiles
         /\ [f EXCEPT !.count = n].count = n
         /\ [f EXCEPT !.count = n].startOfPeriod = f.startOfPeriod
<1> DEFINE F == Seq([name : Nat, data : Seq(Nat)])
           N == Seq(Nat)
<1>1. LogFiles = [files : F, unflushed : N, writtenBytes : Nat, count : Nat,
                  startOfPeriod : Nat, lastFlush : Nat]
  BY DEF LogFiles
<1> HIDE DEF F, N
<1> QED BY <1>1

LEMMA WriteOutType ==
  ASSUME NEW f \in LogFiles, NEW n \in 0 .. Len(f.unflushed)
  PROVE  WriteOut(f, n) \in LogFiles /\ SameCount(WriteOut(f, n), f)
         /\ WriteOut(f, n).writtenBytes = f.writtenBytes
<1> DEFINE R == [name : Nat, data : Seq(Nat)]
           k == Len(f.files)
           d == f.files[k].data \o SubSeq(f.unflushed, 1, n)
           files == [f.files EXCEPT ![k] = [f.files[k] EXCEPT !.data = d]]
           left == SubSeq(f.unflushed, n + 1, Len(f.unflushed))
<1>1. /\ f.files \in Seq(R) /\ f.unflushed \in Seq(Nat)
      /\ f.writtenBytes \in Nat /\ f.count \in Nat /\ f.startOfPeriod \in Nat /\ f.lastFlush \in Nat
  BY DEF LogFiles
<1>2. SubSeq(f.unflushed, 1, n) \in Seq(Nat) /\ left \in Seq(Nat)
  BY <1>1, Ends
<1>3. files \in Seq(R)
  <2>1. CASE f.files = <<>>
    <3>1. files = f.files
      BY <2>1
    <3> QED BY <1>1, <3>1
  <2>2. CASE f.files # <<>>
    <3>1. k \in Nat /\ k \in 1 .. Len(f.files)
      <4> HIDE DEF R
      <4> QED BY <1>1, <2>2
    <3>2. f.files[k] \in R
      <4> HIDE DEF R
      <4> QED BY <1>1, <3>1, Elements
    <3>3. d \in Seq(Nat)
      BY <1>2, <3>2
    <3> QED BY <1>1, <3>1, <3>3, Replaced
  <2> QED BY <2>1, <2>2
<1>4. WriteOut(f, n) = [f EXCEPT !.files = files, !.unflushed = left]
  BY <1>1 DEF WriteOut, LogFiles
<1> HIDE DEF files, left
<1>5. f \in [files : Seq(R), unflushed : Seq(Nat), writtenBytes : Nat, count : Nat,
             startOfPeriod : Nat, lastFlush : Nat]
  BY DEF LogFiles
<1> QED BY <1>2, <1>3, <1>4, <1>5 DEF LogFiles, SameCount

LEMMA FlushedType ==
  ASSUME NEW f \in LogFiles
  PROVE  Flushed(f) \in LogFiles /\ SameCount(Flushed(f), f)
<1>1. f.unflushed \in Seq(Nat)
  BY DEF LogFiles
<1>2. Len(f.unflushed) \in 0 .. Len(f.unflushed)
  BY <1>1
<1> QED BY <1>2, WriteOutType DEF Flushed, SameCount

\* As much as fills the C library's buffer, once or more often.
LEMMA WholeBuffers ==
  ASSUME NEW l \in Nat, NEW k \in Nat, k > 0
  PROVE  (l \div k) * k \in 0 .. l
<1> DEFINE q == l \div k
<1>1. q \in Nat /\ q * k <= l /\ q * k \in Nat
  BY Z3
<1> QED BY <1>1

LEMMA WrittenType ==
  ASSUME NEW f \in LogFiles, NEW data \in Seq(Nat)
  PROVE  Written(f, data) \in LogFiles /\ SameCount(Written(f, data), f)
<1> DEFINE g == [f EXCEPT !.unflushed = @ \o data, !.writtenBytes = @ + Len(data)]
           n == (Len(g.unflushed) \div StdioSize) * StdioSize
<1>1. g \in LogFiles /\ SameCount(g, f)
  <2>1. f.unflushed \o data \in Seq(Nat) /\ f.writtenBytes + Len(data) \in Nat
    BY DEF LogFiles
  <2> QED BY <2>1 DEF LogFiles, SameCount
<1>2. Len(g.unflushed) \in Nat
  BY <1>1 DEF LogFiles
<1>3. n \in 0 .. Len(g.unflushed)
  <2> HIDE DEF g
  <2> DEFINE l == Len(g.unflushed)
  <2>1. StdioSize \in Nat /\ StdioSize > 0 /\ l \in Nat
    BY <1>2, StdioAssumption
  <2> HIDE DEF l
  <2>2. (l \div StdioSize) * StdioSize \in 0 .. l
    BY <2>1, WholeBuffers
  <2> QED BY <2>2 DEF l
<1>4. Written(f, data) = IF n = 0 THEN g ELSE WriteOut(g, n)
  BY DEF Written
<1> HIDE DEF g, n
<1> QED BY <1>1, <1>3, <1>4, WriteOutType DEF SameCount

LEMMA StartOfDayType ==
  ASSUME NEW t \in Nat
  PROVE  StartOfDay(t) \in Nat
<1>1. Day \in Nat /\ Day > 0
  BY DayAssumption
<1>2. t \div Day \in Nat
  BY <1>1, Z3
<1> QED BY <1>1, <1>2 DEF StartOfDay

\* A file just opened, with nothing in it yet.
NewFile(f, t) ==
  [f EXCEPT !.files = Opened(Flushed(f).files, t), !.unflushed = <<>>, !.writtenBytes = 0,
            !.startOfPeriod = StartOfDay(t), !.lastFlush = t]

LEMMA NewFileType ==
  ASSUME NEW f \in LogFiles, NEW t \in Nat
  PROVE  /\ NewFile(f, t) \in LogFiles
         /\ NewFile(f, t).count = f.count
         /\ NewFile(f, t).startOfPeriod = StartOfDay(t)
         /\ NewFile(f, t).files = Opened(Flushed(f).files, t)
         /\ NewFile(f, t).unflushed = <<>>
<1> DEFINE R == [name : Nat, data : Seq(Nat)]
           F == Seq(R)
           N == Seq(Nat)
           r == [name |-> t, data |-> <<>>]
           s == Flushed(f).files
           files == Opened(s, t)
<1>1. s \in F
  BY FlushedType DEF LogFiles
<1>2. <<>> \in N /\ r \in R
  OBVIOUS
<1>3. files = s \/ files = Append(s, r)
  BY DEF Opened
<1>4. LogFiles = [files : F, unflushed : N, writtenBytes : Nat, count : Nat,
                  startOfPeriod : Nat, lastFlush : Nat]
  BY DEF LogFiles
<1> HIDE DEF R, N, r, s, files
<1>5. files \in F
  BY <1>1, <1>2, <1>3
<1>6. StartOfDay(t) \in Nat
  BY StartOfDayType
<1>7. NewFile(f, t) = [f EXCEPT !.files = files, !.unflushed = <<>>, !.writtenBytes = 0,
                                !.startOfPeriod = StartOfDay(t), !.lastFlush = t]
  BY DEF NewFile, files, s
<1> HIDE DEF F
<1>8. LET g == NewFile(f, t)
      IN  /\ g \in LogFiles /\ g.count = f.count /\ g.startOfPeriod = StartOfDay(t)
          /\ g.files = files /\ g.unflushed = <<>>
  <2> DEFINE d == StartOfDay(t)
             e == <<>>
             g == [f EXCEPT !.files = files, !.unflushed = e, !.writtenBytes = 0,
                            !.startOfPeriod = d, !.lastFlush = t]
  <2>1. d \in Nat /\ e \in N /\ g = NewFile(f, t)
    BY <1>2, <1>6, <1>7
  <2> HIDE DEF d, e
  <2>2. /\ g \in LogFiles /\ g.count = f.count /\ g.startOfPeriod = d
        /\ g.files = files /\ g.unflushed = e
    BY <1>4, <1>5, <2>1
  <2> HIDE DEF g
  <2> QED BY <2>1, <2>2 DEF d, e
<1> QED BY <1>8 DEF files, s

\* The new file is of the day on which it was opened.
LEMMA RollFileType ==
  ASSUME NEW f \in LogFiles, NEW t \in Nat
  PROVE  /\ RollFile(f, t) \in LogFiles
         /\ RollFile(f, t).count = f.count
         /\ ~DayIsOver(RollFile(f, t), t)
<1> DEFINE g == NewFile(f, t)
<1>1. g \in LogFiles /\ g.count = f.count /\ g.startOfPeriod = StartOfDay(t)
  BY NewFileType
<1>2. RollFile(f, t) = Written(g, <<Flag>>)
  BY DEF RollFile, NewFile
<1>3. <<Flag>> \in Seq(Nat)
  BY DEF Flag
<1> HIDE DEF g
<1> QED BY <1>1, <1>2, <1>3, WrittenType DEF SameCount, DayIsOver

\* What append_unlocked does to the counter and the day.
LEMMA AppendedType ==
  ASSUME NEW f \in LogFiles, NEW data \in Seq(Nat), NEW t \in Nat, f.count < CheckEvery
  PROVE  /\ Appended(f, data, t) \in LogFiles
         /\ Appended(f, data, t).count < CheckEvery
         /\ \/ ~DayIsOver(Appended(f, data, t), t)
            \/ Appended(f, data, t).count = f.count + 1
<1> DEFINE g == Written(f, data)
           h == [g EXCEPT !.count = 0]
<1>1. g \in LogFiles /\ g.count = f.count /\ g.count \in Nat /\ g.writtenBytes \in Nat
  BY WrittenType DEF SameCount, LogFiles
<1>2. CheckEvery \in Nat /\ CheckEvery > 0 /\ RollSize \in Nat
  BY CheckAssumption, RollAssumption
<1> HIDE DEF g
<1>3. CASE g.writtenBytes > RollSize
  <2> DEFINE r == RollFile(g, t)
  <2>1. Appended(f, data, t) = [r EXCEPT !.count = 0]
    BY <1>1, <1>2, <1>3 DEF Appended, g
  <2>2. r \in LogFiles /\ ~DayIsOver(r, t)
    BY <1>1, RollFileType
  <2> HIDE DEF r
  <2>3. /\ [r EXCEPT !.count = 0] \in LogFiles
        /\ [r EXCEPT !.count = 0].count = 0
        /\ [r EXCEPT !.count = 0].startOfPeriod = r.startOfPeriod
    BY <2>2 DEF LogFiles
  <2> QED BY <1>2, <2>1, <2>2, <2>3 DEF DayIsOver
<1>4. CASE g.writtenBytes <= RollSize /\ g.count + 1 >= CheckEvery
  <2>1. Appended(f, data, t) = Checked(h, t)
    BY <1>1, <1>2, <1>4 DEF Appended, g
  <2>2. h \in LogFiles /\ h.count = 0
    BY <1>1 DEF LogFiles
  <2> HIDE DEF h
  <2>3. CASE DayIsOver(h, t)
    BY <1>2, <2>1, <2>2, <2>3, RollFileType DEF Checked
  <2>4. CASE ~DayIsOver(h, t) /\ t - h.lastFlush > FlushInterval
    <3> DEFINE u == Flushed(h)
    <3>1. Checked(h, t) = [u EXCEPT !.lastFlush = t]
      BY <2>4 DEF Checked
    <3>2. u \in LogFiles /\ SameCount(u, h)
      BY <2>2, FlushedType
    <3> HIDE DEF u
    <3>3. /\ [u EXCEPT !.lastFlush = t] \in LogFiles
          /\ SameCount([u EXCEPT !.lastFlush = t], u)
      BY <3>2 DEF LogFiles, SameCount
    <3> QED BY <1>2, <2>1, <2>2, <2>4, <3>1, <3>2, <3>3 DEF DayIsOver, SameCount
  <2>5. CASE ~DayIsOver(h, t) /\ ~(t - h.lastFlush > FlushInterval)
    BY <1>2, <2>1, <2>2, <2>5 DEF Checked
  <2> QED BY <2>3, <2>4, <2>5
<1>5. CASE g.writtenBytes <= RollSize /\ g.count + 1 < CheckEvery
  <2>1. Appended(f, data, t) = [g EXCEPT !.count = @ + 1]
    BY <1>1, <1>2, <1>5 DEF Appended, g
  <2> DEFINE k == [g EXCEPT !.count = @ + 1]
  <2>2. k \in LogFiles /\ k.count = g.count + 1
    <3>1. g.count + 1 \in Nat
      BY <1>1
    <3> QED BY <1>1, <3>1, CountType
  <2> HIDE DEF k
  <2>3. Appended(f, data, t) = k
    BY <2>1 DEF k
  <2> QED BY <1>1, <1>2, <1>5, <2>2, <2>3
<1> QED BY <1>1, <1>2, <1>3, <1>4, <1>5

-----------------------------------------------------------------------------
(* The inductive invariant.                                                *)

\* The buffers: a spare one is empty; the shared next one is there unless a full
\* one waits; and the consumer holds at least as many buffers as it will need.
PtrInv ==
  /\ newBuffer1 \in {Null, Fresh}
  /\ newBuffer2 \in {Null, Fresh}
  /\ nextBuffer = Null => fullBuffers # <<>>
  /\ pc \in {"test", "enter", "wait"} =>
       newBuffer1 = Fresh /\ newBuffer2 = Fresh /\ buffersToWrite = <<>>
  /\ pc \in {"backlog", "write", "recycle"} =>
       /\ newBuffer1 = Null
       /\ Len(buffersToWrite) >= 1
       /\ newBuffer2 = Null => Len(buffersToWrite) >= 2

\* The log file: each append to the file of a day that is over was counted since
\* the date was last looked at.
LateInv ==
  /\ late <= logfile.count
  /\ logfile.count < CheckEvery

IInv == TypeOK /\ PtrInv /\ LateInv

-----------------------------------------------------------------------------
(* Pointers.                                                               *)

LEMMA Pointers ==
  /\ Null \in Seq(Buffers) /\ Len(Null) = 0
  /\ Fresh \in Seq(Buffers) /\ Len(Fresh) = 1
  /\ Null # Fresh
<1>1. <<>> \in Buffers
  BY DEF Buffers
<1> HIDE DEF Buffers
<1> QED BY <1>1 DEF Null, Fresh, Ptr

LEMMA Joined ==
  ASSUME NEW S, NEW s \in Seq(S), NEW t \in Seq(S)
  PROVE  s \o t \in Seq(S) /\ Len(s \o t) = Len(s) + Len(t)
  OBVIOUS

LEMMA WithMessageType ==
  ASSUME NEW p \in Seq(Buffers), Len(p) = 1, NEW m \in Nat
  PROVE  WithMessage(p, m) \in Seq(Buffers) /\ Len(WithMessage(p, m)) = 1
<1>1. ASSUME NEW b \in Buffers PROVE Append(b, m) \in Buffers
  BY DEF Buffers
<1>2. DOMAIN p = 1 .. 1 /\ p[1] \in Buffers
  <2>1. p \in [1 .. 1 -> Buffers]
    BY Elements
  <2> QED BY <2>1
<1>3. WithMessage(p, m) \in [1 .. 1 -> Buffers]
  BY <1>1, <1>2 DEF WithMessage
<1>4. WithMessage(p, m) \in Seq(Buffers)
  BY <1>3, FunctionIsSeq
<1>5. DOMAIN WithMessage(p, m) = 1 .. 1
  BY <1>3
<1> QED BY <1>4, <1>5

-----------------------------------------------------------------------------
(* The log file is written and flushed.                                    *)

LEMMA LogKeeps ==
  ASSUME TypeOK, LateInv, NEW data \in Seq(Nat), Log(data)
  PROVE  logfile' \in LogFiles /\ now' \in Nat /\ late' \in Nat /\ LateInv'
<1>1. logfile \in LogFiles /\ now \in Nat /\ late \in Nat
  BY DEF TypeOK
<1>2. logfile.count \in Nat /\ CheckEvery \in Nat
  BY <1>1, CheckAssumption DEF LogFiles
<1>3. logfile' = Appended(logfile, data, now) /\ now' = now
      /\ late' = IF DayIsOver(logfile', now) THEN late + 1 ELSE 0
  BY DEF Log
<1>4. /\ logfile' \in LogFiles
      /\ logfile'.count < CheckEvery
      /\ ~DayIsOver(logfile', now) \/ logfile'.count = logfile.count + 1
  BY <1>1, <1>3, AppendedType DEF LateInv
<1>5. logfile'.count \in Nat
  BY <1>4 DEF LogFiles
<1> QED BY <1>1, <1>2, <1>3, <1>4, <1>5 DEF LateInv

LEMMA FlushKeeps ==
  ASSUME TypeOK, LateInv, FlushLog
  PROVE  logfile' \in LogFiles /\ now' \in Nat /\ late' \in Nat /\ LateInv'
<1>1. logfile \in LogFiles
  BY DEF TypeOK
<1>2. logfile' \in LogFiles /\ SameCount(logfile', logfile)
  BY <1>1, FlushedType DEF FlushLog
<1> QED BY <1>2 DEF TypeOK, FlushLog, LateInv, SameCount

-----------------------------------------------------------------------------
(* Each step keeps the invariant.                                          *)

LEMMA InitIInv == Init => IInv
<1> SUFFICES ASSUME Init PROVE IInv
  OBVIOUS
<1>1. NewLogFile(0) \in LogFiles /\ NewLogFile(0).count = 0
  <2> DEFINE f == [files |-> <<>>, unflushed |-> <<>>, writtenBytes |-> 0,
                   count |-> 0, startOfPeriod |-> 0, lastFlush |-> 0]
  <2>1. f \in LogFiles /\ f.count = 0
    <3> DEFINE F == Seq([name : Nat, data : Seq(Nat)])
               N == Seq(Nat)
    <3>1. <<>> \in N /\ <<>> \in F
      OBVIOUS
    <3>2. LogFiles = [files : F, unflushed : N, writtenBytes : Nat, count : Nat,
                      startOfPeriod : Nat, lastFlush : Nat]
      BY DEF LogFiles
    <3> HIDE DEF F, N
    <3> QED BY <3>1, <3>2
  <2>2. NewLogFile(0) = RollFile(f, 0)
    BY DEF NewLogFile
  <2> HIDE DEF f
  <2> QED BY <2>1, <2>2, RollFileType
<1>2. LateInv
  BY <1>1, CheckAssumption DEF Init, LateInv
<1>3. TypeOK
  <2>1. <<>> \in Seq(Buffers)
    <3> HIDE DEF Buffers
    <3> QED OBVIOUS
  <2> QED BY <1>1, <2>1, Pointers DEF Init, TypeOK
<1>4. PtrInv
  BY Pointers DEF Init, PtrInv
<1> QED BY <1>2, <1>3, <1>4 DEF IInv

LEMMA AppendKeeps == IInv /\ AppendMessage => IInv'
<1> SUFFICES ASSUME IInv, AppendMessage PROVE IInv'
  OBVIOUS
<1> USE DEF IInv
<1>1. appended \in Nat /\ appended + 1 \in Nat /\ appended' = appended + 1
  BY DEF TypeOK, AppendMessage
<1>2. LateInv'
  BY DEF AppendMessage, LateInv, fileVars
<1>3. CASE HasRoom(currentBuffer[1])
  <2>1. /\ currentBuffer' = WithMessage(currentBuffer, appended + 1)
        /\ UNCHANGED <<nextBuffer, fullBuffers>>
    BY <1>3 DEF AppendMessage
  <2>2. currentBuffer' \in Seq(Buffers) /\ Len(currentBuffer') = 1
    BY <1>1, <2>1, WithMessageType DEF TypeOK
  <2>3. TypeOK'
    BY <1>1, <2>1, <2>2 DEF TypeOK, AppendMessage, spares, fileVars
  <2>4. PtrInv'
    BY <2>1 DEF PtrInv, AppendMessage, spares
  <2> QED BY <1>2, <2>3, <2>4
<1>4. CASE ~HasRoom(currentBuffer[1])
  <2>1. /\ fullBuffers' = fullBuffers \o currentBuffer
        /\ currentBuffer' = WithMessage(Replacement, appended + 1)
        /\ nextBuffer' = Null
    BY <1>4 DEF AppendMessage
  <2>2. Replacement \in Seq(Buffers) /\ Len(Replacement) = 1
    <3>1. CASE nextBuffer = Null
      BY <3>1, Pointers DEF Replacement
    <3>2. CASE nextBuffer # Null
      <4>1. nextBuffer \in Seq(Buffers) /\ Len(nextBuffer) <= 1
        BY DEF TypeOK
      <4>2. nextBuffer # <<>>
        BY <3>2 DEF Null
      <4>3. Len(nextBuffer) = 1
        BY <4>1, <4>2, Single
      <4> QED BY <3>2, <4>1, <4>3 DEF Replacement
    <3> QED BY <3>1, <3>2
  <2>3. currentBuffer' \in Seq(Buffers) /\ Len(currentBuffer') = 1
    BY <1>1, <2>1, <2>2, WithMessageType
  <2>4. fullBuffers' \in Seq(Buffers) /\ fullBuffers' # <<>>
    <3>1. /\ fullBuffers \in Seq(Buffers)
          /\ currentBuffer \in Seq(Buffers)
          /\ Len(currentBuffer) = 1
      BY DEF TypeOK
    <3>2. fullBuffers' \in Seq(Buffers) /\ Len(fullBuffers') = Len(fullBuffers) + 1
      BY <2>1, <3>1, Joined
    <3>3. Len(fullBuffers) \in Nat
      BY <3>1, Elements
    <3> QED BY <3>2, <3>3
  <2>5. TypeOK'
    BY <1>1, <2>1, <2>3, <2>4, Pointers DEF TypeOK, AppendMessage, spares, fileVars
  <2>6. PtrInv'
    BY <2>4 DEF PtrInv, AppendMessage, spares
  <2> QED BY <1>2, <2>5, <2>6
<1> QED BY <1>3, <1>4

\* From the wait, or without one: the consumer's two spare buffers become the
\* current and, if needed, the next one.
LEMMA TakeKeeps == IInv /\ pc \in {"enter", "wait"} /\ TakeBuffers => IInv'
<1> SUFFICES ASSUME IInv, pc \in {"enter", "wait"}, TakeBuffers PROVE IInv'
  OBVIOUS
<1> USE DEF IInv
<1>1. newBuffer1 = Fresh /\ newBuffer2 = Fresh
  BY DEF PtrInv
<1>2. /\ currentBuffer' = Fresh /\ newBuffer1' = Null
      /\ fullBuffers' = <<>> /\ buffersToWrite' = fullBuffers \o currentBuffer
      /\ pc' = "backlog"
  BY <1>1 DEF TakeBuffers
<1>3. LateInv'
  BY DEF TakeBuffers, LateInv, fileVars
<1>4. /\ fullBuffers \in Seq(Buffers)
      /\ currentBuffer \in Seq(Buffers)
      /\ Len(currentBuffer) = 1
      /\ Len(fullBuffers) \in Nat
  BY Elements DEF TypeOK
<1>5. buffersToWrite' \in Seq(Buffers) /\ Len(buffersToWrite') = Len(fullBuffers) + 1
  BY <1>2, <1>4, Joined
<1>6. <<>> \in Seq(Buffers)
  BY Pointers DEF Null
<1>7. CASE nextBuffer = Null
  <2>1. nextBuffer' = Fresh /\ newBuffer2' = Null
    BY <1>1, <1>7 DEF TakeBuffers
  <2>2. Len(fullBuffers) >= 1
    <3>1. fullBuffers # <<>>
      BY <1>7 DEF PtrInv
    <3> QED BY <1>4, <3>1, NotEmpty
  <2>3. TypeOK'
    BY <1>2, <1>5, <1>6, <2>1, Pointers DEF TypeOK, TakeBuffers, callerVars, fileVars
  <2>4. PtrInv'
    BY <1>2, <1>4, <1>5, <2>1, <2>2, Pointers DEF PtrInv
  <2> QED BY <1>3, <2>3, <2>4
<1>8. CASE nextBuffer # Null
  <2>1. UNCHANGED <<nextBuffer, newBuffer2>>
    BY <1>8 DEF TakeBuffers
  <2>3. TypeOK'
    BY <1>2, <1>5, <1>6, <2>1, Pointers DEF TypeOK, TakeBuffers, callerVars, fileVars
  <2>4. PtrInv'
    BY <1>1, <1>2, <1>4, <1>5, <1>8, <2>1, Pointers DEF PtrInv
  <2> QED BY <1>3, <2>3, <2>4
<1> QED BY <1>7, <1>8

\* What Kept keeps is what there is, or two: never too little for the next round.
LEMMA KeptEnough ==
  ASSUME NEW n \in Nat
  PROVE  Kept(n) \in 0 .. n /\ (n <= MaxBacklog => Kept(n) = n)
         /\ (n >= 1 => Kept(n) >= 1) /\ (n >= 2 => Kept(n) >= 2)
  BY BacklogAssumption DEF Kept

LEMMA BacklogKeeps == IInv /\ Backlog => IInv'
<1> SUFFICES ASSUME IInv, Backlog PROVE IInv'
  OBVIOUS
<1> USE DEF IInv
<1> DEFINE n == Len(buffersToWrite)
<1>1. logfile' \in LogFiles /\ now' \in Nat /\ late' \in Nat /\ LateInv'
  <2>1. CASE n > MaxBacklog
    <3>1. Log(<<Flag>>)
      BY <2>1 DEF Backlog
    <3>2. <<Flag>> \in Seq(Nat)
      BY DEF Flag
    <3> QED BY <3>1, <3>2, LogKeeps
  <2>2. CASE ~(n > MaxBacklog)
    BY <2>2 DEF Backlog, fileVars, TypeOK, LateInv
  <2> QED BY <2>1, <2>2
<1>2. buffersToWrite \in Seq(Buffers) /\ n \in Nat
  BY Elements DEF TypeOK
<1>3. Kept(n) \in 0 .. n
  BY <1>2, KeptEnough
<1>4. /\ buffersToWrite' = SubSeq(buffersToWrite, 1, Kept(n))
      /\ discarded' = discarded \cup
              UNION {Messages(buffersToWrite[j]) : j \in Kept(n) + 1 .. n}
      /\ written' = 0 /\ pc' = "write" /\ pc = "backlog"
  BY DEF Backlog
<1>5. buffersToWrite' \in Seq(Buffers) /\ Len(buffersToWrite') = Kept(n)
  BY <1>2, <1>3, <1>4, Ends
<1>6. discarded' \in SUBSET Nat
  <2>1. ASSUME NEW k \in Kept(n) + 1 .. n PROVE Messages(buffersToWrite[k]) \subseteq Nat
    <3>1. k \in 1 .. n
      BY <1>2, <1>3
    <3>2. buffersToWrite[k] \in Seq(Nat)
      BY <1>2, <3>1, Elements DEF Buffers
    <3> DEFINE b == buffersToWrite[k]
    <3> HIDE DEF b, n
    <3>3. \A j \in DOMAIN b : b[j] \in Nat
      BY <3>2 DEF b
    <3> QED BY <3>3 DEF Messages, b
  <2>2. discarded \in SUBSET Nat
    BY DEF TypeOK
  <2> QED BY <1>4, <2>1, <2>2
<1>7. TypeOK'
  BY <1>1, <1>4, <1>5, <1>6 DEF TypeOK, Backlog, callerVars, shared, spares
<1>8. PtrInv'
  <2>1. newBuffer1 = Null /\ n >= 1 /\ (newBuffer2 = Null => n >= 2)
    BY <1>4 DEF PtrInv
  <2>2. UNCHANGED <<newBuffer1, newBuffer2, nextBuffer, fullBuffers>>
    BY DEF Backlog, shared, spares
  <2> QED BY <1>2, <1>4, <1>5, <2>1, <2>2, KeptEnough DEF PtrInv
<1> QED BY <1>1, <1>7, <1>8

LEMMA WriteKeeps == IInv /\ Write => IInv'
<1> SUFFICES ASSUME IInv, Write PROVE IInv'
  OBVIOUS
<1> USE DEF IInv
<1>1. /\ buffersToWrite \in Seq(Buffers) /\ Len(buffersToWrite) \in Nat
      /\ written \in Nat /\ written < Len(buffersToWrite)
  BY Elements DEF TypeOK, Write
<1>2. written + 1 \in 1 .. Len(buffersToWrite)
  BY <1>1
<1>3. buffersToWrite[written + 1] \in Seq(Nat)
  BY <1>1, <1>2, Elements DEF Buffers
<1>4. Log(buffersToWrite[written + 1])
  BY DEF Write
<1>5. logfile' \in LogFiles /\ now' \in Nat /\ late' \in Nat /\ LateInv'
  BY <1>3, <1>4, LogKeeps
<1>6. TypeOK'
  BY <1>1, <1>5 DEF TypeOK, Write, callerVars, shared, spares
<1>7. PtrInv'
  BY DEF PtrInv, Write, shared, spares
<1> QED BY <1>5, <1>6, <1>7

LEMMA RecycleKeeps == IInv /\ Recycle => IInv'
<1> SUFFICES ASSUME IInv, Recycle PROVE IInv'
  OBVIOUS
<1> USE DEF IInv
<1>1. logfile' \in LogFiles /\ now' \in Nat /\ late' \in Nat /\ LateInv'
  BY FlushKeeps DEF Recycle
<1>2. newBuffer1' = Fresh
  BY DEF Recycle, Emptied, Fresh
<1>3. newBuffer2' = Fresh
  <2>1. CASE newBuffer2 = Null
    BY <2>1 DEF Recycle, Emptied, Fresh
  <2>2. CASE newBuffer2 # Null
    <3>1. newBuffer2' = newBuffer2
      BY <2>2 DEF Recycle
    <3> QED BY <2>2, <3>1 DEF PtrInv
  <2> QED BY <2>1, <2>2
<1>4. buffersToWrite' = <<>> /\ <<>> \in Seq(Buffers) /\ written' = 0 /\ pc' = "test"
  BY Pointers DEF Recycle, Null
<1>5. TypeOK'
  <2>1. UNCHANGED <<callerVars, shared, discarded>>
    BY DEF Recycle
  <2> QED BY <1>1, <1>2, <1>3, <1>4, <2>1, Pointers DEF TypeOK, callerVars, shared
<1>6. PtrInv'
  <2>1. UNCHANGED shared
    BY DEF Recycle
  <2> QED BY <1>2, <1>3, <1>4, <2>1 DEF PtrInv, shared
<1> QED BY <1>1, <1>5, <1>6

LEMMA NextIInv == IInv /\ [Next]_vars => IInv'
<1> SUFFICES ASSUME IInv, [Next]_vars PROVE IInv'
  OBVIOUS
<1>1. CASE AppendMessage
  BY <1>1, AppendKeeps
<1>2. CASE Stop
  BY <1>2 DEF Stop, IInv, TypeOK, PtrInv, LateInv, shared, spares, fileVars
<1>3. CASE Test
  <2>1. CASE running
    BY <1>3, <2>1 DEF Test, IInv, TypeOK, PtrInv, LateInv, callerVars, shared, spares, fileVars
  <2>2. CASE ~running
    <3>1. logfile' \in LogFiles /\ now' \in Nat /\ late' \in Nat /\ LateInv'
      BY <1>3, <2>2, FlushKeeps DEF Test, IInv
    <3> QED BY <1>3, <2>2, <3>1 DEF Test, IInv, TypeOK, PtrInv, callerVars, shared, spares
  <2> QED BY <2>1, <2>2
<1>4. CASE Enter
  BY <1>4, TakeKeeps DEF Enter
<1>5. CASE StartWait
  BY <1>5 DEF StartWait, IInv, TypeOK, PtrInv, LateInv, callerVars, shared, spares, fileVars
<1>6. CASE WakeUp
  BY <1>6, TakeKeeps DEF WakeUp
<1>7. CASE Backlog
  BY <1>7, BacklogKeeps
<1>8. CASE Write
  BY <1>8, WriteKeeps
<1>9. CASE WriteDone
  BY <1>9 DEF WriteDone, IInv, TypeOK, PtrInv, LateInv, callerVars, shared, spares, fileVars
<1>10. CASE Recycle
  BY <1>10, RecycleKeeps
<1>11. CASE Tick
  BY <1>11, BoundAssumption
     DEF Tick, IInv, TypeOK, PtrInv, LateInv, callerVars, shared, spares
<1>12. CASE UNCHANGED vars
  BY <1>12 DEF vars, IInv, TypeOK, PtrInv, LateInv
<1> QED BY <1>1, <1>2, <1>3, <1>4, <1>5, <1>6, <1>7, <1>8, <1>9, <1>10, <1>11, <1>12
        DEF Next, Consumer

\* The variables of the logger and of its log file keep their types, and the
\* consumer its two spare buffers.
THEOREM Invariant == Spec => []IInv
BY InitIInv, NextIInv, PTL DEF Spec

-----------------------------------------------------------------------------
(* The properties.                                                         *)

\* The asserts of threadFunc hold and it never pops from an empty vector, for any
\* size of the buffers and any backlog above one.
THEOREM BuffersAreReady == Spec => []BuffersReady
<1>1. IInv => BuffersReady
  <2> SUFFICES ASSUME IInv PROVE BuffersReady
    OBVIOUS
  <2>1. CASE pc = "recycle"
    <3>1. Len(buffersToWrite) \in Nat
      BY Elements DEF IInv, TypeOK
    <3>2. newBuffer1 = Null /\ Len(buffersToWrite) >= 1
          /\ (newBuffer2 = Null => Len(buffersToWrite) >= 2)
      BY <2>1 DEF IInv, PtrInv
    <3> QED BY <2>1, <3>1, <3>2 DEF BuffersReady, Needed, Reusable
  <2>2. CASE pc # "recycle"
    BY <2>2 DEF IInv, PtrInv, BuffersReady
  <2> QED BY <2>1, <2>2
<1> QED BY <1>1, Invariant, PTL

\* The file of a day that is over is given less than checkEveryN_ appends, for any
\* length of the day, of the flush interval and of the files.
THEOREM DayIsRolled == Spec => []RolledAtMidnight
<1>1. IInv => RolledAtMidnight
  <2> SUFFICES ASSUME IInv PROVE RolledAtMidnight
    OBVIOUS
  <2>1. late \in Nat /\ logfile.count \in Nat /\ CheckEvery \in Nat
    BY CheckAssumption DEF IInv, TypeOK, LogFiles
  <2> QED BY <2>1 DEF IInv, LateInv, RolledAtMidnight
<1> QED BY <1>1, Invariant, PTL

-----------------------------------------------------------------------------
(* What is thrown away.                                                    *)

\* A buffer that waits behind the current one has no room left.
FullInv ==
  /\ nextBuffer \in {Null, Fresh}
  /\ Len(currentBuffer[1]) \in 0 .. Capacity - 1
  /\ \A k \in 1 .. Len(fullBuffers) : Len(fullBuffers[k]) = Capacity - 1
  /\ pc = "backlog" =>
       \A k \in 1 .. Len(buffersToWrite) - 1 : Len(buffersToWrite[k]) = Capacity - 1

\* The elements of two sequences joined.
LEMMA JoinElements ==
  ASSUME NEW S, NEW s \in Seq(S), NEW t \in Seq(S)
  PROVE  /\ s \o t \in Seq(S) /\ Len(s) \in Nat /\ Len(t) \in Nat
         /\ DOMAIN s = 1 .. Len(s) /\ DOMAIN t = 1 .. Len(t)
         /\ DOMAIN (s \o t) = 1 .. Len(s) + Len(t)
         /\ \A q \in 1 .. Len(s) : (s \o t)[q] = s[q] /\ q \in DOMAIN (s \o t)
         /\ \A q \in 1 .. Len(t) : (s \o t)[Len(s) + q] = t[q] /\ Len(s) + q \in DOMAIN (s \o t)
         /\ \A q \in DOMAIN (s \o t) :
              q \in 1 .. Len(s) \/ (q - Len(s) \in 1 .. Len(t) /\ (s \o t)[q] = t[q - Len(s)])
  OBVIOUS

LEMMA SecondElements ==
  ASSUME NEW S, NEW s \in Seq(S), NEW t \in Seq(S)
  PROVE  \A q \in 1 .. Len(t) : (s \o t)[Len(s) + q] = t[q]
  BY JoinElements

LEMMA FirstOfSecond ==
  ASSUME NEW S, NEW s \in Seq(S), NEW t \in Seq(S)
  PROVE  1 \in 1 .. Len(t) => (s \o t)[Len(s) + 1] = t[1]
  BY SecondElements

LEMMA OneMore ==
  ASSUME NEW S, NEW s \in Seq(S), NEW t \in Seq(S), Len(t) = 1
  PROVE  /\ Len(s \o t) = Len(s) + 1
         /\ \A q \in 1 .. Len(s) : (s \o t)[q] = s[q]
         /\ (s \o t)[Len(s) + 1] = t[1]
<1>1. Len(s) \in Nat /\ Len(s \o t) = Len(s) + 1
  BY Joined, Elements
<1>2. \A q \in 1 .. Len(s) : (s \o t)[q] = s[q]
  BY JoinElements
<1>3. (s \o t)[Len(s) + 1] = t[1]
  <2>1. 1 \in 1 .. Len(t)
    OBVIOUS
  <2> QED BY <2>1, FirstOfSecond
<1> QED BY <1>1, <1>2, <1>3

\* A message makes its buffer longer by one.
LEMMA WithMessageLength ==
  ASSUME NEW p \in Seq(Buffers), Len(p) = 1, NEW m \in Nat
  PROVE  /\ Len(p[1]) \in Nat
         /\ Len(WithMessage(p, m)[1]) = Len(p[1]) + 1
<1>1. DOMAIN p = 1 .. 1 /\ p[1] \in Buffers
  <2>1. p \in [1 .. 1 -> Buffers]
    BY Elements
  <2> QED BY <2>1
<1>2. ASSUME NEW b \in Buffers PROVE Len(b) \in Nat /\ Len(Append(b, m)) = Len(b) + 1
  BY DEF Buffers
<1>3. WithMessage(p, m)[1] = Append(p[1], m)
  BY <1>1 DEF WithMessage
<1> QED BY <1>1, <1>2, <1>3

LEMMA FreshLength ==
  /\ Fresh \in Seq(Buffers) /\ Len(Fresh) = 1
  /\ Len(Fresh[1]) = 0
<1>1. Fresh[1] = <<>>
  BY DEF Fresh, Ptr
<1> QED BY <1>1, Pointers

LEMMA AppendFull == IInv /\ FullInv /\ AppendMessage => FullInv'
<1> SUFFICES ASSUME IInv, FullInv, AppendMessage PROVE FullInv'
  OBVIOUS
<1> DEFINE c == Len(currentBuffer[1])
<1>1. /\ currentBuffer \in Seq(Buffers) /\ Len(currentBuffer) = 1
      /\ fullBuffers \in Seq(Buffers) /\ appended + 1 \in Nat
  BY DEF IInv, TypeOK
<1>2. c \in 0 .. Capacity - 1 /\ Capacity \in Nat /\ Capacity > 1
  BY CapacityAssumption DEF FullInv
<1>3. UNCHANGED <<pc, buffersToWrite>>
  BY DEF AppendMessage
<1>4. CASE HasRoom(currentBuffer[1])
  <2>1. /\ currentBuffer' = WithMessage(currentBuffer, appended + 1)
        /\ UNCHANGED <<nextBuffer, fullBuffers>>
    BY <1>4 DEF AppendMessage
  <2>2. Len(currentBuffer'[1]) = c + 1
    BY <1>1, <2>1, WithMessageLength
  <2>3. Capacity - c > 1
    BY <1>4 DEF HasRoom
  <2> HIDE DEF c
  <2>4. Len(currentBuffer'[1]) \in 0 .. Capacity - 1
    BY <1>2, <2>2, <2>3
  <2> QED BY <1>3, <2>1, <2>4 DEF FullInv
<1>5. CASE ~HasRoom(currentBuffer[1])
  <2>1. /\ fullBuffers' = fullBuffers \o currentBuffer
        /\ currentBuffer' = WithMessage(Replacement, appended + 1)
        /\ nextBuffer' = Null
    BY <1>5 DEF AppendMessage
  <2>2. Replacement = Fresh
    BY DEF FullInv, Replacement
  <2>3. Len(currentBuffer'[1]) = 1
    <3>1. Len(WithMessage(Fresh, appended + 1)[1]) = Len(Fresh[1]) + 1
      BY <1>1, FreshLength, WithMessageLength
    <3> QED BY <2>1, <2>2, <3>1, FreshLength
  <2>4. ~(Capacity - c > 1)
    BY <1>5 DEF HasRoom
  <2>5. c = Capacity - 1
    <3> HIDE DEF c
    <3> QED BY <1>2, <2>4
  <2>6. /\ Len(fullBuffers) \in Nat
        /\ Len(fullBuffers') = Len(fullBuffers) + 1
        /\ \A q \in 1 .. Len(fullBuffers) : fullBuffers'[q] = fullBuffers[q]
        /\ fullBuffers'[Len(fullBuffers) + 1] = currentBuffer[1]
    BY <1>1, <2>1, OneMore, Elements
  <2>7. ASSUME NEW k \in 1 .. Len(fullBuffers') PROVE Len(fullBuffers'[k]) = Capacity - 1
    <3>1. CASE k \in 1 .. Len(fullBuffers)
      BY <2>6, <3>1 DEF FullInv
    <3>2. CASE k \notin 1 .. Len(fullBuffers)
      <4>1. k = Len(fullBuffers) + 1
        BY <2>6, <3>2
      <4> QED BY <2>5, <2>6, <4>1
    <3> QED BY <3>1, <3>2
  <2>8. Len(currentBuffer'[1]) \in 0 .. Capacity - 1
    BY <1>2, <2>3
  <2> QED BY <1>3, <2>1, <2>7, <2>8 DEF FullInv
<1> QED BY <1>4, <1>5

LEMMA TakeFull == IInv /\ FullInv /\ pc \in {"enter", "wait"} /\ TakeBuffers => FullInv'
<1> SUFFICES ASSUME IInv, FullInv, pc \in {"enter", "wait"}, TakeBuffers PROVE FullInv'
  OBVIOUS
<1>1. newBuffer1 = Fresh /\ newBuffer2 = Fresh
  BY DEF IInv, PtrInv
<1>2. /\ currentBuffer' = Fresh /\ nextBuffer' \in {Null, Fresh}
      /\ fullBuffers' = <<>> /\ buffersToWrite' = fullBuffers \o currentBuffer
  BY <1>1 DEF TakeBuffers, FullInv
<1>3. /\ Len(fullBuffers) \in Nat
      /\ Len(buffersToWrite') = Len(fullBuffers) + 1
      /\ \A q \in 1 .. Len(fullBuffers) : buffersToWrite'[q] = fullBuffers[q]
  <2>1. /\ fullBuffers \in Seq(Buffers)
        /\ currentBuffer \in Seq(Buffers) /\ Len(currentBuffer) = 1
    BY DEF IInv, TypeOK
  <2> QED BY <1>2, <2>1, OneMore, Elements
<1>4. ASSUME NEW k \in 1 .. Len(buffersToWrite') - 1
      PROVE  Len(buffersToWrite'[k]) = Capacity - 1
  <2>1. k \in 1 .. Len(fullBuffers)
    BY <1>3
  <2> QED BY <1>3, <2>1 DEF FullInv
<1>5. Len(currentBuffer'[1]) \in 0 .. Capacity - 1
  BY <1>2, FreshLength, CapacityAssumption
<1>6. 1 .. Len(fullBuffers') = {}
  BY <1>2
<1> QED BY <1>2, <1>4, <1>5, <1>6 DEF FullInv

\* No buffer with room in it ever waits.
THEOREM BuffersFilled == Spec => []FullInv
<1>1. Init => FullInv
  <2> SUFFICES ASSUME Init PROVE FullInv
    OBVIOUS
  <2>1. Len(currentBuffer[1]) \in 0 .. Capacity - 1
    BY FreshLength, CapacityAssumption DEF Init
  <2>2. 1 .. Len(fullBuffers) = {}
    BY DEF Init
  <2> QED BY <2>1, <2>2 DEF Init, FullInv
<1>2. IInv /\ FullInv /\ [Next]_vars => FullInv'
  <2> SUFFICES ASSUME IInv, FullInv, [Next]_vars PROVE FullInv'
    OBVIOUS
  <2>1. CASE AppendMessage
    BY <2>1, AppendFull
  <2>2. CASE Enter \/ WakeUp
    BY <2>2, TakeFull DEF Enter, WakeUp
  <2>3. CASE \/ Stop \/ Test \/ StartWait \/ Backlog \/ Write \/ WriteDone \/ Recycle
             \/ Tick \/ UNCHANGED vars
    <3>1. UNCHANGED shared
      BY <2>3 DEF Stop, Test, StartWait, Backlog, Write, WriteDone, Recycle, Tick, vars, shared
    <3>2. pc' = "backlog" => UNCHANGED <<pc, buffersToWrite>>
      BY <2>3 DEF Stop, Test, StartWait, Backlog, Write, WriteDone, Recycle, Tick, vars
    <3> QED BY <3>1, <3>2 DEF FullInv, shared
  <2> QED BY <2>1, <2>2, <2>3 DEF Next, Consumer
<1> QED BY <1>1, <1>2, Invariant, PTL DEF Spec

\* A message is thrown away only when producers filled more buffers than threadFunc
\* writes, for any size of the buffers and any backlog above one.
THEOREM LostInBurst == Spec => LossOnlyInBurst
<1> DEFINE Burst ==
      /\ Len(buffersToWrite) > MaxBacklog
      /\ \A k \in 1 .. Len(buffersToWrite) - 1 : Len(buffersToWrite[k]) = Capacity - 1
<1>1. IInv /\ FullInv /\ [Next]_vars => [discarded' # discarded => Burst]_vars
  <2> SUFFICES ASSUME IInv, FullInv, Next, discarded' # discarded PROVE Burst
    BY DEF vars
  <2>1. Backlog
    BY DEF Next, AppendMessage, Stop, Consumer, Test, Enter, StartWait, WakeUp, TakeBuffers,
           Write, WriteDone, Recycle, Tick
  <2> DEFINE n == Len(buffersToWrite)
  <2>2. n \in Nat /\ MaxBacklog \in Nat
    BY Elements, BacklogAssumption DEF IInv, TypeOK
  <2>3. pc = "backlog" /\ discarded' = discarded \cup
              UNION {Messages(buffersToWrite[j]) : j \in Kept(n) + 1 .. n}
    BY <2>1 DEF Backlog
  <2>4. n > MaxBacklog
    <3>1. SUFFICES ASSUME n <= MaxBacklog PROVE FALSE
      BY <2>2
    <3>2. Kept(n) = n
      BY <2>2, <3>1, KeptEnough
    <3>3. n + 1 .. n = {}
      BY <2>2
    <3> HIDE DEF n
    <3>4. discarded' = discarded
      BY <2>3, <3>2, <3>3
    <3> QED BY <3>4
  <2> QED BY <2>3, <2>4 DEF FullInv
<1> QED BY <1>1, Invariant, BuffersFilled, PTL DEF Spec, LossOnlyInBurst

-----------------------------------------------------------------------------
(* What the files and the buffers hold.                                    *)

\* A sequence cut in two.
LEMMA CutInTwo ==
  ASSUME NEW S, NEW s \in Seq(S), NEW n \in 0 .. Len(s)
  PROVE  s = SubSeq(s, 1, n) \o SubSeq(s, n + 1, Len(s))
<1> DEFINE l == Len(s)
           a == SubSeq(s, 1, n)
           b == SubSeq(s, n + 1, Len(s))
           t == a \o b
<1>1. l \in Nat /\ n \in Nat /\ n <= l
  BY Elements
<1>2. a \in Seq(S) /\ Len(a) = n /\ \A q \in 1 .. n : a[q] = s[q]
  OBVIOUS
<1>3. b \in Seq(S) /\ Len(b) = l - n /\ \A q \in 1 .. l - n : b[q] = s[n + q]
  OBVIOUS
<1> HIDE DEF a, b, l
<1>4. t \in Seq(S) /\ Len(t) = l
  <2>1. t \in Seq(S) /\ Len(t) = Len(a) + Len(b)
    BY <1>2, <1>3, Joined
  <2> QED BY <1>1, <1>2, <1>3, <2>1
<1>5. ASSUME NEW q \in 1 .. l PROVE t[q] = s[q]
  <2>1. CASE q \in 1 .. n
    BY <1>2, <1>3, <2>1, JoinElements
  <2>2. CASE q \notin 1 .. n
    <3>1. q - n \in 1 .. l - n /\ n + (q - n) = q
      BY <1>1, <2>2
    <3>2. t[n + (q - n)] = b[q - n]
      <4>1. a \in Seq(S) /\ b \in Seq(S) /\ Len(a) = n /\ q - n \in 1 .. Len(b)
        BY <1>2, <1>3, <3>1
      <4> HIDE DEF t
      <4>2. \A p \in 1 .. Len(b) : t[Len(a) + p] = b[p]
        BY <4>1, SecondElements DEF t
      <4> QED BY <4>1, <4>2
    <3> QED BY <1>3, <3>1, <3>2
  <2> QED BY <2>1, <2>2
<1> HIDE DEF t
<1>6. s = t
  BY <1>4, <1>5 DEF l
<1> QED BY <1>6 DEF t, a, b

\* The last element alone.
LEMMA LastOne ==
  ASSUME NEW S, NEW s \in Seq(S), Len(s) >= 1
  PROVE  SubSeq(s, Len(s) - 1 + 1, Len(s)) = <<s[Len(s)]>>
<1> DEFINE n == Len(s)
<1>1. n \in Nat /\ n - 1 + 1 = n /\ n \in 1 .. n
  BY Elements
<1>2. SubSeq(s, n, n) = <<s[n]>>
  <2> DEFINE t == SubSeq(s, n, n)
             u == <<s[n]>>
  <2>1. t \in Seq(S) /\ Len(t) = 1 /\ t[1] = s[n]
    BY <1>1
  <2>2. u \in Seq(S) /\ Len(u) = 1 /\ u[1] = s[n]
    BY <1>1
  <2> HIDE DEF t, u
  <2>3. t = u
    BY <2>1, <2>2
  <2> QED BY <2>3 DEF t, u
<1> QED BY <1>1, <1>2

\* All of a sequence, and what is behind it.
LEMMA WholeOrNothing ==
  ASSUME NEW S, NEW s \in Seq(S)
  PROVE  /\ SubSeq(s, 1, Len(s)) = s
         /\ SubSeq(s, Len(s) + 1, Len(s)) = <<>>
  OBVIOUS

\* Two pieces of data joined: their messages, and when these are in order.
LEMMA MessagesJoined ==
  ASSUME NEW a \in Seq(Nat), NEW b \in Seq(Nat)
  PROVE  Messages(a \o b) = Messages(a) \cup Messages(b)
<1>1. ASSUME NEW m \in Messages(a \o b) PROVE m \in Messages(a) \cup Messages(b)
  <2>1. PICK q \in DOMAIN (a \o b) : (a \o b)[q] = m /\ m # Flag
    BY <1>1 DEF Messages
  <2>2. CASE q \in 1 .. Len(a)
    <3>1. q \in DOMAIN a /\ a[q] = m
      BY <2>1, <2>2, JoinElements
    <3> QED BY <2>1, <3>1 DEF Messages
  <2>3. CASE q \notin 1 .. Len(a)
    <3>1. q - Len(a) \in DOMAIN b /\ b[q - Len(a)] = m
      BY <2>1, <2>3, JoinElements
    <3> QED BY <2>1, <3>1 DEF Messages
  <2> QED BY <2>2, <2>3
<1>2. ASSUME NEW m \in Messages(a) PROVE m \in Messages(a \o b)
  <2>1. PICK q \in DOMAIN a : a[q] = m /\ m # Flag
    BY <1>2 DEF Messages
  <2>2. (a \o b)[q] = m /\ q \in DOMAIN (a \o b)
    BY <2>1, JoinElements
  <2> QED BY <2>1, <2>2 DEF Messages
<1>3. ASSUME NEW m \in Messages(b) PROVE m \in Messages(a \o b)
  <2>1. PICK q \in DOMAIN b : b[q] = m /\ m # Flag
    BY <1>3 DEF Messages
  <2>2. (a \o b)[Len(a) + q] = m /\ Len(a) + q \in DOMAIN (a \o b)
    BY <2>1, JoinElements
  <2> QED BY <2>1, <2>2 DEF Messages
<1> QED BY <1>1, <1>2, <1>3

LEMMA OrderJoined ==
  ASSUME NEW a \in Seq(Nat), NEW b \in Seq(Nat)
  PROVE  InOrder(a \o b) <=> InOrder(a) /\ InOrder(b) /\ Before(Messages(a), Messages(b))
<1> DEFINE c == a \o b
           n == Len(a)
<1>1. /\ n \in Nat /\ DOMAIN a = 1 .. n /\ DOMAIN b \subseteq Nat
      /\ \A q \in DOMAIN a : c[q] = a[q] /\ q \in DOMAIN c
      /\ \A q \in DOMAIN b : c[n + q] = b[q] /\ n + q \in DOMAIN c /\ q > 0
      /\ \A q \in DOMAIN c :
           q \in Nat /\ (q \in DOMAIN a \/ (q > n /\ q - n \in DOMAIN b /\ c[q] = b[q - n]))
  <2>1. Len(b) \in Nat /\ DOMAIN b = 1 .. Len(b) /\ DOMAIN c = 1 .. n + Len(b) /\ n \in Nat
    BY JoinElements
  <2> QED BY <2>1, JoinElements
<1> HIDE DEF c, n
<1>2. ASSUME InOrder(c) PROVE InOrder(a) /\ InOrder(b) /\ Before(Messages(a), Messages(b))
  <2>1. InOrder(a)
    BY <1>1, <1>2 DEF InOrder
  <2>2. InOrder(b)
    <3>1. SUFFICES ASSUME NEW q \in DOMAIN b, NEW j \in DOMAIN b, q < j, b[q] # Flag, b[j] # Flag
                   PROVE  b[q] < b[j]
      BY DEF InOrder
    <3>2. n + q < n + j
      BY <1>1, <3>1
    <3> QED BY <1>1, <1>2, <3>1, <3>2 DEF InOrder
  <2>3. ASSUME NEW m \in Messages(a), NEW k \in Messages(b) PROVE m < k
    <3>1. PICK q \in DOMAIN a : a[q] = m /\ m # Flag
      BY <2>3 DEF Messages
    <3>2. PICK j \in DOMAIN b : b[j] = k /\ k # Flag
      BY <2>3 DEF Messages
    <3>3. q < n + j
      BY <1>1, <3>1, <3>2
    <3> QED BY <1>1, <1>2, <3>1, <3>2, <3>3 DEF InOrder
  <2> QED BY <2>1, <2>2, <2>3 DEF Before
<1>3. ASSUME InOrder(a), InOrder(b), Before(Messages(a), Messages(b)) PROVE InOrder(c)
  <2>1. SUFFICES ASSUME NEW q \in DOMAIN c, NEW j \in DOMAIN c, q < j, c[q] # Flag, c[j] # Flag
                 PROVE  c[q] < c[j]
    BY DEF InOrder
  <2>2. CASE q \in DOMAIN a /\ j \in DOMAIN a
    BY <1>1, <1>3, <2>1, <2>2 DEF InOrder
  <2>3. CASE q \in DOMAIN a /\ j \notin DOMAIN a
    <3>1. c[q] \in Messages(a) /\ c[j] \in Messages(b)
      BY <1>1, <2>1, <2>3 DEF Messages
    <3> QED BY <1>3, <3>1 DEF Before
  <2>4. CASE q \notin DOMAIN a
    <3>1. j \notin DOMAIN a /\ q > n /\ j > n
      BY <1>1, <2>1, <2>4
    <3>2. /\ q - n \in DOMAIN b /\ j - n \in DOMAIN b /\ q - n < j - n
          /\ c[q] = b[q - n] /\ c[j] = b[j - n]
      BY <1>1, <2>1, <2>4, <3>1
    <3> QED BY <1>3, <2>1, <3>2 DEF InOrder
  <2> QED BY <2>2, <2>3, <2>4
<1> QED BY <1>2, <1>3 DEF c

\* One part: what a buffer or a file holds.
Data == Seq(Nat)

\* The same of parts.
LEMMA HeldJoined ==
  ASSUME NEW P \in Seq(Data), NEW Q \in Seq(Data)
  PROVE  Held(P \o Q) = Held(P) \cup Held(Q)
<1>1. ASSUME NEW m \in Held(P \o Q) PROVE m \in Held(P) \cup Held(Q)
  <2>1. PICK k \in DOMAIN (P \o Q) : m \in Messages((P \o Q)[k])
    BY <1>1 DEF Held
  <2> HIDE DEF Data, Messages
  <2>2. CASE k \in 1 .. Len(P)
    <3>1. k \in DOMAIN P /\ (P \o Q)[k] = P[k]
      BY <2>2, JoinElements
    <3> QED BY <2>1, <3>1 DEF Held
  <2>3. CASE k \notin 1 .. Len(P)
    <3>1. k - Len(P) \in DOMAIN Q /\ (P \o Q)[k] = Q[k - Len(P)]
      BY <2>1, <2>3, JoinElements
    <3> QED BY <2>1, <3>1 DEF Held
  <2> QED BY <2>2, <2>3
<1>2. ASSUME NEW m \in Held(P) PROVE m \in Held(P \o Q)
  <2>1. PICK k \in DOMAIN P : m \in Messages(P[k])
    BY <1>2 DEF Held
  <2>2. (P \o Q)[k] = P[k] /\ k \in DOMAIN (P \o Q)
    BY <2>1, JoinElements
  <2> QED BY <2>1, <2>2 DEF Held
<1>3. ASSUME NEW m \in Held(Q) PROVE m \in Held(P \o Q)
  <2>1. PICK k \in DOMAIN Q : m \in Messages(Q[k])
    BY <1>3 DEF Held
  <2>2. (P \o Q)[Len(P) + k] = Q[k] /\ Len(P) + k \in DOMAIN (P \o Q)
    BY <2>1, JoinElements
  <2> QED BY <2>1, <2>2 DEF Held
<1> QED BY <1>1, <1>2, <1>3

LEMMA PartsJoined ==
  ASSUME NEW P \in Seq(Data), NEW Q \in Seq(Data)
  PROVE  Ordered(P \o Q) <=> Ordered(P) /\ Ordered(Q) /\ Before(Held(P), Held(Q))
<1> DEFINE R == P \o Q
           n == Len(P)
<1>1. /\ n \in Nat /\ DOMAIN P = 1 .. n /\ DOMAIN Q \subseteq Nat
      /\ \A q \in DOMAIN P : R[q] = P[q] /\ q \in DOMAIN R
      /\ \A q \in DOMAIN Q : R[n + q] = Q[q] /\ n + q \in DOMAIN R /\ q > 0
      /\ \A q \in DOMAIN R :
           q \in Nat /\ (q \in DOMAIN P \/ (q > n /\ q - n \in DOMAIN Q /\ R[q] = Q[q - n]))
  <2>1. Len(Q) \in Nat /\ DOMAIN Q = 1 .. Len(Q) /\ DOMAIN R = 1 .. n + Len(Q) /\ n \in Nat
    BY JoinElements
  <2> QED BY <2>1, JoinElements
<1> HIDE DEF R, n
<1>2. ASSUME Ordered(R) PROVE Ordered(P) /\ Ordered(Q) /\ Before(Held(P), Held(Q))
  <2>1. Ordered(P)
    BY <1>1, <1>2 DEF Ordered
  <2>2. Ordered(Q)
    <3>1. \A k \in DOMAIN Q : InOrder(Q[k])
      BY <1>1, <1>2 DEF Ordered
    <3>2. ASSUME NEW k \in DOMAIN Q, NEW l \in DOMAIN Q, k < l
          PROVE  Before(Messages(Q[k]), Messages(Q[l]))
      <4>1. n + k < n + l
        BY <1>1, <3>2
      <4> QED BY <1>1, <1>2, <4>1 DEF Ordered
    <3> QED BY <3>1, <3>2 DEF Ordered
  <2>3. ASSUME NEW m \in Held(P), NEW j \in Held(Q) PROVE m < j
    <3>1. PICK k \in DOMAIN P : m \in Messages(P[k])
      BY <2>3 DEF Held
    <3>2. PICK l \in DOMAIN Q : j \in Messages(Q[l])
      BY <2>3 DEF Held
    <3>3. k < n + l
      BY <1>1, <3>1, <3>2
    <3>4. Before(Messages(P[k]), Messages(Q[l]))
      BY <1>1, <1>2, <3>1, <3>2, <3>3 DEF Ordered
    <3> QED BY <3>1, <3>2, <3>4 DEF Before
  <2> QED BY <2>1, <2>2, <2>3 DEF Before
<1>3. ASSUME Ordered(P), Ordered(Q), Before(Held(P), Held(Q)) PROVE Ordered(R)
  <2>1. \A k \in DOMAIN R : InOrder(R[k])
    BY <1>1, <1>3 DEF Ordered
  <2>2. ASSUME NEW q \in DOMAIN R, NEW j \in DOMAIN R, q < j
        PROVE  Before(Messages(R[q]), Messages(R[j]))
    <3>2. CASE q \in DOMAIN P /\ j \in DOMAIN P
      BY <1>1, <1>3, <2>2, <3>2 DEF Ordered
    <3>3. CASE q \in DOMAIN P /\ j \notin DOMAIN P
      <4>1. Messages(R[q]) \subseteq Held(P) /\ Messages(R[j]) \subseteq Held(Q)
        BY <1>1, <2>2, <3>3 DEF Held
      <4> QED BY <1>3, <4>1 DEF Before
    <3>4. CASE q \notin DOMAIN P
      <4>1. j \notin DOMAIN P /\ q > n /\ j > n
        BY <1>1, <2>2, <3>4
      <4>2. /\ q - n \in DOMAIN Q /\ j - n \in DOMAIN Q /\ q - n < j - n
            /\ R[q] = Q[q - n] /\ R[j] = Q[j - n]
        BY <1>1, <2>2, <3>4, <4>1
      <4> QED BY <1>3, <4>2 DEF Ordered
    <3> QED BY <3>2, <3>3, <3>4
  <2> QED BY <2>1, <2>2 DEF Ordered
<1> QED BY <1>2, <1>3 DEF R

\* One part, and none.
LEMMA OnePart ==
  ASSUME NEW d \in Data
  PROVE  /\ <<d>> \in Seq(Data)
         /\ Held(<<d>>) = Messages(d)
         /\ Ordered(<<d>>) <=> InOrder(d)
<1> DEFINE P == <<d>>
<1>1. P \in Seq(Data) /\ DOMAIN P = {1} /\ P[1] = d
  <2> HIDE DEF Data
  <2>1. P \in Seq(Data) /\ P[1] = d /\ Len(P) = 1
    OBVIOUS
  <2>2. DOMAIN P = 1 .. 1
    BY <2>1
  <2> QED BY <2>1, <2>2
<1> HIDE DEF P
<1>2. Held(P) = Messages(d)
  BY <1>1 DEF Held
<1>3. Ordered(P) <=> InOrder(d)
  BY <1>1 DEF Ordered
<1> QED BY <1>1, <1>2, <1>3 DEF P

LEMMA NoPart ==
  /\ <<>> \in Seq(Data) /\ Held(<<>>) = {} /\ Ordered(<<>>)
  /\ Messages(<<>>) = {} /\ InOrder(<<>>) /\ <<>> \in Data
<1>1. DOMAIN <<>> = {}
  OBVIOUS
<1> QED BY <1>1 DEF Held, Ordered, Messages, InOrder, Data

\* One more part at the end.
LEMMA LastPart ==
  ASSUME NEW P \in Seq(Data), NEW d \in Data
  PROVE  /\ P \o <<d>> \in Seq(Data)
         /\ Held(P \o <<d>>) = Held(P) \cup Messages(d)
         /\ Ordered(P \o <<d>>) <=> Ordered(P) /\ InOrder(d) /\ Before(Held(P), Messages(d))
<1> DEFINE Q == <<d>>
<1>1. Q \in Seq(Data) /\ Held(Q) = Messages(d) /\ (Ordered(Q) <=> InOrder(d))
  BY OnePart
<1> HIDE DEF Q, Data
<1>2. P \o Q \in Seq(Data)
  BY <1>1, Joined
<1>3. Held(P \o Q) = Held(P) \cup Messages(d)
  BY <1>1, HeldJoined
<1>4. Ordered(P \o Q) <=> Ordered(P) /\ InOrder(d) /\ Before(Held(P), Messages(d))
  BY <1>1, PartsJoined
<1> QED BY <1>2, <1>3, <1>4 DEF Q

LEMMA LastTwoParts ==
  ASSUME NEW P \in Seq(Data), NEW d \in Data, NEW e \in Data
  PROVE  /\ (P \o <<d>>) \o <<e>> \in Seq(Data)
         /\ Held((P \o <<d>>) \o <<e>>) = Held(P) \cup Messages(d) \cup Messages(e)
         /\ Ordered((P \o <<d>>) \o <<e>>) <=>
              /\ Ordered(P) /\ InOrder(d) /\ InOrder(e)
              /\ Before(Held(P), Messages(d))
              /\ Before(Held(P), Messages(e))
              /\ Before(Messages(d), Messages(e))
<1> DEFINE Q == P \o <<d>>
<1>1. /\ Q \in Seq(Data) /\ Held(Q) = Held(P) \cup Messages(d)
      /\ Ordered(Q) <=> Ordered(P) /\ InOrder(d) /\ Before(Held(P), Messages(d))
  BY LastPart
<1> HIDE DEF Q, Data
<1>2. /\ Q \o <<e>> \in Seq(Data)
      /\ Held(Q \o <<e>>) = Held(Q) \cup Messages(e)
      /\ Ordered(Q \o <<e>>) <=> Ordered(Q) /\ InOrder(e) /\ Before(Held(Q), Messages(e))
  BY <1>1, LastPart
<1> HIDE DEF Ordered, Held, Messages, InOrder
<1>3. Before(Held(Q), Messages(e)) <=>
        Before(Held(P), Messages(e)) /\ Before(Messages(d), Messages(e))
  BY <1>1 DEF Before
<1> QED BY <1>1, <1>2, <1>3 DEF Q

-----------------------------------------------------------------------------
(* What the functions of LogFile do to the messages.                       *)

\* g holds what f holds and data behind it.
Gains(f, g, data) ==
  /\ g.files # <<>>
  /\ Held(Parts(g)) = Held(Parts(f)) \cup Messages(data)
  /\ Ordered(Parts(f)) /\ InOrder(data) /\ Before(Held(Parts(f)), Messages(data)) =>
       Ordered(Parts(g))

\* What is in the files of f.
Bodies(f) == [q \in DOMAIN f.files |-> f.files[q].data]

\* The files are parts, and what is unflushed is the last one.
LEMMA BodiesType ==
  ASSUME NEW f \in LogFiles
  PROVE  /\ Bodies(f) \in Seq(Data) /\ Len(Bodies(f)) = Len(f.files)
         /\ Len(f.files) \in Nat /\ f.files # <<>> => Len(f.files) >= 1
         /\ f.unflushed \in Data
         /\ Parts(f) = Bodies(f) \o <<f.unflushed>>
         /\ Parts(f) \in Seq(Data)
<1> DEFINE R == [name : Nat, data : Data]
           n == Len(f.files)
<1>1. f.files \in Seq(R) /\ f.unflushed \in Data
  BY DEF LogFiles, Data
<1>2. ASSUME NEW r \in R PROVE r.data \in Data
  OBVIOUS
<1> HIDE DEF R, Data
<1>3. /\ n \in Nat /\ f.files \in [1 .. n -> R] /\ (f.files # <<>> => n >= 1)
      /\ \A q \in 1 .. n : f.files[q] \in R
  BY <1>1, Elements, NotEmpty
<1>4. Bodies(f) \in [1 .. n -> Data]
  BY <1>2, <1>3 DEF Bodies
<1>5. Bodies(f) \in Seq(Data) /\ Len(Bodies(f)) = n
  <2> DEFINE B == Bodies(f)
  <2> HIDE DEF B, n
  <2>1. B \in Seq(Data) /\ Len(B) = n
    BY <1>3, <1>4, FunctionIsSeq DEF B
  <2> QED BY <2>1 DEF B
<1>6. Parts(f) = Bodies(f) \o <<f.unflushed>>
  BY DEF Parts, Bodies
<1>7. Parts(f) \in Seq(Data)
  BY <1>1, <1>5, <1>6, LastPart
<1> QED BY <1>1, <1>3, <1>5, <1>6, <1>7

\* Part of what is unflushed goes to the end of the last file.
LEMMA WriteOutGains ==
  ASSUME NEW f \in LogFiles, f.files # <<>>, NEW n \in 0 .. Len(f.unflushed)
  PROVE  Gains(f, WriteOut(f, n), <<>>)
<1> DEFINE g == WriteOut(f, n)
           k == Len(f.files)
           D == Bodies(f)
           E == Bodies(g)
           u == f.unflushed
           x == SubSeq(u, 1, n)
           y == SubSeq(u, n + 1, Len(u))
           P == SubSeq(D, 1, k - 1)
           d == D[k]
<1>1. /\ D \in Seq(Data) /\ Len(D) = k /\ k \in Nat /\ k >= 1 /\ u \in Data
      /\ Parts(f) = D \o <<u>>
  BY BodiesType
<1>2. g \in LogFiles
  BY WriteOutType
<1>3. x \in Data /\ y \in Data /\ u = x \o y
  <2> HIDE DEF x, y
  <2>1. u \in Seq(Nat) /\ n \in 0 .. Len(u)
    BY <1>1 DEF Data
  <2> QED BY <2>1, Ends, CutInTwo DEF Data, x, y
<1>4. /\ g.files = [f.files EXCEPT ![k] = [f.files[k] EXCEPT !.data = d \o x]]
      /\ g.unflushed = y
  <2>1. f.files[k].data = d
    BY <1>1 DEF Bodies
  <2> QED BY <2>1 DEF WriteOut, LogFiles
<1>5. E = [D EXCEPT ![k] = d \o x]
  <2> DEFINE F == f.files
             r == [F[k] EXCEPT !.data = d \o x]
             G == [F EXCEPT ![k] = r]
  <2>1. k \in DOMAIN F /\ r.data = d \o x
    <3> DEFINE R == [name : Nat, data : Data]
    <3>1. F \in Seq(R)
      BY DEF LogFiles, Data
    <3>2. F[k] \in R /\ k \in DOMAIN F
      <4> HIDE DEF R
      <4> QED BY <1>1, <3>1
    <3>3. ASSUME NEW q \in R, NEW e PROVE [q EXCEPT !.data = e].data = e
      OBVIOUS
    <3> QED BY <3>2, <3>3
  <2> HIDE DEF r
  <2>2. [q \in DOMAIN G |-> G[q].data] = [[q \in DOMAIN F |-> F[q].data] EXCEPT ![k] = d \o x]
    <3> DEFINE dx == d \o x
    <3>1. r.data = dx
      BY <2>1
    <3>2. DOMAIN G = DOMAIN F /\ G[k] = r /\ \A q \in DOMAIN F : q # k => G[q] = F[q]
      BY <2>1
    <3> HIDE DEF dx, F, G, k
    <3>3. [q \in DOMAIN G |-> G[q].data] = [[q \in DOMAIN F |-> F[q].data] EXCEPT ![k] = dx]
      BY <2>1, <3>1, <3>2
    <3> QED BY <3>3 DEF dx
  <2>3. g.files = G
    BY <1>4 DEF r
  <2> QED BY <2>2, <2>3 DEF Bodies
<1>6. E \in Seq(Data) /\ Parts(g) = E \o <<y>>
  BY <1>2, <1>4, BodiesType
<1>7. DOMAIN g.files = DOMAIN f.files
  BY <1>4
<1>8. k - 1 \in 0 .. k /\ k \in 1 .. k
  BY <1>1
<1>9. d \in Data /\ d \o x \in Data
  <2>1. d \in Data
    <3> HIDE DEF Data, D, k
    <3> QED BY <1>1, <1>8, Elements
  <2> QED BY <1>3, <2>1 DEF Data
<1> HIDE DEF g, D, E, u, x, y, d, k, Data
<1>10. P \in Seq(Data) /\ D = P \o <<d>>
  <2>1. P \in Seq(Data) /\ D = P \o SubSeq(D, k - 1 + 1, Len(D))
    <3> HIDE DEF P
    <3> QED BY <1>1, <1>8, Ends, CutInTwo DEF P
  <2>2. SubSeq(D, k - 1 + 1, Len(D)) = <<d>>
    BY <1>1, LastOne DEF d
  <2> QED BY <2>1, <2>2
<1>11. E = P \o <<d \o x>>
  <2>1. Len(E) = k
    BY <1>1, <1>5
  <2>2. E = SubSeq(E, 1, k - 1) \o SubSeq(E, k - 1 + 1, Len(E))
    BY <1>6, <1>8, <2>1, CutInTwo
  <2>3. SubSeq(E, k - 1 + 1, Len(E)) = <<d \o x>>
    <3>1. E[k] = d \o x
      BY <1>1, <1>5
    <3> QED BY <1>1, <1>6, <2>1, <3>1, LastOne
  <2>4. SubSeq(E, 1, k - 1) = P
    BY <1>1, <1>5, <1>6, <2>1
  <2> QED BY <2>2, <2>3, <2>4
<1> HIDE DEF P
<1> DEFINE e == d \o x
<1>12. /\ Parts(f) = (P \o <<d>>) \o <<u>>
       /\ Parts(g) = (P \o <<e>>) \o <<y>>
       /\ e \in Data
  BY <1>1, <1>6, <1>9, <1>10, <1>11
<1>13. /\ Messages(u) = Messages(x) \cup Messages(y)
       /\ Messages(e) = Messages(d) \cup Messages(x)
       /\ InOrder(u) <=> InOrder(x) /\ InOrder(y) /\ Before(Messages(x), Messages(y))
       /\ InOrder(e) <=> InOrder(d) /\ InOrder(x) /\ Before(Messages(d), Messages(x))
  BY <1>3, <1>9, MessagesJoined, OrderJoined DEF Data
<1> HIDE DEF e
<1> HIDE DEF Ordered, Held, Messages, InOrder
<1>14. /\ Held(Parts(f)) = Held(P) \cup Messages(d) \cup Messages(u)
       /\ Ordered(Parts(f)) <=>
              /\ Ordered(P) /\ InOrder(d) /\ InOrder(u)
              /\ Before(Held(P), Messages(d))
              /\ Before(Held(P), Messages(u))
              /\ Before(Messages(d), Messages(u))
  BY <1>1, <1>9, <1>10, <1>12, LastTwoParts
<1>15. /\ Held(Parts(g)) = Held(P) \cup Messages(e) \cup Messages(y)
       /\ Ordered(Parts(g)) <=>
              /\ Ordered(P) /\ InOrder(e) /\ InOrder(y)
              /\ Before(Held(P), Messages(e))
              /\ Before(Held(P), Messages(y))
              /\ Before(Messages(e), Messages(y))
  BY <1>3, <1>10, <1>12, LastTwoParts
<1>16. Held(Parts(g)) = Held(Parts(f))
  BY <1>13, <1>14, <1>15
<1>17. Ordered(Parts(f)) <=> Ordered(Parts(g))
  BY <1>13, <1>14, <1>15 DEF Before
<1>18. g.files # <<>>
  <2>1. Len(g.files) = Len(f.files)
    BY <1>4, <1>1
  <2> QED BY <1>1, <2>1 DEF k
<1>19. Messages(<<>>) = {}
  BY NoPart
<1> QED BY <1>16, <1>17, <1>18, <1>19 DEF Gains, g

\* Nothing is gained before, or after.
LEMMA GainsNoMore ==
  ASSUME NEW f, NEW g, NEW h, NEW data,
         \/ Gains(f, g, <<>>) /\ Gains(g, h, data)
         \/ Gains(f, g, data) /\ Gains(g, h, <<>>)
  PROVE  Gains(f, h, data)
<1> HIDE DEF Ordered, Held, Messages, InOrder
<1>1. Messages(<<>>) = {} /\ InOrder(<<>>) /\ \A M : Before(M, {})
  BY NoPart DEF Before
<1> QED BY <1>1 DEF Gains

LEMMA SameParts ==
  ASSUME NEW f, NEW g, f.files # <<>>, g.files = f.files, g.unflushed = f.unflushed
  PROVE  Gains(f, g, <<>>)
<1>1. Parts(g) = Parts(f)
  BY DEF Parts
<1> QED BY <1>1, NoPart DEF Gains

LEMMA FlushedGains ==
  ASSUME NEW f \in LogFiles, f.files # <<>>
  PROVE  Gains(f, Flushed(f), <<>>) /\ Flushed(f).unflushed = <<>>
<1> DEFINE u == f.unflushed
<1>1. u \in Seq(Nat)
  BY DEF LogFiles
<1>2. CASE u = <<>>
  BY <1>2, SameParts DEF Flushed
<1>3. CASE u # <<>>
  <2>1. Len(u) \in 0 .. Len(u)
    BY <1>1
  <2>2. Flushed(f) = WriteOut(f, Len(u))
    BY <1>3 DEF Flushed
  <2>3. WriteOut(f, Len(u)).unflushed = <<>>
    <3>1. WriteOut(f, Len(u)).unflushed = SubSeq(u, Len(u) + 1, Len(u))
      BY DEF WriteOut, LogFiles
    <3> QED BY <1>1, <3>1, WholeOrNothing
  <2> QED BY <2>1, <2>2, <2>3, WriteOutGains
<1> QED BY <1>2, <1>3

\* What is appended comes behind all else, and part of it may get to the file.
LEMMA WrittenGains ==
  ASSUME NEW f \in LogFiles, f.files # <<>>, NEW data \in Data
  PROVE  Gains(f, Written(f, data), data)
<1> DEFINE u == f.unflushed
           v == u \o data
           g == [f EXCEPT !.unflushed = @ \o data, !.writtenBytes = @ + Len(data)]
           n == (Len(g.unflushed) \div StdioSize) * StdioSize
           D == Bodies(f)
<1>1. /\ D \in Seq(Data) /\ u \in Data /\ Parts(f) = D \o <<u>>
  BY BodiesType
<1>2. g \in LogFiles
  <2>1. v \in Seq(Nat) /\ f.writtenBytes + Len(data) \in Nat
    BY DEF LogFiles, Data
  <2> QED BY <2>1 DEF LogFiles
<1>3. g.files = f.files /\ g.unflushed = v
  BY DEF LogFiles
<1>4. Parts(g) = D \o <<v>> /\ v \in Data
  <2>1. Bodies(g) = D
    BY <1>3 DEF Bodies
  <2> HIDE DEF g, D, v
  <2>2. Parts(g) = Bodies(g) \o <<g.unflushed>> /\ g.unflushed \in Data
    BY <1>2, BodiesType
  <2> QED BY <1>3, <2>1, <2>2
<1>5. Gains(f, g, data)
  <2>1. /\ Messages(v) = Messages(u) \cup Messages(data)
        /\ InOrder(v) <=> InOrder(u) /\ InOrder(data) /\ Before(Messages(u), Messages(data))
    BY <1>1, MessagesJoined, OrderJoined DEF Data
  <2> HIDE DEF D, u, v, g, Data
  <2> HIDE DEF Ordered, Held, Messages, InOrder
  <2>2. /\ Held(Parts(f)) = Held(D) \cup Messages(u)
        /\ Ordered(Parts(f)) <=> Ordered(D) /\ InOrder(u) /\ Before(Held(D), Messages(u))
    BY <1>1, LastPart
  <2>3. /\ Held(Parts(g)) = Held(D) \cup Messages(v)
        /\ Ordered(Parts(g)) <=> Ordered(D) /\ InOrder(v) /\ Before(Held(D), Messages(v))
    BY <1>1, <1>4, LastPart
  <2>4. Held(Parts(g)) = Held(Parts(f)) \cup Messages(data)
    BY <2>1, <2>2, <2>3
  <2>5. ASSUME Ordered(Parts(f)), InOrder(data), Before(Held(Parts(f)), Messages(data))
        PROVE  Ordered(Parts(g))
    BY <2>1, <2>2, <2>3, <2>5 DEF Before
  <2> QED BY <1>3, <2>4, <2>5 DEF Gains
<1>6. Len(g.unflushed) \in Nat
  BY <1>2 DEF LogFiles
<1>7. n \in 0 .. Len(g.unflushed)
  <2> HIDE DEF g
  <2> DEFINE l == Len(g.unflushed)
  <2>1. StdioSize \in Nat /\ StdioSize > 0 /\ l \in Nat
    BY <1>6, StdioAssumption
  <2> HIDE DEF l
  <2>2. (l \div StdioSize) * StdioSize \in 0 .. l
    BY <2>1, WholeBuffers
  <2> QED BY <2>2 DEF l
<1>8. Written(f, data) = IF n = 0 THEN g ELSE WriteOut(g, n)
  BY DEF Written
<1> HIDE DEF g, n
<1>9. n # 0 => Gains(g, WriteOut(g, n), <<>>)
  BY <1>2, <1>3, <1>7, WriteOutGains
<1> QED BY <1>5, <1>8, <1>9, GainsNoMore

\* What the logger writes itself is no message.
LEMMA NoMessage == <<Flag>> \in Data /\ Messages(<<Flag>>) = {} /\ InOrder(<<Flag>>)
<1> DEFINE s == <<Flag>>
<1>1. s \in Seq(Nat) /\ DOMAIN s = {1} /\ s[1] = Flag
  BY DEF Flag
<1> HIDE DEF s
<1>2. s \in Data /\ Messages(s) = {} /\ InOrder(s)
  BY <1>1 DEF Data, Messages, InOrder
<1> QED BY <1>2 DEF s

\* The files of f, and now's behind them unless the last one is that.
LEMMA OpenedHolds ==
  ASSUME NEW f \in LogFiles, NEW g \in LogFiles, NEW t \in Nat, f.unflushed = <<>>,
         g.files = Opened(f.files, t), g.unflushed = <<>>
  PROVE  Gains(f, g, <<>>)
<1> DEFINE D == Bodies(f)
<1> HIDE DEF Ordered, Held, Messages, InOrder
<1>1. D \in Seq(Data) /\ Parts(f) = D \o << <<>> >> /\ Len(D) = Len(f.files) /\ Len(D) \in Nat
  <2>1. D \in Seq(Data) /\ Parts(f) = D \o <<f.unflushed>> /\ Len(D) = Len(f.files)
        /\ Len(f.files) \in Nat
    BY BodiesType
  <2> QED BY <2>1
<1>2. Parts(g) = Bodies(g) \o << <<>> >>
  <2>1. Parts(g) = Bodies(g) \o <<g.unflushed>>
    BY BodiesType
  <2> QED BY <2>1
<1>3. <<>> \in Data /\ Messages(<<>>) = {} /\ InOrder(<<>>) /\ \A M : Before(M, {})
  BY NoPart DEF Before
<1>4. CASE g.files = f.files
  <2>1. f.files # <<>>
    <3>1. SUFFICES ASSUME f.files = <<>> PROVE FALSE
      OBVIOUS
    <3>2. Opened(f.files, t) = << [name |-> t, data |-> <<>>] >>
      BY <3>1 DEF Opened
    <3>3. << [name |-> t, data |-> <<>>] >> # <<>>
      OBVIOUS
    <3> QED BY <1>4, <3>1, <3>2, <3>3
  <2> QED BY <1>4, <2>1, SameParts
<1>5. CASE g.files # f.files
  <2> DEFINE r == [name |-> t, data |-> <<>>]
  <2>1. g.files = Append(f.files, r)
    BY <1>5 DEF Opened
  <2>2. Bodies(g) = D \o << <<>> >> /\ g.files # <<>>
    <3> DEFINE k == Len(f.files)
               E == Bodies(g)
               G == D \o << <<>> >>
               R == [name : Nat, data : Data]
    <3>1. f.files \in Seq(R) /\ r \in R /\ r.data = <<>>
      BY <1>3 DEF LogFiles, Data
    <3> HIDE DEF r, R
    <3>2. /\ Len(g.files) = k + 1 /\ k \in Nat /\ g.files[k + 1] = r
          /\ \A q \in 1 .. k : g.files[q] = f.files[q]
          /\ DOMAIN g.files = 1 .. k + 1
      BY <2>1, <3>1
    <3>3. E \in Seq(Data) /\ Len(E) = k + 1
      BY <3>2, BodiesType
    <3>4. DOMAIN f.files = 1 .. k
      BY <3>1
    <3>5. \A q \in 1 .. k : E[q] = D[q]
      BY <3>2, <3>4 DEF Bodies
    <3>6. E[k + 1] = <<>>
      BY <3>1, <3>2 DEF Bodies
    <3> HIDE DEF D, E, Data, k
    <3>7. /\ G \in Seq(Data) /\ Len(G) = k + 1
          /\ \A q \in 1 .. k : G[q] = D[q]
          /\ G[k + 1] = <<>>
      BY <1>1, <1>3 DEF k
    <3> HIDE DEF G
    <3>8. E = G
      <4>1. \A q \in 1 .. k + 1 : q \in 1 .. k \/ q = k + 1
        BY <3>2
      <4> QED BY <3>3, <3>5, <3>6, <3>7, <4>1
    <3>9. g.files # <<>>
      BY <3>2
    <3> QED BY <3>8, <3>9 DEF E, G
  <2> HIDE DEF D, Data
  <2>3. /\ Held(Parts(f)) = Held(D) \cup Messages(<<>>)
        /\ Ordered(Parts(f)) <=> Ordered(D) /\ InOrder(<<>>) /\ Before(Held(D), Messages(<<>>))
    BY <1>1, <1>3, LastPart
  <2>4. /\ Held(Parts(g)) = Held(D) \cup Messages(<<>>) \cup Messages(<<>>)
        /\ Ordered(Parts(g)) <=>
             /\ Ordered(D) /\ InOrder(<<>>) /\ InOrder(<<>>)
             /\ Before(Held(D), Messages(<<>>))
             /\ Before(Held(D), Messages(<<>>))
             /\ Before(Messages(<<>>), Messages(<<>>))
    BY <1>1, <1>2, <1>3, <2>2, LastTwoParts
  <2> QED BY <1>3, <2>2, <2>3, <2>4 DEF Gains
<1> QED BY <1>4, <1>5

\* The old file is complete when the new one is begun.
LEMMA RollFileGains ==
  ASSUME NEW f \in LogFiles, NEW t \in Nat, f.files # <<>> \/ f.unflushed = <<>>
  PROVE  Gains(f, RollFile(f, t), <<>>)
<1> DEFINE e == Flushed(f)
           g == NewFile(f, t)
<1>1. /\ e \in LogFiles /\ e.unflushed = <<>>
      /\ e = f \/ Gains(f, e, <<>>)
  <2>1. CASE f.files # <<>>
    BY <2>1, FlushedType, FlushedGains
  <2>2. CASE f.files = <<>>
    <3>1. f.unflushed = <<>>
      BY <2>2
    <3>2. e = f
      BY <3>1 DEF Flushed
    <3> QED BY <3>1, <3>2
  <2> QED BY <2>1, <2>2
<1>2. /\ g \in LogFiles /\ g.files = Opened(e.files, t) /\ g.unflushed = <<>>
  BY NewFileType
<1>3. RollFile(f, t) = Written(g, <<Flag>>)
  BY DEF RollFile, NewFile
<1> HIDE DEF e, g
<1>4. Gains(e, g, <<>>)
  BY <1>1, <1>2, OpenedHolds
<1>5. Gains(f, g, <<>>)
  BY <1>1, <1>4, GainsNoMore
<1>6. Gains(g, RollFile(f, t), <<Flag>>)
  <2>1. g.files # <<>>
    BY <1>4 DEF Gains
  <2> QED BY <1>2, <1>3, <2>1, NoMessage, WrittenGains
<1>7. Gains(g, RollFile(f, t), <<>>)
  <2>1. Messages(<<Flag>>) = Messages(<<>>) /\ InOrder(<<Flag>>)
    BY NoMessage, NoPart
  <2> HIDE DEF Messages, InOrder, Held, Ordered
  <2> QED BY <1>6, <2>1 DEF Gains
<1> QED BY <1>5, <1>7, GainsNoMore

LEMMA CheckedGains ==
  ASSUME NEW f \in LogFiles, NEW t \in Nat, f.files # <<>>
  PROVE  Gains(f, Checked(f, t), <<>>)
<1>1. CASE DayIsOver(f, t)
  BY <1>1, RollFileGains DEF Checked
<1>2. CASE ~DayIsOver(f, t) /\ t - f.lastFlush > FlushInterval
  <2> DEFINE g == Flushed(f)
             h == [g EXCEPT !.lastFlush = t]
  <2>1. Checked(f, t) = h
    BY <1>2 DEF Checked
  <2>2. g \in LogFiles /\ Gains(f, g, <<>>)
    BY FlushedType, FlushedGains
  <2> HIDE DEF g
  <2>3. Gains(g, h, <<>>)
    <3>1. g.files # <<>> /\ h.files = g.files /\ h.unflushed = g.unflushed
      BY <2>2 DEF Gains, LogFiles
    <3> HIDE DEF h
    <3> QED BY <3>1, SameParts
  <2> QED BY <2>1, <2>2, <2>3, GainsNoMore
<1>3. CASE ~DayIsOver(f, t) /\ ~(t - f.lastFlush > FlushInterval)
  BY <1>3, SameParts DEF Checked
<1> QED BY <1>1, <1>2, <1>3

\* Another count.
LEMMA CountGains ==
  ASSUME NEW f \in LogFiles, f.files # <<>>, NEW n
  PROVE  Gains(f, [f EXCEPT !.count = n], <<>>)
<1> DEFINE g == [f EXCEPT !.count = n]
<1>1. g.files = f.files /\ g.unflushed = f.unflushed
  BY DEF LogFiles
<1> HIDE DEF g
<1>2. Gains(f, g, <<>>)
  BY <1>1, SameParts
<1> QED BY <1>2 DEF g

\* append_unlocked puts data behind what there is, whatever else it does.
LEMMA AppendedGains ==
  ASSUME NEW f \in LogFiles, f.files # <<>>, NEW data \in Data, NEW t \in Nat
  PROVE  Gains(f, Appended(f, data, t), data)
<1> DEFINE g == Written(f, data)
<1>1. g \in LogFiles /\ g.writtenBytes \in Nat /\ g.count \in Nat
  BY WrittenType DEF LogFiles, Data
<1>2. Gains(f, g, data) /\ g.files # <<>>
  BY WrittenGains DEF Gains
<1>3. CheckEvery \in Nat /\ RollSize \in Nat
  BY CheckAssumption, RollAssumption
<1>4. CASE g.writtenBytes > RollSize
  <2> DEFINE r == RollFile(g, t)
  <2>1. Appended(f, data, t) = [r EXCEPT !.count = 0]
    <3> HIDE DEF r
    <3> QED BY <1>1, <1>3, <1>4 DEF Appended, r
  <2>2. r \in LogFiles /\ Gains(g, r, <<>>)
    BY <1>1, <1>2, RollFileType, RollFileGains
  <2> HIDE DEF r, g
  <2>3. Gains(r, [r EXCEPT !.count = 0], <<>>)
    BY <2>2, CountGains DEF Gains
  <2>4. Gains(f, r, data)
    BY <1>2, <2>2, GainsNoMore
  <2> QED BY <2>1, <2>3, <2>4, GainsNoMore
<1>5. CASE g.writtenBytes <= RollSize /\ g.count + 1 >= CheckEvery
  <2> DEFINE h == [g EXCEPT !.count = 0]
  <2>1. Appended(f, data, t) = Checked(h, t)
    BY <1>1, <1>3, <1>5 DEF Appended
  <2> HIDE DEF g
  <2>2. h \in LogFiles /\ Gains(g, h, <<>>)
    BY <1>1, <1>2, CountGains, CountType
  <2> HIDE DEF h
  <2>3. Gains(h, Checked(h, t), <<>>)
    BY <2>2, CheckedGains DEF Gains
  <2>4. Gains(f, h, data)
    BY <1>2, <2>2, GainsNoMore
  <2> QED BY <2>1, <2>3, <2>4, GainsNoMore
<1>6. CASE g.writtenBytes <= RollSize /\ g.count + 1 < CheckEvery
  <2>1. Appended(f, data, t) = [g EXCEPT !.count = @ + 1]
    BY <1>1, <1>3, <1>6 DEF Appended
  <2> HIDE DEF g
  <2>2. Gains(g, [g EXCEPT !.count = g.count + 1], <<>>)
    BY <1>1, <1>2, CountGains
  <2> QED BY <1>2, <2>1, <2>2, GainsNoMore
<1> QED BY <1>1, <1>3, <1>4, <1>5, <1>6

LEMMA NewLogFileHolds ==
  /\ NewLogFile(0).files # <<>>
  /\ Held(Parts(NewLogFile(0))) = {}
  /\ Ordered(Parts(NewLogFile(0)))
<1> DEFINE f == [files |-> <<>>, unflushed |-> <<>>, writtenBytes |-> 0,
                 count |-> 0, startOfPeriod |-> 0, lastFlush |-> 0]
<1>1. f \in LogFiles
  <2> DEFINE F == Seq([name : Nat, data : Seq(Nat)])
             N == Seq(Nat)
  <2>1. <<>> \in N /\ <<>> \in F
    OBVIOUS
  <2>2. LogFiles = [files : F, unflushed : N, writtenBytes : Nat, count : Nat,
                    startOfPeriod : Nat, lastFlush : Nat]
    BY DEF LogFiles
  <2> HIDE DEF F, N
  <2> QED BY <2>1, <2>2
<1>2. Parts(f) = << <<>> >>
  <2>1. Bodies(f) = <<>>
    <3>1. Len(Bodies(f)) = 0 /\ Bodies(f) \in Seq(Data)
      BY <1>1, BodiesType
    <3> QED BY <3>1
  <2>2. Parts(f) = Bodies(f) \o <<f.unflushed>>
    BY <1>1, BodiesType
  <2>3. <<>> \o << <<>> >> = << <<>> >>
    OBVIOUS
  <2> QED BY <2>1, <2>2, <2>3
<1>3. Held(Parts(f)) = {} /\ Ordered(Parts(f))
  <2>1. Held(<< <<>> >>) = Messages(<<>>) /\ (Ordered(<< <<>> >>) <=> InOrder(<<>>))
    BY OnePart, NoPart
  <2> QED BY <1>2, <2>1, NoPart
<1>4. NewLogFile(0) = RollFile(f, 0) /\ f.unflushed = <<>>
  BY DEF NewLogFile
<1> HIDE DEF f
<1>5. Gains(f, NewLogFile(0), <<>>)
  BY <1>1, <1>4, RollFileGains
<1>6. Messages(<<>>) = {} /\ InOrder(<<>>) /\ Before(Held(Parts(f)), {})
  BY NoPart DEF Before
<1> HIDE DEF Held, Ordered, Messages, InOrder
<1> QED BY <1>3, <1>5, <1>6 DEF Gains

-----------------------------------------------------------------------------
(* No message is lost, repeated or overtaken.                              *)

\* Where the consumer is among the buffers it writes; a next buffer is empty; only
\* what was appended is thrown away.
PlaceInv ==
  /\ logfile.files # <<>>
  /\ nextBuffer \in {Null, Fresh}
  /\ discarded \subseteq 1 .. appended
  /\ written <= Len(buffersToWrite)
  /\ written # 0 => pc \in {"write", "recycle"}
  /\ pc = "recycle" => written = Len(buffersToWrite)

DataInv == PlaceInv /\ AllInOrder

\* What the log file was not given yet.
Waiting == (Unwritten \o fullBuffers) \o currentBuffer

\* The buffers that wait are parts too.
LEMMA WaitingType ==
  TypeOK /\ PlaceInv =>
    /\ buffersToWrite \in Seq(Data) /\ fullBuffers \in Seq(Data)
    /\ written \in 0 .. Len(buffersToWrite) /\ Unwritten \in Seq(Data)
    /\ currentBuffer \in Seq(Data)
    /\ currentBuffer = <<currentBuffer[1]>> /\ currentBuffer[1] \in Data
    /\ Waiting \in Seq(Data)
    /\ Parts(logfile) \in Seq(Data)
<1> SUFFICES ASSUME TypeOK, PlaceInv PROVE WaitingType!2
  OBVIOUS
<1>1. Buffers = Data
  BY DEF Buffers, Data
<1>2. /\ buffersToWrite \in Seq(Data) /\ fullBuffers \in Seq(Data)
      /\ currentBuffer \in Seq(Data) /\ Len(currentBuffer) = 1
      /\ written \in Nat /\ logfile \in LogFiles
  BY <1>1 DEF TypeOK
<1>3. Parts(logfile) \in Seq(Data)
  BY <1>2, BodiesType
<1> HIDE DEF Data
<1>4. written \in 0 .. Len(buffersToWrite)
  <2>1. Len(buffersToWrite) \in Nat
    BY <1>2, Elements
  <2> QED BY <1>2, <2>1 DEF PlaceInv
<1>5. Unwritten \in Seq(Data)
  BY <1>2, <1>4, Ends DEF Unwritten
<1>6. Waiting \in Seq(Data)
  BY <1>2, <1>5, Joined DEF Waiting
<1>7. currentBuffer = <<currentBuffer[1]>> /\ currentBuffer[1] \in Data
  <2> DEFINE c == currentBuffer
             d == <<c[1]>>
  <2>1. c[1] \in Data /\ c \in Seq(Data) /\ Len(c) = 1
    BY <1>2
  <2>2. d \in Seq(Data) /\ Len(d) = 1 /\ d[1] = c[1]
    BY <2>1
  <2> HIDE DEF c, d
  <2>3. c = d
    BY <2>1, <2>2
  <2> QED BY <2>1, <2>3 DEF c, d
<1> QED BY <1>2, <1>3, <1>4, <1>5, <1>6, <1>7

\* The order of the files and of what waits, one part after the other.
LEMMA FilesAndWaiting ==
  TypeOK /\ PlaceInv =>
    (AllInOrder <=>
      /\ Ordered(Parts(logfile)) /\ Ordered(Waiting)
      /\ Before(Held(Parts(logfile)), Held(Waiting))
      /\ Held(Parts(logfile)) \cup Held(Waiting) = 1 .. appended \ discarded)
<1> SUFFICES ASSUME TypeOK, PlaceInv PROVE FilesAndWaiting!2
  OBVIOUS
<1> DEFINE L == Parts(logfile)
           W == Unwritten
           F == fullBuffers
           C == currentBuffer
<1>1. L \in Seq(Data) /\ W \in Seq(Data) /\ F \in Seq(Data) /\ C \in Seq(Data)
  BY WaitingType
<1>2. /\ AllInOrder <=>
           /\ Ordered(((L \o W) \o F) \o C)
           /\ Held(((L \o W) \o F) \o C) = 1 .. appended \ discarded
      /\ Waiting = (W \o F) \o C
  BY DEF AllInOrder, Waiting
<1> HIDE DEF L, W, F, C, Data, Ordered, Held
<1>3. L \o W \in Seq(Data) /\ (L \o W) \o F \in Seq(Data) /\ W \o F \in Seq(Data)
  BY <1>1, Joined
<1>4. /\ Held((W \o F) \o C) = Held(W) \cup Held(F) \cup Held(C)
      /\ Ordered((W \o F) \o C) <=>
           /\ Ordered(W) /\ Ordered(F) /\ Before(Held(W), Held(F))
           /\ Ordered(C) /\ Before(Held(W) \cup Held(F), Held(C))
  <2>1. /\ Held(W \o F) = Held(W) \cup Held(F)
        /\ Ordered(W \o F) <=> Ordered(W) /\ Ordered(F) /\ Before(Held(W), Held(F))
    BY <1>1, HeldJoined, PartsJoined
  <2>2. /\ Held((W \o F) \o C) = Held(W \o F) \cup Held(C)
        /\ Ordered((W \o F) \o C) <=> Ordered(W \o F) /\ Ordered(C) /\ Before(Held(W \o F), Held(C))
    BY <1>1, <1>3, HeldJoined, PartsJoined
  <2> QED BY <2>1, <2>2
<1>5. /\ Held(((L \o W) \o F) \o C) = Held(L) \cup Held(W) \cup Held(F) \cup Held(C)
      /\ Ordered(((L \o W) \o F) \o C) <=>
           /\ Ordered(L) /\ Ordered(W) /\ Before(Held(L), Held(W))
           /\ Ordered(F) /\ Before(Held(L) \cup Held(W), Held(F))
           /\ Ordered(C) /\ Before(Held(L) \cup Held(W) \cup Held(F), Held(C))
  <2>1. /\ Held(L \o W) = Held(L) \cup Held(W)
        /\ Ordered(L \o W) <=> Ordered(L) /\ Ordered(W) /\ Before(Held(L), Held(W))
    BY <1>1, HeldJoined, PartsJoined
  <2>2. /\ Held((L \o W) \o F) = Held(L \o W) \cup Held(F)
        /\ Ordered((L \o W) \o F) <=> Ordered(L \o W) /\ Ordered(F) /\ Before(Held(L \o W), Held(F))
    BY <1>1, <1>3, HeldJoined, PartsJoined
  <2>3. /\ Held(((L \o W) \o F) \o C) = Held((L \o W) \o F) \cup Held(C)
        /\ Ordered(((L \o W) \o F) \o C) <=>
             Ordered((L \o W) \o F) /\ Ordered(C) /\ Before(Held((L \o W) \o F), Held(C))
    BY <1>1, <1>3, HeldJoined, PartsJoined
  <2> QED BY <2>1, <2>2, <2>3
<1>6. AllInOrder <=>
           /\ Ordered(L) /\ Ordered(Waiting)
           /\ Before(Held(L), Held(Waiting))
           /\ Held(L) \cup Held(Waiting) = 1 .. appended \ discarded
  BY <1>2, <1>4, <1>5 DEF Before
<1> QED BY <1>6 DEF L

\* The buffers that wait, one part after the other.
LEMMA WaitingParts ==
  TypeOK /\ PlaceInv =>
    /\ Held(Waiting) = Held(Unwritten) \cup Held(fullBuffers) \cup Messages(currentBuffer[1])
    /\ Ordered(Waiting) <=>
         /\ Ordered(Unwritten) /\ Ordered(fullBuffers) /\ InOrder(currentBuffer[1])
         /\ Before(Held(Unwritten), Held(fullBuffers))
         /\ Before(Held(Unwritten), Messages(currentBuffer[1]))
         /\ Before(Held(fullBuffers), Messages(currentBuffer[1]))
<1> SUFFICES ASSUME TypeOK, PlaceInv PROVE WaitingParts!2
  OBVIOUS
<1> DEFINE W == Unwritten
           F == fullBuffers
           b == currentBuffer[1]
<1>1. /\ W \in Seq(Data) /\ F \in Seq(Data) /\ b \in Data
      /\ Waiting = (W \o F) \o <<b>>
  BY WaitingType DEF Waiting
<1> HIDE DEF W, F, b, Data, Ordered, Held, Messages, InOrder
<1>2. W \o F \in Seq(Data)
  BY <1>1, Joined
<1>3. /\ Held(W \o F) = Held(W) \cup Held(F)
      /\ Ordered(W \o F) <=> Ordered(W) /\ Ordered(F) /\ Before(Held(W), Held(F))
  BY <1>1, HeldJoined, PartsJoined
<1>4. /\ Held(Waiting) = Held(W \o F) \cup Messages(b)
      /\ Ordered(Waiting) <=> Ordered(W \o F) /\ InOrder(b) /\ Before(Held(W \o F), Messages(b))
  BY <1>1, <1>2, LastPart
<1> QED BY <1>3, <1>4 DEF Before, W, F, b

\* The parts that wait, after a step.
LEMMA WaitingPartsNext ==
  (TypeOK /\ PlaceInv)' =>
     /\ Held(Waiting)' = Held(Unwritten') \cup Held(fullBuffers') \cup Messages(currentBuffer'[1])
     /\ Ordered(Waiting)' <=>
          /\ Ordered(Unwritten') /\ Ordered(fullBuffers') /\ InOrder(currentBuffer'[1])
          /\ Before(Held(Unwritten'), Held(fullBuffers'))
          /\ Before(Held(Unwritten'), Messages(currentBuffer'[1]))
          /\ Before(Held(fullBuffers'), Messages(currentBuffer'[1]))
<1>1. (TypeOK /\ PlaceInv)' =>
        (/\ Held(Waiting) = Held(Unwritten) \cup Held(fullBuffers) \cup Messages(currentBuffer[1])
         /\ Ordered(Waiting) <=>
              /\ Ordered(Unwritten) /\ Ordered(fullBuffers) /\ InOrder(currentBuffer[1])
              /\ Before(Held(Unwritten), Held(fullBuffers))
              /\ Before(Held(Unwritten), Messages(currentBuffer[1]))
              /\ Before(Held(fullBuffers), Messages(currentBuffer[1])))'
  BY WaitingParts, PTL
<1> QED BY <1>1

LEMMA FilesAndWaitingNext ==
  (TypeOK /\ PlaceInv)' =>
     (AllInOrder' <=>
        /\ Ordered(Parts(logfile')) /\ Ordered(Waiting)'
        /\ Before(Held(Parts(logfile')), Held(Waiting)')
        /\ Held(Parts(logfile')) \cup Held(Waiting)' = 1 .. appended' \ discarded')
<1>1. (TypeOK /\ PlaceInv)' =>
        (AllInOrder <=>
           /\ Ordered(Parts(logfile)) /\ Ordered(Waiting)
           /\ Before(Held(Parts(logfile)), Held(Waiting))
           /\ Held(Parts(logfile)) \cup Held(Waiting) = 1 .. appended \ discarded)'
  BY FilesAndWaiting, PTL
<1> QED BY <1>1

\* A message that is after all others.
LEMMA LatestMessage ==
  ASSUME NEW b \in Data, NEW m \in Nat \ {0}
  PROVE  /\ Append(b, m) \in Data
         /\ Messages(Append(b, m)) = Messages(b) \cup {m}
         /\ InOrder(Append(b, m)) <=> InOrder(b) /\ Before(Messages(b), {m})
<1> DEFINE s == <<m>>
<1>1. Append(b, m) = b \o s /\ Append(b, m) \in Data
  BY DEF Data
<1>2. s \in Seq(Nat) /\ DOMAIN s = {1} /\ s[1] = m
  OBVIOUS
<1> HIDE DEF s
<1>3. Messages(s) = {m} /\ InOrder(s)
  BY <1>2 DEF Messages, InOrder, Flag
<1>4. b \in Seq(Nat)
  BY DEF Data
<1>5. /\ Messages(b \o s) = Messages(b) \cup Messages(s)
      /\ InOrder(b \o s) <=> InOrder(b) /\ InOrder(s) /\ Before(Messages(b), Messages(s))
  BY <1>2, <1>4, MessagesJoined, OrderJoined
<1> QED BY <1>1, <1>3, <1>5

\* The file is left alone, or given nothing, and what waits holds the same.
LEMMA SameOrder ==
  ASSUME TypeOK, TypeOK', DataInv, PlaceInv',
         UNCHANGED logfile \/ Gains(logfile, logfile', <<>>),
         Ordered(Waiting) => Ordered(Waiting)',
         Held(Waiting)' = Held(Waiting),
         UNCHANGED <<appended, discarded>>
  PROVE  DataInv'
<1>1. /\ Ordered(Parts(logfile)) /\ Ordered(Waiting)
      /\ Before(Held(Parts(logfile)), Held(Waiting))
      /\ Held(Parts(logfile)) \cup Held(Waiting) = 1 .. appended \ discarded
  BY FilesAndWaiting DEF DataInv
<1>2. Ordered(Parts(logfile')) /\ Held(Parts(logfile')) = Held(Parts(logfile))
  <2>1. CASE UNCHANGED logfile
    BY <1>1, <2>1
  <2>2. CASE Gains(logfile, logfile', <<>>)
    <3>1. Messages(<<>>) = {} /\ InOrder(<<>>) /\ Before(Held(Parts(logfile)), {})
      BY NoPart DEF Before
    <3> HIDE DEF Ordered, Held, Messages, InOrder
    <3> QED BY <1>1, <2>2, <3>1 DEF Gains
  <2> QED BY <2>1, <2>2
<1> QED BY <1>1, <1>2, FilesAndWaitingNext DEF DataInv

\* None of the buffers was written, or all of them.
LEMMA NothingUnwritten ==
  ASSUME NEW s \in Seq(Data)
  PROVE  SubSeq(s, 0 + 1, Len(s)) = s /\ SubSeq(s, Len(s) + 1, Len(s)) = <<>>
<1>1. SubSeq(s, 1, Len(s)) = s /\ SubSeq(s, Len(s) + 1, Len(s)) = <<>>
  BY WholeOrNothing
<1> QED BY <1>1

\* The next buffer to write, and those after it.
LEMMA FirstUnwritten ==
  ASSUME NEW S, NEW s \in Seq(S), NEW n \in Nat, n < Len(s)
  PROVE  /\ SubSeq(s, n + 1, Len(s)) = <<s[n + 1]>> \o SubSeq(s, n + 2, Len(s))
         /\ SubSeq(s, n + 2, Len(s)) \in Seq(S)
         /\ s[n + 1] \in S
<1> DEFINE l == Len(s)
           t == SubSeq(s, n + 1, l)
           e == <<s[n + 1]>>
           r == SubSeq(s, n + 2, l)
           u == e \o r
<1>1. l \in Nat /\ n + 1 \in 1 .. l
  BY Elements
<1>2. s[n + 1] \in S
  BY <1>1
<1>3. r \in Seq(S) /\ Len(r) = l - n - 1 /\ \A q \in 1 .. l - n - 1 : r[q] = s[n + 1 + q]
  BY <1>1
<1>4. t \in Seq(S) /\ Len(t) = l - n /\ \A q \in 1 .. l - n : t[q] = s[n + q]
  BY <1>1
<1>5. e \in Seq(S) /\ Len(e) = 1 /\ e[1] = s[n + 1]
  BY <1>2
<1> HIDE DEF l, t, e, r
<1>6. /\ u \in Seq(S) /\ Len(u) = Len(e) + Len(r)
      /\ \A q \in 1 .. Len(e) : u[q] = e[q]
      /\ \A q \in 1 .. Len(r) : u[Len(e) + q] = r[q]
  <2>1. u \in Seq(S) /\ Len(u) = Len(e) + Len(r)
    BY <1>3, <1>5, Joined
  <2>2. e \in Seq(S) /\ r \in Seq(S)
    BY <1>3, <1>5
  <2>3. /\ \A q \in 1 .. Len(e) : u[q] = e[q]
        /\ \A q \in 1 .. Len(r) : u[Len(e) + q] = r[q]
    BY <2>2
  <2> QED BY <2>1, <2>3
<1> HIDE DEF u
<1>7. Len(u) = l - n
  BY <1>1, <1>3, <1>5, <1>6
<1>8. ASSUME NEW q \in 1 .. l - n PROVE u[q] = s[n + q]
  <2>1. CASE q = 1
    BY <1>5, <1>6, <2>1
  <2>2. CASE q # 1
    <3>1. q - 1 \in 1 .. l - n - 1 /\ 1 + (q - 1) = q /\ n + 1 + (q - 1) = n + q
      BY <1>1, <2>2
    <3>2. u[1 + (q - 1)] = r[q - 1]
      BY <1>3, <1>5, <1>6, <3>1
    <3> QED BY <1>3, <3>1, <3>2
  <2> QED BY <2>1, <2>2
<1>9. t = u
  BY <1>4, <1>6, <1>7, <1>8
<1> QED BY <1>2, <1>3, <1>9 DEF t, u, e, r, l

-----------------------------------------------------------------------------
(* Each step keeps the messages in order.                                  *)

\* The newest message is behind all others, in the current buffer or in a fresh one.
LEMMA AppendOrder == IInv /\ DataInv /\ AppendMessage => DataInv'
<1> SUFFICES ASSUME IInv, DataInv, AppendMessage PROVE DataInv'
  OBVIOUS
<1> DEFINE b == currentBuffer[1]
           m == appended + 1
           W == Unwritten
           F == fullBuffers
<1>1. TypeOK /\ PlaceInv /\ AllInOrder /\ TypeOK'
  BY AppendKeeps DEF IInv, DataInv
<1>2. appended \in Nat /\ m \in Nat \ {0} /\ appended' = m
  BY <1>1 DEF TypeOK, AppendMessage
<1>3. /\ UNCHANGED <<logfile, buffersToWrite, written, pc, discarded, Unwritten>>
      /\ nextBuffer' \in {nextBuffer, Null}
  BY DEF AppendMessage, fileVars, Unwritten
<1>4. PlaceInv'
  <2>1. 1 .. appended \subseteq 1 .. m
    BY <1>2
  <2> QED BY <1>1, <1>2, <1>3, <2>1 DEF PlaceInv
<1>5. /\ F \in Seq(Data) /\ W \in Seq(Data) /\ b \in Data /\ currentBuffer = <<b>>
  BY <1>1, WaitingType
<1>6. ASSUME NEW p \in Data, WithMessage(<<p>>, m) = currentBuffer'
      PROVE  /\ InOrder(currentBuffer'[1]) <=> InOrder(p) /\ Before(Messages(p), {m})
             /\ Messages(currentBuffer'[1]) = Messages(p) \cup {m}
  <2>1. currentBuffer'[1] = Append(p, m)
    <3>1. WithMessage(<<p>>, m)[1] = Append(p, m)
      BY DEF WithMessage
    <3> QED BY <1>6, <3>1
  <2> HIDE DEF m, Data
  <2>2. /\ InOrder(Append(p, m)) <=> InOrder(p) /\ Before(Messages(p), {m})
        /\ Messages(Append(p, m)) = Messages(p) \cup {m}
    BY <1>2, LatestMessage
  <2> HIDE DEF InOrder, Messages
  <2> QED BY <2>1, <2>2
<1> HIDE DEF m, W, b, F, Data
<1>7. \/ /\ UNCHANGED fullBuffers
         /\ currentBuffer' = WithMessage(<<b>>, m)
      \/ /\ fullBuffers' = F \o <<b>>
         /\ currentBuffer' = WithMessage(<< <<>> >>, m)
  <2>1. nextBuffer \in {Null, Fresh}
    BY <1>1 DEF PlaceInv
  <2>2. Replacement = << <<>> >>
    BY <2>1 DEF Replacement, Fresh, Ptr
  <2> QED BY <1>5, <2>2 DEF AppendMessage, m, b, F
<1> HIDE DEF Held, Ordered, Messages, InOrder
<1>8. /\ Held(Waiting) = Held(W) \cup Held(F) \cup Messages(b)
      /\ Ordered(Waiting) <=>
           /\ Ordered(W) /\ Ordered(F) /\ InOrder(b)
           /\ Before(Held(W), Held(F)) /\ Before(Held(W), Messages(b))
           /\ Before(Held(F), Messages(b))
  BY <1>1, WaitingParts DEF W, F, b
<1>9. /\ Held(Waiting)' = Held(W) \cup Held(fullBuffers') \cup Messages(currentBuffer'[1])
      /\ Ordered(Waiting)' <=>
           /\ Ordered(W) /\ Ordered(fullBuffers') /\ InOrder(currentBuffer'[1])
           /\ Before(Held(W), Held(fullBuffers'))
           /\ Before(Held(W), Messages(currentBuffer'[1]))
           /\ Before(Held(fullBuffers'), Messages(currentBuffer'[1]))
  <2>1. Unwritten' = W
    BY <1>3 DEF W
  <2> QED BY <1>1, <1>4, <2>1, WaitingPartsNext
<1>10. /\ Held(Waiting)' = Held(Waiting) \cup {m}
       /\ Ordered(Waiting) /\ Before(Held(Waiting), {m}) => Ordered(Waiting)'
  <2>1. CASE UNCHANGED fullBuffers /\ currentBuffer' = WithMessage(<<b>>, m)
    <3>1. /\ InOrder(currentBuffer'[1]) <=> InOrder(b) /\ Before(Messages(b), {m})
          /\ Messages(currentBuffer'[1]) = Messages(b) \cup {m}
      BY <1>5, <1>6, <2>1
    <3>2. fullBuffers' = F
      BY <2>1 DEF F
    <3> QED BY <1>8, <1>9, <3>1, <3>2 DEF Before
  <2>2. CASE fullBuffers' = F \o <<b>> /\ currentBuffer' = WithMessage(<< <<>> >>, m)
    <3>1. /\ Messages(<<>>) = {} /\ InOrder(<<>>) /\ <<>> \in Data
          /\ Before({}, {m})
      BY NoPart DEF Before
    <3>2. InOrder(currentBuffer'[1]) /\ Messages(currentBuffer'[1]) = {m}
      BY <1>6, <2>2, <3>1
    <3>3. /\ Held(fullBuffers') = Held(F) \cup Messages(b)
          /\ Ordered(fullBuffers') <=> Ordered(F) /\ InOrder(b) /\ Before(Held(F), Messages(b))
      BY <1>5, <2>2, LastPart
    <3> QED BY <1>8, <1>9, <3>2, <3>3 DEF Before
  <2> QED BY <1>7, <2>1, <2>2
<1>11. /\ Ordered(Parts(logfile)) /\ Ordered(Waiting)
       /\ Before(Held(Parts(logfile)), Held(Waiting))
       /\ Held(Parts(logfile)) \cup Held(Waiting) = 1 .. appended \ discarded
  BY <1>1, FilesAndWaiting
<1>12. Before(Held(Waiting), {m}) /\ Before(Held(Parts(logfile)), {m})
  <2>1. \A q \in 1 .. appended : q < m
    BY <1>2 DEF m
  <2> QED BY <1>11, <2>1 DEF Before
<1>13. Held(Parts(logfile)) \cup Held(Waiting)' = 1 .. m \ discarded
  <2>1. 1 .. m = (1 .. appended) \cup {m} /\ m \notin 1 .. appended
    BY <1>2 DEF m
  <2>2. m \notin discarded
    BY <1>1, <2>1 DEF PlaceInv
  <2> QED BY <1>10, <1>11, <2>1, <2>2
<1>14. AllInOrder'
  <2>1. Before(Held(Parts(logfile)), Held(Waiting)')
    BY <1>10, <1>11, <1>12 DEF Before
  <2>2. logfile' = logfile /\ discarded' = discarded
    BY <1>3
  <2> HIDE DEF Before
  <2> QED BY <1>1, <1>2, <1>4, <1>10, <1>11, <1>12, <1>13, <2>1, <2>2, FilesAndWaitingNext
<1> QED BY <1>4, <1>14 DEF DataInv

\* The full buffers and the current one become those to write.
LEMMA TakeOrder == IInv /\ DataInv /\ pc \in {"enter", "wait"} /\ TakeBuffers => DataInv'
<1> SUFFICES ASSUME IInv, DataInv, pc \in {"enter", "wait"}, TakeBuffers PROVE DataInv'
  OBVIOUS
<1> DEFINE b == currentBuffer[1]
           F == fullBuffers
<1>1. TypeOK /\ PlaceInv /\ AllInOrder /\ TypeOK'
  BY TakeKeeps DEF IInv, DataInv
<1>2. /\ buffersToWrite = <<>> /\ written = 0
      /\ newBuffer1 = << <<>> >> /\ newBuffer2 = Fresh
  BY <1>1 DEF IInv, PtrInv, PlaceInv, Fresh, Ptr
<1>3. /\ F \in Seq(Data) /\ b \in Data /\ currentBuffer = <<b>>
  BY <1>1, WaitingType
<1>4. /\ fullBuffers' = <<>> /\ currentBuffer' = << <<>> >> /\ currentBuffer'[1] = <<>>
      /\ buffersToWrite' = F \o <<b>> /\ written' = 0 /\ pc' = "backlog"
      /\ nextBuffer' \in {nextBuffer, Fresh}
      /\ UNCHANGED <<logfile, appended, discarded>>
  BY <1>2, <1>3 DEF TakeBuffers, callerVars, fileVars
<1> HIDE DEF F, b, Data, Held, Ordered, Messages, InOrder
<1>5. F \o <<b>> \in Seq(Data)
  BY <1>3, LastPart
<1>6. PlaceInv'
  <2>1. Len(buffersToWrite') \in Nat
    BY <1>4, <1>5, Elements
  <2> QED BY <1>1, <1>4, <2>1 DEF PlaceInv
<1>7. Unwritten = <<>> /\ Unwritten' = F \o <<b>>
  <2>1. <<>> \in Seq(Data)
    BY NoPart
  <2>2. Unwritten = SubSeq(<<>>, 0 + 1, Len(<<>>))
    BY <1>2 DEF Unwritten
  <2>3. Unwritten' = SubSeq(F \o <<b>>, 0 + 1, Len(F \o <<b>>))
    BY <1>4 DEF Unwritten
  <2> QED BY <1>5, <2>1, <2>2, <2>3, NothingUnwritten
<1>8. /\ Held(<<>>) = {} /\ Ordered(<<>>) /\ Messages(<<>>) = {} /\ InOrder(<<>>)
      /\ \A M : Before(M, {}) /\ Before({}, M)
  BY NoPart DEF Before
<1>9. /\ Held(Waiting) = Held(F) \cup Messages(b)
      /\ Ordered(Waiting) <=> Ordered(F) /\ InOrder(b) /\ Before(Held(F), Messages(b))
  BY <1>1, <1>7, <1>8, WaitingParts DEF F, b
<1>10. /\ Held(F \o <<b>>) = Held(F) \cup Messages(b)
       /\ Ordered(F \o <<b>>) <=> Ordered(F) /\ InOrder(b) /\ Before(Held(F), Messages(b))
  BY <1>3, LastPart
<1>11. /\ Held(Waiting)' = Held(F \o <<b>>)
       /\ Ordered(Waiting)' <=> Ordered(F \o <<b>>)
  BY <1>1, <1>4, <1>6, <1>7, <1>8, WaitingPartsNext
<1> QED BY <1>1, <1>4, <1>6, <1>9, <1>10, <1>11, SameOrder

\* All of them were written.
LEMMA RecycleOrder == IInv /\ DataInv /\ Recycle => DataInv'
<1> SUFFICES ASSUME IInv, DataInv, Recycle PROVE DataInv'
  OBVIOUS
<1>1. TypeOK /\ PlaceInv /\ AllInOrder /\ TypeOK' /\ logfile \in LogFiles
  BY RecycleKeeps DEF IInv, DataInv, TypeOK
<1>2. /\ buffersToWrite' = <<>> /\ written' = 0 /\ pc = "recycle" /\ pc' = "test"
      /\ logfile' = Flushed(logfile)
      /\ UNCHANGED <<appended, discarded, currentBuffer, fullBuffers, nextBuffer>>
  BY DEF Recycle, FlushLog, callerVars, shared
<1>3. Gains(logfile, logfile', <<>>)
  BY <1>1, <1>2, FlushedGains DEF PlaceInv
<1>4. PlaceInv'
  <2>1. Len(buffersToWrite') = 0
    BY <1>2
  <2>2. logfile'.files # <<>>
    BY <1>3 DEF Gains
  <2> QED BY <1>1, <1>2, <2>1, <2>2 DEF PlaceInv
<1>5. Unwritten = <<>> /\ Unwritten' = <<>>
  <2>1. buffersToWrite \in Seq(Data) /\ <<>> \in Seq(Data)
    BY <1>1, NoPart, WaitingType
  <2>2. Unwritten = SubSeq(buffersToWrite, Len(buffersToWrite) + 1, Len(buffersToWrite))
    BY <1>1, <1>2 DEF Unwritten, PlaceInv
  <2>3. Unwritten' = SubSeq(<<>>, 0 + 1, Len(<<>>))
    BY <1>2 DEF Unwritten
  <2> HIDE DEF Data
  <2> QED BY <2>1, <2>2, <2>3, NothingUnwritten
<1>6. Waiting' = Waiting
  BY <1>2, <1>5 DEF Waiting
<1> HIDE DEF Waiting, Held, Ordered
<1> QED BY <1>1, <1>2, <1>3, <1>4, <1>6, SameOrder

\* The next one goes to the log file, behind all that it was given.
LEMMA WriteOrder == IInv /\ DataInv /\ Write => DataInv'
<1> SUFFICES ASSUME IInv, DataInv, Write PROVE DataInv'
  OBVIOUS
<1> DEFINE d == buffersToWrite[written + 1]
           W == Unwritten'
           L == Parts(logfile)
           M == Parts(logfile')
           F == fullBuffers
           b == currentBuffer[1]
<1>1. TypeOK /\ PlaceInv /\ AllInOrder /\ TypeOK' /\ logfile \in LogFiles /\ now \in Nat
  BY WriteKeeps DEF IInv, DataInv, TypeOK
<1>2. /\ buffersToWrite \in Seq(Data) /\ written \in Nat
      /\ written < Len(buffersToWrite) /\ Len(buffersToWrite) \in Nat
  <2>1. buffersToWrite \in Seq(Data)
    BY <1>1, WaitingType
  <2> QED BY <1>1, <2>1, Elements DEF Write, TypeOK
<1>3. /\ written' = written + 1 /\ pc' = "write"
      /\ logfile' = Appended(logfile, d, now)
      /\ UNCHANGED <<appended, discarded, currentBuffer, fullBuffers, nextBuffer, buffersToWrite>>
  BY DEF Write, Log, callerVars, shared
<1>4. d \in Data /\ W \in Seq(Data) /\ Unwritten = <<d>> \o W
  <2>1. W = SubSeq(buffersToWrite, written + 2, Len(buffersToWrite))
    <3>1. written + 1 + 1 = written + 2
      BY <1>2
    <3> QED BY <1>3, <3>1 DEF Unwritten
  <2> HIDE DEF W
  <2> QED BY <1>2, <2>1, FirstUnwritten DEF Unwritten
<1>5. Gains(logfile, logfile', d)
  BY <1>1, <1>3, <1>4, AppendedGains DEF PlaceInv
<1>6. PlaceInv'
  <2>1. logfile'.files # <<>>
    BY <1>5 DEF Gains
  <2> QED BY <1>1, <1>2, <1>3, <2>1 DEF PlaceInv
<1> HIDE DEF d, W, Data, Held, Ordered, Messages, InOrder, AllInOrder, Waiting, Unwritten
<1>7. /\ Held(Unwritten) = Messages(d) \cup Held(W)
      /\ Ordered(Unwritten) <=> InOrder(d) /\ Ordered(W) /\ Before(Messages(d), Held(W))
  <2> DEFINE P == <<d>>
  <2>1. P \in Seq(Data) /\ Held(P) = Messages(d) /\ (Ordered(P) <=> InOrder(d))
    BY <1>4, OnePart
  <2> HIDE DEF P
  <2>2. /\ Held(P \o W) = Held(P) \cup Held(W)
        /\ Ordered(P \o W) <=> Ordered(P) /\ Ordered(W) /\ Before(Held(P), Held(W))
    BY <1>4, <2>1, HeldJoined, PartsJoined
  <2> QED BY <1>4, <2>1, <2>2 DEF P
<1>8. /\ Held(Waiting) = Held(Unwritten) \cup Held(F) \cup Messages(b)
      /\ Ordered(Waiting) <=>
           /\ Ordered(Unwritten) /\ Ordered(F) /\ InOrder(b)
           /\ Before(Held(Unwritten), Held(F)) /\ Before(Held(Unwritten), Messages(b))
           /\ Before(Held(F), Messages(b))
  BY <1>1, WaitingParts
<1>9. /\ Held(Waiting)' = Held(W) \cup Held(F) \cup Messages(b)
      /\ Ordered(Waiting)' <=>
           /\ Ordered(W) /\ Ordered(F) /\ InOrder(b)
           /\ Before(Held(W), Held(F)) /\ Before(Held(W), Messages(b))
           /\ Before(Held(F), Messages(b))
  <2>1. fullBuffers' = F /\ currentBuffer'[1] = b
    BY <1>3
  <2> HIDE DEF F, b
  <2> QED BY <1>1, <1>6, <2>1, WaitingPartsNext DEF W
<1>10. /\ Ordered(L) /\ Ordered(Waiting) /\ Before(Held(L), Held(Waiting))
       /\ Held(L) \cup Held(Waiting) = 1 .. appended \ discarded
  BY <1>1, FilesAndWaiting
<1> HIDE DEF L, F, b
<1>11. Held(M) = Held(L) \cup Messages(d) /\ Ordered(M)
  <2>1. InOrder(d) /\ Before(Held(L), Messages(d))
    BY <1>7, <1>8, <1>10 DEF Before
  <2> QED BY <1>5, <1>10, <2>1 DEF Gains, L
<1> HIDE DEF M
<1>12. Ordered(Waiting)' /\ Before(Held(M), Held(Waiting)')
  BY <1>7, <1>8, <1>9, <1>10, <1>11 DEF Before
<1>13. Held(M) \cup Held(Waiting)' = 1 .. appended \ discarded
  BY <1>7, <1>8, <1>9, <1>10, <1>11
<1>14. AllInOrder'
  BY <1>1, <1>3, <1>6, <1>11, <1>12, <1>13, FilesAndWaitingNext DEF M
<1> QED BY <1>6, <1>14 DEF DataInv

\* What is not kept of a backlog is after what is kept, and before the rest.
LEMMA BacklogOrder == IInv /\ DataInv /\ Backlog => DataInv'
<1> SUFFICES ASSUME IInv, DataInv, Backlog PROVE DataInv'
  OBVIOUS
<1> DEFINE B == buffersToWrite
           n == Len(B)
           k == Kept(n)
           K == SubSeq(B, 1, k)
           D == SubSeq(B, k + 1, n)
           L == Parts(logfile)
           M == Parts(logfile')
           F == fullBuffers
           b == currentBuffer[1]
<1>1. TypeOK /\ PlaceInv /\ AllInOrder /\ TypeOK' /\ logfile \in LogFiles /\ now \in Nat
  BY BacklogKeeps DEF IInv, DataInv, TypeOK
<1>2. B \in Seq(Data) /\ n \in Nat /\ k \in 0 .. n
  <2>1. B \in Seq(Data)
    BY <1>1, WaitingType
  <2>2. n \in Nat
    BY <2>1, Elements
  <2> QED BY <2>1, <2>2, KeptEnough
<1>3. /\ B' = K /\ written' = 0 /\ pc = "backlog" /\ pc' = "write"
      /\ discarded' = discarded \cup UNION {Messages(B[q]) : q \in k + 1 .. n}
      /\ UNCHANGED <<appended, currentBuffer, fullBuffers, nextBuffer>>
  BY DEF Backlog, callerVars, shared
<1>4. Gains(logfile, logfile', <<>>)
  <2>1. CASE n > MaxBacklog
    <3>1. logfile' = Appended(logfile, <<Flag>>, now)
      BY <2>1 DEF Backlog, Log
    <3>2. Gains(logfile, logfile', <<Flag>>)
      BY <1>1, <3>1, NoMessage, AppendedGains DEF PlaceInv
    <3>3. Messages(<<Flag>>) = Messages(<<>>) /\ InOrder(<<Flag>>)
      BY NoMessage, NoPart
    <3> HIDE DEF Held, Ordered, Messages, InOrder
    <3> QED BY <3>2, <3>3 DEF Gains
  <2>2. CASE ~(n > MaxBacklog)
    <3>1. logfile' = logfile
      BY <2>2 DEF Backlog, fileVars
    <3> QED BY <1>1, <3>1, SameParts DEF PlaceInv
  <2> QED BY <2>1, <2>2
<1> HIDE DEF Data, k
<1>5. K \in Seq(Data) /\ D \in Seq(Data) /\ B = K \o D
  BY <1>2, Ends, CutInTwo
<1>6. UNION {Messages(B[q]) : q \in k + 1 .. n} = Held(D)
  <2>1. DOMAIN D = 1 .. n - k /\ \A q \in 1 .. n - k : D[q] = B[k + q]
    BY <1>2
  <2> HIDE DEF D, n, B
  <2>2. ASSUME NEW q \in k + 1 .. n PROVE Messages(B[q]) \subseteq Held(D)
    <3>1. q - k \in 1 .. n - k /\ k + (q - k) = q
      BY <1>2, <2>2
    <3>2. D[q - k] = B[q] /\ q - k \in DOMAIN D
      BY <2>1, <3>1
    <3> HIDE DEF Messages
    <3> QED BY <3>2 DEF Held
  <2>3. ASSUME NEW q \in DOMAIN D PROVE \E j \in k + 1 .. n : D[q] = B[j]
    <3>1. k + q \in k + 1 .. n /\ D[q] = B[k + q]
      BY <1>2, <2>1, <2>3
    <3> QED BY <3>1
  <2> HIDE DEF Messages
  <2>4. Held(D) \subseteq UNION {Messages(B[q]) : q \in k + 1 .. n}
    BY <2>3 DEF Held
  <2> QED BY <2>2, <2>4
<1>7. Unwritten = B /\ Unwritten' = K
  <2>1. written = 0
    BY <1>1, <1>3 DEF PlaceInv
  <2>2. Unwritten = SubSeq(B, 0 + 1, Len(B))
    BY <2>1 DEF Unwritten
  <2>3. Unwritten' = SubSeq(K, 0 + 1, Len(K))
    BY <1>3 DEF Unwritten
  <2> HIDE DEF K
  <2> QED BY <1>2, <1>5, <2>2, <2>3, NothingUnwritten
<1> HIDE DEF K, D, n, Held, Ordered, Messages, InOrder, AllInOrder, Waiting, Unwritten
<1>8. /\ Held(B) = Held(K) \cup Held(D)
      /\ Ordered(B) <=> Ordered(K) /\ Ordered(D) /\ Before(Held(K), Held(D))
  BY <1>5, HeldJoined, PartsJoined
<1>9. /\ Held(Waiting) = Held(B) \cup Held(F) \cup Messages(b)
      /\ Ordered(Waiting) <=>
           /\ Ordered(B) /\ Ordered(F) /\ InOrder(b)
           /\ Before(Held(B), Held(F)) /\ Before(Held(B), Messages(b))
           /\ Before(Held(F), Messages(b))
  BY <1>1, <1>7, WaitingParts
<1>10. /\ Ordered(L) /\ Ordered(Waiting) /\ Before(Held(L), Held(Waiting))
       /\ Held(L) \cup Held(Waiting) = 1 .. appended \ discarded
  BY <1>1, FilesAndWaiting
<1>11. PlaceInv'
  <2>1. Held(D) \subseteq 1 .. appended
    BY <1>8, <1>9, <1>10
  <2>2. Len(B') \in Nat
    BY <1>3, <1>5, Elements
  <2>3. logfile'.files # <<>>
    BY <1>4 DEF Gains
  <2>4. discarded' \subseteq 1 .. appended'
    BY <1>1, <1>3, <1>6, <2>1 DEF PlaceInv
  <2>5. written' = 0 /\ pc' = "write" /\ nextBuffer' \in {Null, Fresh}
    BY <1>1, <1>3 DEF PlaceInv
  <2> QED BY <2>2, <2>3, <2>4, <2>5 DEF PlaceInv
<1>12. /\ Held(Waiting)' = Held(K) \cup Held(F) \cup Messages(b)
       /\ Ordered(Waiting)' <=>
           /\ Ordered(K) /\ Ordered(F) /\ InOrder(b)
           /\ Before(Held(K), Held(F)) /\ Before(Held(K), Messages(b))
           /\ Before(Held(F), Messages(b))
  <2>1. fullBuffers' = F /\ currentBuffer'[1] = b
    BY <1>3
  <2> HIDE DEF F, b
  <2> QED BY <1>1, <1>7, <1>11, <2>1, WaitingPartsNext
<1>13. Held(M) = Held(L) /\ Ordered(M)
  <2>1. Messages(<<>>) = {} /\ InOrder(<<>>) /\ Before(Held(L), {})
    BY NoPart DEF Before
  <2> QED BY <1>4, <1>10, <2>1 DEF Gains
<1> HIDE DEF L, M, F, b, B
<1>14. Ordered(Waiting)' /\ Before(Held(M), Held(Waiting)')
  BY <1>8, <1>9, <1>10, <1>12, <1>13 DEF Before
<1>15. Held(M) \cup Held(Waiting)' = (Held(L) \cup Held(Waiting)) \ Held(D)
  <2>1. \A m \in Held(D) : m \in Nat
    <3>1. Held(D) \subseteq 1 .. appended
      BY <1>8, <1>9, <1>10
    <3> QED BY <3>1
  <2>2. \A m \in Held(D) :
          m \notin Held(L) /\ m \notin Held(K) /\ m \notin Held(F) /\ m \notin Messages(b)
    BY <1>8, <1>9, <1>10, <2>1 DEF Before
  <2> QED BY <1>8, <1>9, <1>12, <1>13, <2>2
<1>16. Held(M) \cup Held(Waiting)' = 1 .. appended' \ discarded'
  <2>1. discarded' = discarded \cup Held(D) /\ appended' = appended
    BY <1>3, <1>6
  <2> QED BY <1>10, <1>15, <2>1
<1>17. AllInOrder'
  BY <1>1, <1>11, <1>13, <1>14, <1>16, FilesAndWaitingNext DEF M
<1> QED BY <1>11, <1>17 DEF DataInv

LEMMA InitOrder == Init => DataInv
<1> SUFFICES ASSUME Init PROVE DataInv
  OBVIOUS
<1>1. /\ TypeOK /\ logfile = NewLogFile(0) /\ appended = 0 /\ discarded = {}
      /\ buffersToWrite = <<>> /\ written = 0 /\ fullBuffers = <<>>
      /\ currentBuffer = << <<>> >> /\ currentBuffer[1] = <<>>
      /\ nextBuffer = Fresh /\ pc = "test"
  BY InitIInv DEF IInv, Init, Fresh, Ptr
<1>2. PlaceInv
  <2>1. Len(buffersToWrite) = 0
    BY <1>1
  <2> QED BY <1>1, <2>1, NewLogFileHolds DEF PlaceInv
<1>3. Unwritten = <<>>
  <2>1. Unwritten = SubSeq(<<>>, 0 + 1, Len(<<>>))
    BY <1>1 DEF Unwritten
  <2>2. <<>> \in Seq(Data)
    BY NoPart
  <2> HIDE DEF Data
  <2> QED BY <2>1, <2>2, NothingUnwritten
<1>4. /\ Held(<<>>) = {} /\ Ordered(<<>>) /\ Messages(<<>>) = {} /\ InOrder(<<>>)
      /\ \A M : Before(M, {}) /\ Before({}, M)
  BY NoPart DEF Before
<1> HIDE DEF Held, Ordered, Messages, InOrder
<1>5. Held(Waiting) = {} /\ Ordered(Waiting)
  BY <1>1, <1>2, <1>3, <1>4, WaitingParts
<1>6. 1 .. appended \ discarded = {}
  BY <1>1
<1>7. AllInOrder
  BY <1>1, <1>2, <1>4, <1>5, <1>6, NewLogFileHolds, FilesAndWaiting
<1> QED BY <1>2, <1>7 DEF DataInv

LEMMA NextOrder == IInv /\ DataInv /\ [Next]_vars => DataInv'
<1> SUFFICES ASSUME IInv, DataInv, [Next]_vars PROVE DataInv'
  OBVIOUS
<1>0. TypeOK /\ TypeOK' /\ PlaceInv
  BY NextIInv DEF IInv, DataInv
<1>1. CASE AppendMessage
  BY <1>1, AppendOrder
<1>2. CASE Enter
  BY <1>2, TakeOrder DEF Enter
<1>3. CASE WakeUp
  BY <1>3, TakeOrder DEF WakeUp
<1>4. CASE Backlog
  BY <1>4, BacklogOrder
<1>5. CASE Write
  BY <1>5, WriteOrder
<1>6. CASE Recycle
  BY <1>6, RecycleOrder
\* The other steps leave the buffers alone.
<1>7. CASE Stop \/ Test \/ StartWait \/ WriteDone \/ Tick \/ UNCHANGED vars
  <2>1. /\ UNCHANGED <<currentBuffer, fullBuffers, nextBuffer, buffersToWrite, written,
                       appended, discarded>>
        /\ UNCHANGED logfile \/ logfile' = Flushed(logfile)
        /\ pc' = pc \/ (pc' \in {"enter", "done", "wait"} /\ pc \notin {"write", "recycle"})
             \/ (pc' = "recycle" /\ written = Len(buffersToWrite))
    BY <1>7 DEF Stop, Test, StartWait, WriteDone, Tick, FlushLog, vars, callerVars, shared, fileVars
  <2>2. UNCHANGED logfile \/ Gains(logfile, logfile', <<>>)
    <3>1. logfile \in LogFiles /\ logfile.files # <<>>
      BY <1>0 DEF TypeOK, PlaceInv
    <3> QED BY <2>1, <3>1, FlushedGains
  <2>3. PlaceInv'
    <3>1. logfile'.files # <<>>
      BY <1>0, <2>2 DEF PlaceInv, Gains
    <3> QED BY <1>0, <2>1, <3>1 DEF PlaceInv
  <2>4. Waiting' = Waiting
    BY <2>1 DEF Waiting, Unwritten
  <2> HIDE DEF Waiting, Held, Ordered
  <2> QED BY <1>0, <2>1, <2>2, <2>3, <2>4, SameOrder
<1> QED BY <1>1, <1>2, <1>3, <1>4, <1>5, <1>6, <1>7 DEF Next, Consumer

\* Whatever is logged, by any number of threads and while buffers are swapped,
\* written and recycled and files are rolled, no message is lost, repeated or
\* overtaken but for those thrown away on a backlog.
THEOREM MessagesInOrder == Spec => []AllInOrder
<1>1. Spec => []DataInv
  BY InitOrder, NextOrder, Invariant, PTL DEF Spec
<1>2. DataInv => AllInOrder
  BY DEF DataInv
<1> QED BY <1>1, <1>2, PTL

-----------------------------------------------------------------------------
(* A log statement.                                                        *)

(***************************************************************************)
(* One piece: what is put keeps a byte free behind it, and is left out     *)
(* only when the line has become too long (FixedBuffer::append,            *)
(* formatInterger).                                                        *)
(***************************************************************************)
LEMMA PutKeepsRoom ==
  ASSUME Sizes, NEW buffer \in Seq(Char), Len(buffer) < BufferSize, NEW piece \in Piece
  PROVE  Put(buffer, piece) \in Seq(Char) /\ Len(Put(buffer, piece)) < BufferSize
<1>1. /\ piece.text \in Seq(Char) /\ Len(piece.text) \in Nat /\ Len(buffer) \in Nat
      /\ piece.numeric \in BOOLEAN
      /\ piece.numeric => Len(piece.text) < kMaxNumericSize
  BY DEF Piece
<1>2. buffer \o piece.text \in Seq(Char)
      /\ Len(buffer \o piece.text) = Len(buffer) + Len(piece.text)
  BY <1>1
<1>3. BufferSize \in Nat /\ kMaxNumericSize \in Nat
  BY DEF Sizes
<1>4. FitsIntoLine(buffer, piece) => Len(buffer) + Len(piece.text) < BufferSize
  <2>1. CASE piece.numeric
    BY <1>1, <1>3, <2>1 DEF FitsIntoLine, Avail
  <2>2. CASE ~piece.numeric
    BY <1>1, <1>3, <2>2 DEF FitsIntoLine, Avail
  <2> QED BY <2>1, <2>2
<1> QED BY <1>2, <1>4 DEF Put

LEMMA PutKeepsWhole ==
  ASSUME Sizes, NEW buffer \in Seq(Char), NEW all \in Seq(Char), IsWhole(buffer, all),
         NEW piece \in Piece
  PROVE  all \o piece.text \in Seq(Char) /\ IsWhole(Put(buffer, piece), all \o piece.text)
<1>1. /\ piece.text \in Seq(Char) /\ Len(piece.text) \in Nat /\ Len(all) \in Nat
      /\ piece.numeric \in BOOLEAN
  BY DEF Piece
<1>2. all \o piece.text \in Seq(Char)
      /\ Len(all \o piece.text) = Len(all) + Len(piece.text)
  BY <1>1
<1>3. /\ BufferSize \in Nat /\ kMaxNumericSize \in Nat
      /\ kMaxNumericSize < BufferSize /\ 0 < kMaxNumericSize
  BY DEF Sizes
<1>4. SUFFICES ASSUME Len(all) + Len(piece.text) <= BufferSize - kMaxNumericSize
               PROVE  Put(buffer, piece) = all \o piece.text
  BY <1>2 DEF IsWhole
<1>5. buffer = all
  BY <1>1, <1>3, <1>4 DEF IsWhole
<1>6. FitsIntoLine(buffer, piece)
  <2>1. CASE piece.numeric
    BY <1>1, <1>3, <1>4, <1>5, <2>1 DEF FitsIntoLine, Avail
  <2>2. CASE ~piece.numeric
    BY <1>1, <1>3, <1>4, <1>5, <2>2 DEF FitsIntoLine, Avail
  <2> QED BY <2>1, <2>2
<1> QED BY <1>5, <1>6 DEF Put

LEMMA TextIsPiece ==
  ASSUME NEW s \in Seq(Char)
  PROVE  Text(s) \in Piece
BY DEF Text, Piece

-----------------------------------------------------------------------------
LineInv == LineTypes /\ RoomForTerminator /\ LinesAreWhole

LEMMA InitInv == Sizes /\ LogInit => LineInv
<1> SUFFICES ASSUME Sizes, LogInit PROVE LineInv
  OBVIOUS
<1>1. LineTypes
  <2>1. INFO \in Levels
    BY DEF INFO, Levels, DEBUG, NONLOG
  <2> QED BY <2>1 DEF LogInit, LineTypes
<1>2. RoomForTerminator
  <2>1. BufferSize \in Nat /\ 0 < BufferSize
    BY DEF Sizes
  <2>2. \A t \in Threads : stream[t] = <<>>
    BY DEF LogInit
  <2>3. Len(<<>>) = 0
    OBVIOUS
  <2> QED BY <2>1, <2>2, <2>3 DEF RoomForTerminator
<1>3. LinesAreWhole
  BY DEF LogInit, LinesAreWhole, IsWhole
<1> QED BY <1>1, <1>2, <1>3 DEF LineInv

\* What a thread that puts a piece keeps.
LEMMA PutPieceInv ==
  ASSUME Sizes, LineInv, NEW t \in Threads, NEW piece \in Piece, PutPiece(t, piece),
         UNCHANGED output
  PROVE  /\ stream' \in [Threads -> Seq(Char)] /\ put' \in [Threads -> Seq(Char)]
         /\ RoomForTerminator' /\ LinesAreWhole'
<1>1. stream \in [Threads -> Seq(Char)] /\ put \in [Threads -> Seq(Char)]
  BY DEF LineInv, LineTypes
<1>2. Len(stream[t]) < BufferSize /\ IsWhole(stream[t], put[t])
  BY DEF LineInv, RoomForTerminator, LinesAreWhole
<1>3. Put(stream[t], piece) \in Seq(Char) /\ Len(Put(stream[t], piece)) < BufferSize
  BY <1>1, <1>2, PutKeepsRoom
<1>4. /\ put[t] \o piece.text \in Seq(Char)
      /\ IsWhole(Put(stream[t], piece), put[t] \o piece.text)
  BY <1>1, <1>2, PutKeepsWhole
<1>5. /\ stream' = [stream EXCEPT ![t] = Put(stream[t], piece)]
      /\ put' = [put EXCEPT ![t] = put[t] \o piece.text]
  BY DEF PutPiece
<1>6. stream' \in [Threads -> Seq(Char)] /\ put' \in [Threads -> Seq(Char)]
  BY <1>1, <1>3, <1>4, <1>5
<1>7. RoomForTerminator'
  BY <1>1, <1>3, <1>5 DEF LineInv, RoomForTerminator
<1>8. \A u \in Threads : IsWhole(stream'[u], put'[u])
  BY <1>1, <1>4, <1>5 DEF LineInv, LinesAreWhole
<1>9. LinesAreWhole'
  BY <1>8 DEF LineInv, LinesAreWhole, IsWhole
<1> QED BY <1>6, <1>7, <1>9

\* What a thread that starts a statement keeps.
LEMMA StartStatementInv ==
  ASSUME Sizes, LineInv, NEW t \in Threads, NEW l \in Levels, StartStatement(t, l)
  PROVE  /\ stream' \in [Threads -> Seq(Char)] /\ put' \in [Threads -> Seq(Char)]
         /\ level' \in [Threads -> Levels]
         /\ RoomForTerminator' /\ LinesAreWhole'
<1>1. /\ stream \in [Threads -> Seq(Char)] /\ put \in [Threads -> Seq(Char)]
      /\ level \in [Threads -> Levels]
  BY DEF LineInv, LineTypes
<1>2. /\ stream' = [stream EXCEPT ![t] = <<>>] /\ put' = [put EXCEPT ![t] = <<>>]
      /\ level' = [level EXCEPT ![t] = l] /\ output' = output
  BY DEF StartStatement
<1>3. 0 < BufferSize /\ BufferSize \in Nat
  BY DEF Sizes
<1>4. RoomForTerminator'
  BY <1>1, <1>2, <1>3 DEF LineInv, RoomForTerminator
<1>5. \A u \in Threads : IsWhole(stream'[u], put'[u])
  BY <1>1, <1>2 DEF LineInv, LinesAreWhole, IsWhole
<1>6. LinesAreWhole'
  BY <1>2, <1>5 DEF LineInv, LinesAreWhole, IsWhole
<1> QED BY <1>1, <1>2, <1>4, <1>6

\* The prefix is made of pieces.
LEMMA PrefixPieces ==
  ASSUME Sizes, NEW t \in Threads, NEW l \in Levels, NEW usec \in Microseconds,
         NEW time \in Seq(Char)
  PROVE  Prefix(t, time, usec, l) \in Seq(Piece)
<1>1. Text(time) \in Piece
  BY TextIsPiece
<1>2. Text(TidText(t)) \in Piece /\ Text(LevelName(l)) \in Piece
  BY TextIsPiece DEF Sizes
<1>3. usec \in Piece
  BY DEF Sizes
<1> QED BY <1>1, <1>2, <1>3 DEF Prefix

LEMMA StepInv ==
  ASSUME Sizes, LineInv, [LogNext]_logVars
  PROVE  LineInv'
<1>1. ASSUME NEW l \in Levels, SetLogLevel(l) PROVE LineInv'
  BY <1>1 DEF SetLogLevel, LineInv, LineTypes, RoomForTerminator, LinesAreWhole, IsWhole
<1>2. ASSUME NEW s \in Nat, SetClock(s) PROVE LineInv'
  BY <1>2 DEF SetClock, LineInv, LineTypes, RoomForTerminator, LinesAreWhole, IsWhole
<1>3. CASE NameFile
  BY <1>3 DEF NameFile, LineInv, LineTypes, RoomForTerminator, LinesAreWhole, IsWhole
<1>4. ASSUME NEW t \in Threads, NEW l \in Levels, NewSecond(t, l) PROVE LineInv'
  <2>1. StartStatement(t, l)
    BY <1>4 DEF NewSecond
  <2>2. /\ stream' \in [Threads -> Seq(Char)] /\ put' \in [Threads -> Seq(Char)]
        /\ level' \in [Threads -> Levels]
        /\ RoomForTerminator' /\ LinesAreWhole'
    BY <2>1, StartStatementInv
  <2>3. LineTypes'
    BY <1>4, <2>1, <2>2 DEF NewSecond, StartStatement, LineInv, LineTypes
  <2> QED BY <2>2, <2>3 DEF LineInv
<1>5. ASSUME NEW t \in Threads, NEW usec \in Microseconds, FormatTime(t, usec) PROVE LineInv'
  <2>1. TimeText(tm) \in Seq(Char) /\ level[t] \in Levels
    BY DEF LineInv, LineTypes, Sizes
  <2>2. Prefix(t, TimeText(tm), usec, level[t]) \in Seq(Piece)
    BY <2>1, PrefixPieces
  <2>3. timeText' \in [Threads -> Seq(Char)] /\ rest' \in [Threads -> Seq(Piece)]
    BY <1>5, <2>1, <2>2 DEF FormatTime, LineInv, LineTypes
  <2>4. LineTypes'
    BY <1>5, <2>3 DEF FormatTime, LineInv, LineTypes
  <2>5. RoomForTerminator' /\ LinesAreWhole'
    BY <1>5 DEF FormatTime, LineInv, RoomForTerminator, LinesAreWhole, IsWhole
  <2> QED BY <2>4, <2>5 DEF LineInv
<1>6. ASSUME NEW t \in Threads, NEW l \in Levels, NEW usec \in Microseconds,
             SameSecond(t, l, usec)
      PROVE  LineInv'
  <2>1. StartStatement(t, l)
    BY <1>6 DEF SameSecond
  <2>2. /\ stream' \in [Threads -> Seq(Char)] /\ put' \in [Threads -> Seq(Char)]
        /\ level' \in [Threads -> Levels]
        /\ RoomForTerminator' /\ LinesAreWhole'
    BY <2>1, StartStatementInv
  <2>3. timeText[t] \in Seq(Char)
    BY DEF LineInv, LineTypes
  <2>4. Prefix(t, timeText[t], usec, l) \in Seq(Piece)
    BY <2>3, PrefixPieces
  <2>5. rest' \in [Threads -> Seq(Piece)]
    BY <1>6, <2>4 DEF SameSecond, LineInv, LineTypes
  <2>6. LineTypes'
    BY <1>6, <2>1, <2>2, <2>5 DEF SameSecond, StartStatement, LineInv, LineTypes
  <2> QED BY <2>2, <2>6 DEF LineInv
<1>7. ASSUME NEW t \in Threads, PutNext(t) PROVE LineInv'
  <2>1. rest[t] \in Seq(Piece) /\ rest[t] # <<>>
    BY <1>7 DEF PutNext, LineInv, LineTypes
  <2>2. Head(rest[t]) \in Piece /\ Tail(rest[t]) \in Seq(Piece)
    BY <2>1
  <2>3. PutPiece(t, Head(rest[t])) /\ output' = output
    BY <1>7 DEF PutNext
  <2>4. /\ stream' \in [Threads -> Seq(Char)] /\ put' \in [Threads -> Seq(Char)]
        /\ RoomForTerminator' /\ LinesAreWhole'
    BY <2>2, <2>3, PutPieceInv
  <2>5. rest' \in [Threads -> Seq(Piece)]
    BY <1>7, <2>2 DEF PutNext, LineInv, LineTypes
  <2>6. LineTypes'
    BY <1>7, <2>4, <2>5 DEF PutNext, LineInv, LineTypes
  <2> QED BY <2>4, <2>6 DEF LineInv
<1>8. ASSUME NEW t \in Threads, NEW piece \in Pieces, PutOwn(t, piece) PROVE LineInv'
  <2>1. piece \in Piece
    BY DEF Sizes
  <2>2. PutPiece(t, piece) /\ output' = output
    BY <1>8 DEF PutOwn
  <2>3. /\ stream' \in [Threads -> Seq(Char)] /\ put' \in [Threads -> Seq(Char)]
        /\ RoomForTerminator' /\ LinesAreWhole'
    BY <2>1, <2>2, PutPieceInv
  <2>4. LineTypes'
    BY <1>8, <2>3 DEF PutOwn, LineInv, LineTypes
  <2> QED BY <2>3, <2>4 DEF LineInv
<1>9. ASSUME NEW t \in Threads, Finish(t) PROVE LineInv'
  <2>1. Place \in Seq(Piece)
    BY DEF Sizes
  <2>2. LineTypes'
    BY <1>9, <2>1 DEF Finish, LineInv, LineTypes
  <2>3. RoomForTerminator' /\ LinesAreWhole'
    BY <1>9 DEF Finish, LineInv, RoomForTerminator, LinesAreWhole, IsWhole
  <2> QED BY <2>2, <2>3 DEF LineInv
<1>10. ASSUME NEW t \in Threads, Output(t) PROVE LineInv'
  <2> DEFINE new == [line |-> stream[t], put |-> put[t]]
  <2>1. new \in Lines /\ output \in Seq(Lines) /\ IsWhole(new.line, new.put)
    BY DEF LineInv, LineTypes, Lines, LinesAreWhole
  <2> HIDE DEF new
  <2>2. output' = Append(output, new)
    BY <1>10 DEF Output, new
  <2>3. output' \in Seq(Lines)
    BY <2>1, <2>2
  <2>4. LineTypes'
    BY <1>10, <2>3 DEF Output, LineInv, LineTypes
  <2>5. \A k \in DOMAIN output' : IsWhole(output'[k].line, output'[k].put)
    <3> SUFFICES ASSUME NEW k \in DOMAIN output'
                 PROVE  IsWhole(output'[k].line, output'[k].put)
      OBVIOUS
    <3>1. CASE k \in DOMAIN output
      <4>1. output'[k] = output[k]
        BY <2>1, <2>2, <3>1
      <4> QED BY <4>1, <3>1 DEF LineInv, LinesAreWhole
    <3>2. CASE k \notin DOMAIN output
      <4>1. output'[k] = new
        BY <2>1, <2>2, <3>2
      <4> QED BY <4>1, <2>1
    <3> QED BY <3>1, <3>2
  <2>6. stream' = stream /\ put' = put
    BY <1>10 DEF Output
  <2>7. RoomForTerminator' /\ LinesAreWhole'
    BY <2>5, <2>6 DEF LineInv, RoomForTerminator, LinesAreWhole, IsWhole
  <2> QED BY <2>4, <2>7 DEF LineInv
<1>11. CASE UNCHANGED logVars
  BY <1>11 DEF logVars, LineInv, LineTypes, RoomForTerminator, LinesAreWhole, IsWhole
<1> QED
  BY <1>1, <1>2, <1>3, <1>4, <1>5, <1>6, <1>7, <1>8, <1>9, <1>10, <1>11 DEF LogNext

LEMMA InvHolds == ASSUME Sizes PROVE LogSpec => []LineInv
<1>1. LogInit => LineInv
  BY InitInv
<1>2. LineInv /\ [LogNext]_logVars => LineInv'
  BY StepInv
<1> QED BY <1>1, <1>2, PTL DEF LogSpec

(***************************************************************************)
(* Whatever a statement puts, its line stays within the buffer and leaves  *)
(* room for the terminator that the formatting of numbers writes behind    *)
(* it (FixedBuffer::append, LogStream::formatInterger).                    *)
(***************************************************************************)
THEOREM LinesStayInBuffer == ASSUME Sizes PROVE LogSpec => []RoomForTerminator
<1>1. LineInv => RoomForTerminator
  BY DEF LineInv
<1> QED BY <1>1, InvHolds, PTL

(***************************************************************************)
(* A line that is no longer than the buffer holds beside a number has all  *)
(* its pieces, in order, up to the newline that ends it (Impl::finish).    *)
(***************************************************************************)
THEOREM ShortLinesAreWhole == ASSUME Sizes PROVE LogSpec => []LinesAreWhole
<1>1. LineInv => LinesAreWhole
  BY DEF LineInv
<1> QED BY <1>1, InvHolds, PTL

-----------------------------------------------------------------------------
(* The loop that writes a number.  What is left of it and what has been    *)
(* written together are the number.                                        *)
DigitsInv ==
  /\ i \in Int
  /\ digits \in Seq(0 .. Base - 1)
  /\ loop \in {"do", "done"}
  /\ weight \in Nat /\ shown \in Nat
  /\ Magnitude(value) = Magnitude(i) * weight + shown
  /\ loop = "done" => i = 0

-----------------------------------------------------------------------------
(* A turn divides what is left, and its last digit is written.  C's signed *)
(* quotient and the table's mirrored digits are those of the magnitude.    *)
LEMMA TurnDivides ==
  ASSUME NEW base \in Nat, base > 1, NEW n \in Int
  PROVE  /\ Quotient(n, base) \in Int
         /\ Digit(Remainder(n, base)) \in 0 .. base - 1
         /\ Magnitude(Quotient(n, base)) \in Nat
         /\ Magnitude(Quotient(n, base)) = Magnitude(n) \div base
         /\ Magnitude(n) =
              base * Magnitude(Quotient(n, base)) + Digit(Remainder(n, base))
<1> DEFINE m == Magnitude(n)
<1>1. m \in Nat
  BY DEF Magnitude
<1>2. m \div base \in Nat /\ m % base \in 0 .. base - 1
  BY <1>1, Z3
<1>3. m = base * (m \div base) + (m % base)
  BY <1>1, Z3
<1>4. Quotient(n, base) = IF n >= 0 THEN m \div base ELSE -(m \div base)
  BY DEF Quotient, Magnitude
<1>5. Remainder(n, base) = IF n >= 0 THEN m % base ELSE -(m % base)
  BY DEF Remainder, Magnitude
<1>6. Digit(Remainder(n, base)) = m % base
  <2> HIDE DEF m
  <2> DEFINE r == m % base
  <2>1. r \in Nat /\ Remainder(n, base) = IF n >= 0 THEN r ELSE -r
    BY <1>2, <1>5
  <2> HIDE DEF r
  <2>2. Digit(Remainder(n, base)) = r
    BY <2>1 DEF Digit
  <2> QED BY <2>2 DEF r
<1>7. Magnitude(Quotient(n, base)) = m \div base /\ Quotient(n, base) \in Int
  <2> HIDE DEF m
  <2> DEFINE q == m \div base
  <2>1. q \in Nat /\ Quotient(n, base) = IF n >= 0 THEN q ELSE -q
    BY <1>2, <1>4
  <2> HIDE DEF q
  <2>2. Magnitude(Quotient(n, base)) = q /\ Quotient(n, base) \in Int
    BY <2>1 DEF Magnitude
  <2> QED BY <2>2 DEF q
<1> QED BY <1>1, <1>2, <1>3, <1>6, <1>7

LEMMA TurnKeepsSum ==
  ASSUME NEW base \in Nat, NEW n \in Nat, NEW q \in Nat, NEW r \in Nat,
         n = base * q + r, NEW w \in Nat, NEW s \in Nat
  PROVE  n * w + s = q * (base * w) + (s + r * w)
<1>1. n * w = base * q * w + r * w
  BY Z3
<1>2. q * (base * w) = base * q * w
  BY Z3
<1>3. n * w \in Nat /\ base * q * w \in Nat /\ r * w \in Nat
  BY Z3
<1> QED BY <1>1, <1>2, <1>3, Z3

LEMMA Cancelled ==
  ASSUME NEW b \in Nat, NEW q \in Nat, NEW r \in Nat, NEW x \in Nat,
         b * q + r < b * x
  PROVE  q < x
<1> SUFFICES ASSUME q >= x PROVE FALSE
  OBVIOUS
<1>1. PICK d \in Nat : q = x + d
  <2>1. q - x \in Nat /\ q = x + (q - x)
    OBVIOUS
  <2> QED BY <2>1
<1>2. b * q = b * x + b * d
  BY <1>1, Z3
<1>3. b * x \in Nat /\ b * d \in Nat /\ b * q \in Nat
  BY <1>1, Z3
<1> QED BY <1>2, <1>3

LEMMA DigitsInvHolds ==
  ASSUME value \in Int, Base \in Nat, Base > 1
  PROVE  ConvertSpec => []DigitsInv
<1>1. ConvertInit => DigitsInv
  <2> SUFFICES ASSUME ConvertInit PROVE DigitsInv
    OBVIOUS
  <2>1. Magnitude(value) \in Nat
    BY DEF Magnitude
  <2>2. Magnitude(value) = Magnitude(value) * 1 + 0
    BY <2>1
  <2> QED BY <2>2 DEF ConvertInit, DigitsInv
<1>2. DigitsInv /\ [ConvertNext]_convertVars => DigitsInv'
  <2> SUFFICES ASSUME DigitsInv, [ConvertNext]_convertVars PROVE DigitsInv'
    OBVIOUS
  <2>1. CASE Turn
    <3> DEFINE r == Digit(Remainder(i, Base))
    <3>1. i \in Int /\ weight \in Nat /\ shown \in Nat
      BY DEF DigitsInv
    <3>2. /\ i' = Quotient(i, Base)
          /\ shown' = shown + r * weight
          /\ weight' = Base * weight
          /\ digits' = Append(digits, r)
          /\ loop' = IF i' # 0 THEN "do" ELSE "done"
      BY <2>1 DEF Turn
    <3>3. /\ i' \in Int /\ r \in 0 .. Base - 1
          /\ Magnitude(i') \in Nat
          /\ Magnitude(i) = Base * Magnitude(i') + r
      BY <3>1, <3>2, TurnDivides
    <3>4. Magnitude(i) \in Nat
      BY <3>1 DEF Magnitude
    <3> HIDE DEF r
    <3>5. r \in Nat
      BY <3>3
    <3>6. r * weight \in Nat /\ Base * weight \in Nat
      BY <3>1, <3>5, Z3
    <3>7. weight' \in Nat /\ shown' \in Nat
      BY <3>1, <3>2, <3>6
    <3>8. Magnitude(i) * weight + shown = Magnitude(i') * weight' + shown'
      <4> DEFINE n == Magnitude(i)
                 q == Magnitude(i')
      <4>1. n \in Nat /\ q \in Nat /\ n = Base * q + r
        BY <3>3, <3>4
      <4> HIDE DEF n, q
      <4>2. n * weight + shown = q * (Base * weight) + (shown + r * weight)
        BY <4>1, <3>1, <3>5, TurnKeepsSum
      <4> QED BY <4>2, <3>2 DEF n, q
    <3>9. Magnitude(value) = Magnitude(i') * weight' + shown'
      BY <3>8 DEF DigitsInv
    <3>10. digits' \in Seq(0 .. Base - 1)
      BY <3>2, <3>3 DEF DigitsInv
    <3> QED BY <3>2, <3>3, <3>7, <3>9, <3>10 DEF DigitsInv
  <2>2. CASE UNCHANGED convertVars
    BY <2>2 DEF DigitsInv, convertVars, Magnitude
  <2> QED BY <2>1, <2>2 DEF ConvertNext
<1> QED BY <1>1, <1>2, PTL DEF ConvertSpec

(***************************************************************************)
(* What LogStream writes for a number is that number (convertInt): for     *)
(* every value of every type, negative or not, and in either base.         *)
(***************************************************************************)
THEOREM DigitsAreTheNumber ==
  ASSUME value \in Int, Base \in Nat, Base > 1
  PROVE  ConvertSpec => []ShowsValue
<1>1. DigitsInv => ShowsValue
  <2> SUFFICES ASSUME DigitsInv, loop = "done" PROVE Magnitude(value) = shown
    BY DEF ShowsValue
  <2>1. Magnitude(i) = 0 /\ weight \in Nat /\ shown \in Nat
    BY DEF DigitsInv, Magnitude
  <2>2. 0 * weight + shown = shown
    BY <2>1
  <2> QED BY <2>1, <2>2 DEF DigitsInv
<1> QED BY <1>1, DigitsInvHolds, PTL

-----------------------------------------------------------------------------
(* The number of digits: what is left has that many digits fewer.          *)
BoundInv(Power, most) ==
  /\ DigitsInv
  /\ Len(digits) <= most
  /\ loop = "do" => Len(digits) < most
  /\ Magnitude(i) < Power[most - Len(digits)]

(***************************************************************************)
(* A number below Base to the power of most is written with most digits at *)
(* most: with 20 digits for an integer of 64 bits, and 16 for an address,  *)
(* the 32 bytes that formatInterger and operator<<(const void* ) make sure *)
(* of are enough for them, the sign or the prefix, and the terminator.     *)
(***************************************************************************)
THEOREM DigitsFit ==
  ASSUME value \in Int, Base \in Nat, Base > 1,
         NEW Power \in [Nat -> Nat],
         Power[0] = 1, \A n \in Nat : Power[n + 1] = Base * Power[n],
         NEW most \in Nat \ {0}, Magnitude(value) < Power[most]
  PROVE  ConvertSpec => []FitsIn(most + 2)
<1>1. ConvertInit => BoundInv(Power, most)
  <2> SUFFICES ASSUME ConvertInit PROVE BoundInv(Power, most)
    OBVIOUS
  <2>1. Magnitude(value) \in Nat
    BY DEF Magnitude
  <2>2. Magnitude(value) = Magnitude(value) * 1 + 0
    BY <2>1
  <2>3. DigitsInv
    BY <2>2 DEF ConvertInit, DigitsInv
  <2>4. Len(digits) = 0 /\ i = value /\ most - 0 = most
    BY DEF ConvertInit
  <2> QED BY <2>3, <2>4 DEF ConvertInit, BoundInv
<1>2. DigitsInv' /\ BoundInv(Power, most) /\ [ConvertNext]_convertVars => BoundInv(Power, most)'
  <2> SUFFICES ASSUME DigitsInv', BoundInv(Power, most), [ConvertNext]_convertVars
               PROVE  BoundInv(Power, most)'
    OBVIOUS
  <2>1. CASE Turn
    <3> DEFINE left == most - Len(digits) - 1
    <3>1. /\ i \in Int /\ digits \in Seq(0 .. Base - 1)
          /\ Len(digits) \in Nat /\ Len(digits) < most
      BY <2>1 DEF BoundInv, DigitsInv, Turn
    <3>2. left \in Nat /\ most - Len(digits) = left + 1
      BY <3>1
    <3>3. digits' = Append(digits, Digit(Remainder(i, Base)))
          /\ i' = Quotient(i, Base)
          /\ loop' = IF i' # 0 THEN "do" ELSE "done"
      BY <2>1 DEF Turn
    <3>4. Len(digits') = Len(digits) + 1
      BY <3>1, <3>3
    <3>5. most - Len(digits') = left
      BY <3>1, <3>4
    <3> HIDE DEF left
    <3>6. Power[left] \in Nat /\ Magnitude(i) < Base * Power[left]
      BY <3>2 DEF BoundInv
    <3>7. /\ Magnitude(i') \in Nat /\ Digit(Remainder(i, Base)) \in Nat
          /\ Magnitude(i) = Base * Magnitude(i') + Digit(Remainder(i, Base))
      BY <3>1, <3>3, TurnDivides
    <3>8. Magnitude(i') < Power[left]
      <4> DEFINE q == Magnitude(i')
                 r == Digit(Remainder(i, Base))
                 x == Power[left]
      <4>1. q \in Nat /\ r \in Nat /\ x \in Nat /\ Base * q + r < Base * x
        BY <3>6, <3>7
      <4> HIDE DEF q, r, x
      <4>2. q < x
        BY <4>1, Cancelled
      <4> QED BY <4>2 DEF q, x
    <3>9. loop' = "do" => left # 0
      <4> SUFFICES ASSUME left = 0 PROVE i' = 0
        BY <3>3
      <4>1. Magnitude(i') < 1
        BY <3>8
      <4>2. \A n \in Int : Magnitude(n) < 1 => n = 0
        BY DEF Magnitude
      <4>3. i' \in Int
        BY DEF DigitsInv
      <4> QED BY <4>1, <4>2, <4>3
    <3>10. Len(digits') <= most /\ (loop' = "do" => Len(digits') < most)
      BY <3>1, <3>2, <3>4, <3>9
    <3> QED BY <3>5, <3>8, <3>10 DEF BoundInv
  <2>2. CASE UNCHANGED convertVars
    BY <2>2 DEF BoundInv, convertVars, Magnitude
  <2> QED BY <2>1, <2>2 DEF ConvertNext
<1>3. BoundInv(Power, most) => FitsIn(most + 2)
  <2> SUFFICES ASSUME BoundInv(Power, most) PROVE FitsIn(most + 2)
    OBVIOUS
  <2>1. Len(digits) \in Nat /\ Len(digits) <= most
    BY DEF BoundInv, DigitsInv
  <2>2. CASE value < 0
    BY <2>1, <2>2 DEF FitsIn, Size
  <2>3. CASE ~(value < 0)
    BY <2>1, <2>3 DEF FitsIn, Size
  <2> QED BY <2>2, <2>3
<1>4. ConvertSpec => []DigitsInv
  BY DigitsInvHolds
<1> QED BY <1>1, <1>2, <1>3, <1>4, PTL DEF ConvertSpec
=============================================================================
