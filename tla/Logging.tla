------------------------------- MODULE Logging -------------------------------
(***************************************************************************)
(* A log statement (matelib/base/Logging.cc, LogStream.h): in a buffer of  *)
(* fixed size on the thread's stack, the time, the thread and the level,   *)
(* the pieces that the statement puts, the place in the source and a       *)
(* newline; then the line goes to the output.  A piece for which there is  *)
(* no room is left out.                                                    *)
(*                                                                         *)
(* The text of the current second is kept for the thread's next statements *)
(* in that second.  localtime returns a pointer to one tm for all threads, *)
(* so that another thread may change it before strftime reads it.          *)
(***************************************************************************)
EXTENDS Integers, Sequences

CONSTANTS
  Threads,
  Char,             \* the characters of a line
  BufferSize,       \* detail::kSmallBuffer
  kMaxNumericSize,  \* room that a number needs to be put
  Pieces,           \* what a statement may put
  TimeText(_),      \* a second, as strftime formats it
  Microseconds,     \* what may follow it
  TidText(_),       \* CurrentThread::tidString
  LevelName(_),
  Place             \* the pieces " - ", basename_, ":", line_ and the newline

\* A piece: a text, or a number, which is shorter than the room that is asked for it
\* (see ConvertInt).
Piece ==
  {p \in [numeric : BOOLEAN, text : Seq(Char)] : p.numeric => Len(p.text) < kMaxNumericSize}
Text(s) == [numeric |-> FALSE, text |-> s]

\* Logger::LogLevel.
DEBUG == 0
INFO == 1
NONLOG == 4
Levels == DEBUG .. NONLOG

VARIABLES
  clock,      \* the current second
  tm,         \* the second in localtime's tm
  logLevel,   \* logLevel_
  at,         \* where each thread is in its log statement
  level,      \* and the level of that
  lastCache,  \* t_lastCache
  timeText,   \* t_time
  rest,       \* what of the prefix or the place is still to be put
  stream,     \* the thread's LogStream
  put,        \* history: all the pieces put to it, one after the other
  output      \* history: the lines, with all that was put to each

logVars == <<clock, tm, logLevel, at, level, lastCache, timeText, rest, stream, put, output>>

Lines == [line : Seq(Char), put : Seq(Char)]

LineTypes ==
  /\ clock \in Nat /\ tm \in Nat
  /\ logLevel \in Levels
  /\ at \in [Threads -> {"idle", "strftime", "prefix", "finish"}]
  /\ level \in [Threads -> Levels]
  /\ lastCache \in [Threads -> Nat]
  /\ timeText \in [Threads -> Seq(Char)]
  /\ rest \in [Threads -> Seq(Piece)]
  /\ stream \in [Threads -> Seq(Char)]
  /\ put \in [Threads -> Seq(Char)]
  /\ output \in Seq(Lines)

LogInit ==
  /\ clock \in Nat /\ tm = 0
  /\ logLevel = INFO
  /\ at = [t \in Threads |-> "idle"]
  /\ level = [t \in Threads |-> INFO]
  /\ lastCache = [t \in Threads |-> 0]
  /\ timeText = [t \in Threads |-> <<>>]
  /\ rest = [t \in Threads |-> <<>>]
  /\ stream = [t \in Threads |-> <<>>]
  /\ put = [t \in Threads |-> <<>>]
  /\ output = <<>>

-----------------------------------------------------------------------------
(* LogStream.                                                              *)

Avail(buffer) == BufferSize - Len(buffer)

\* FixedBuffer::append for a text; formatInterger and the like for a number.
FitsIntoLine(buffer, piece) ==
  IF piece.numeric THEN Avail(buffer) >= kMaxNumericSize
                   ELSE Avail(buffer) > Len(piece.text)

\* operator<<.
Put(buffer, piece) == IF FitsIntoLine(buffer, piece) THEN buffer \o piece.text ELSE buffer

-----------------------------------------------------------------------------
(* Logger.                                                                 *)

\* t puts a piece.
PutPiece(t, piece) ==
  /\ stream' = [stream EXCEPT ![t] = Put(@, piece)]
  /\ put' = [put EXCEPT ![t] = @ \o piece.text]

\* Impl::Impl: what comes before the statement's own pieces.
Prefix(t, time, usec, l) == <<Text(time), usec, Text(TidText(t)), Text(LevelName(l))>>

\* The macros LOG_* and STDLOG_* skip a statement below the log level.  Otherwise
\* it starts with an empty LogStream.
StartStatement(t, l) ==
  /\ at[t] = "idle" /\ logLevel <= l /\ l < NONLOG
  /\ level' = [level EXCEPT ![t] = l]
  /\ stream' = [stream EXCEPT ![t] = <<>>]
  /\ put' = [put EXCEPT ![t] = <<>>]
  /\ UNCHANGED <<clock, logLevel, timeText, output>>

\* formatTime in a second that is not the cached one, up to localtime.
NewSecond(t, l) ==
  /\ StartStatement(t, l)
  /\ lastCache[t] # clock
  /\ lastCache' = [lastCache EXCEPT ![t] = clock]
  /\ tm' = clock
  /\ at' = [at EXCEPT ![t] = "strftime"]
  /\ UNCHANGED rest

\* And strftime.
FormatTime(t, usec) ==
  /\ at[t] = "strftime"
  /\ timeText' = [timeText EXCEPT ![t] = TimeText(tm)]
  /\ rest' = [rest EXCEPT ![t] = Prefix(t, TimeText(tm), usec, level[t])]
  /\ at' = [at EXCEPT ![t] = "prefix"]
  /\ UNCHANGED <<clock, tm, logLevel, level, lastCache, stream, put, output>>

\* formatTime in the cached second.
SameSecond(t, l, usec) ==
  /\ StartStatement(t, l)
  /\ lastCache[t] = clock
  /\ rest' = [rest EXCEPT ![t] = Prefix(t, timeText[t], usec, l)]
  /\ at' = [at EXCEPT ![t] = "prefix"]
  /\ UNCHANGED <<tm, lastCache>>

\* The next piece of the prefix or of the place.
PutNext(t) ==
  /\ rest[t] # <<>>
  /\ PutPiece(t, Head(rest[t]))
  /\ rest' = [rest EXCEPT ![t] = Tail(@)]
  /\ UNCHANGED <<clock, tm, logLevel, at, level, lastCache, timeText, output>>

\* A piece of the statement.
PutOwn(t, piece) ==
  /\ at[t] = "prefix" /\ rest[t] = <<>>
  /\ PutPiece(t, piece)
  /\ UNCHANGED <<clock, tm, logLevel, at, level, lastCache, timeText, rest, output>>

\* The statement ends, and ~Logger calls finish.
Finish(t) ==
  /\ at[t] = "prefix" /\ rest[t] = <<>>
  /\ rest' = [rest EXCEPT ![t] = Place]
  /\ at' = [at EXCEPT ![t] = "finish"]
  /\ UNCHANGED <<clock, tm, logLevel, level, lastCache, timeText, stream, put, output>>

\* AsyncLogging::append, or g_output and g_flush.
Output(t) ==
  /\ at[t] = "finish" /\ rest[t] = <<>>
  /\ output' = Append(output, [line |-> stream[t], put |-> put[t]])
  /\ at' = [at EXCEPT ![t] = "idle"]
  /\ UNCHANGED <<clock, tm, logLevel, level, lastCache, timeText, rest, stream, put>>

-----------------------------------------------------------------------------
\* setLogLevel.
SetLogLevel(l) ==
  /\ logLevel' = l
  /\ UNCHANGED <<clock, tm, at, level, lastCache, timeText, rest, stream, put, output>>

\* The system's time, which may also be set back.
SetClock(s) ==
  /\ clock' = s
  /\ UNCHANGED <<tm, logLevel, at, level, lastCache, timeText, rest, stream, put, output>>

\* LogFile::getLogFileName, in the thread of AsyncLogging.
NameFile ==
  /\ tm' = clock
  /\ UNCHANGED <<clock, logLevel, at, level, lastCache, timeText, rest, stream, put, output>>

LogNext ==
  \/ \E l \in Levels : SetLogLevel(l)
  \/ \E s \in Nat : SetClock(s)
  \/ NameFile
  \/ \E t \in Threads :
       \/ \E l \in Levels : NewSecond(t, l)
       \/ \E usec \in Microseconds : FormatTime(t, usec)
       \/ \E l \in Levels, usec \in Microseconds : SameSecond(t, l, usec)
       \/ PutNext(t)
       \/ \E piece \in Pieces : PutOwn(t, piece)
       \/ Finish(t)
       \/ Output(t)

LogSpec == LogInit /\ [][LogNext]_logVars

-----------------------------------------------------------------------------
(* Properties.                                                             *)

\* What the code's constants and types say.
Sizes ==
  /\ BufferSize \in Nat /\ kMaxNumericSize \in Nat
  /\ 0 < kMaxNumericSize /\ kMaxNumericSize < BufferSize
  /\ Pieces \subseteq Piece /\ Microseconds \subseteq Piece /\ Place \in Seq(Piece)
  /\ \A s \in Nat : TimeText(s) \in Seq(Char)
  /\ \A t \in Threads : TidText(t) \in Seq(Char)
  /\ \A l \in Levels : LevelName(l) \in Seq(Char)

\* A line never fills its buffer: there is a byte left for the terminator that
\* convertInt, snprintf and debugString write behind it.
RoomForTerminator == \A t \in Threads : Len(stream[t]) < BufferSize

\* Nothing is left out of a line, and so neither is its newline, unless more was put
\* than the buffer holds beside a number.
IsWhole(line, all) == Len(all) <= BufferSize - kMaxNumericSize => line = all

LinesAreWhole ==
  /\ \A t \in Threads : IsWhole(stream[t], put[t])
  /\ \A k \in DOMAIN output : IsWhole(output[k].line, output[k].put)
=============================================================================
