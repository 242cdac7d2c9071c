------------------------------- MODULE LogFile -------------------------------
(***************************************************************************)
(* The log file (matelib/base/LogFile.cc): what is appended goes through   *)
(* the C library's buffer to the current file, and a new file is opened    *)
(* when this one has become too long or the day is over.                   *)
(*                                                                         *)
(* A file is named for the second in which it was opened, so that one      *)
(* opened in the same second is the same file, to whose end it appends.    *)
(* Data is a sequence of numbers: a message is a positive one, and Flag    *)
(* what the logger itself writes.  A log file is a record, and each        *)
(* function of the class one on such records.                              *)
(***************************************************************************)
EXTENDS Integers, Sequences

CONSTANTS
  RollSize,       \* rollSize_
  FlushInterval,  \* flushInterval_
  CheckEvery,     \* checkEveryN_
  Day,            \* kRollPerSeconds_
  StdioSize       \* the size of File::buf_

ASSUME RollAssumption == RollSize \in Nat \ {0}
ASSUME CheckAssumption == CheckEvery \in Nat \ {0} /\ FlushInterval \in Nat
ASSUME DayAssumption == Day \in Nat \ {0}
ASSUME StdioAssumption == StdioSize \in Nat \ {0}

\* The line at the start of a file, and a notice about discarded messages.
Flag == 0

LogFiles ==
  [files         : Seq([name : Nat, data : Seq(Nat)]),  \* in the order they were opened
   unflushed     : Seq(Nat),                            \* buf_, which is not in the file yet
   writtenBytes  : Nat,                                 \* writtenBytes_ of file_
   count         : Nat,
   startOfPeriod : Nat,
   lastFlush     : Nat]

-----------------------------------------------------------------------------
(* File.                                                                   *)

\* The first n of what is unflushed reach the file.
WriteOut(f, n) ==
  [f EXCEPT !.files[Len(f.files)].data = @ \o SubSeq(f.unflushed, 1, n),
            !.unflushed = SubSeq(@, n + 1, Len(@))]

\* File::flush, and what ~File does before it closes the file.
Flushed(f) == IF f.unflushed = <<>> THEN f ELSE WriteOut(f, Len(f.unflushed))

\* File::append: the C library writes out its buffer whenever it is full.
Written(f, data) ==
  LET g == [f EXCEPT !.unflushed = @ \o data, !.writtenBytes = @ + Len(data)]
      n == (Len(g.unflushed) \div StdioSize) * StdioSize
  IN  IF n = 0 THEN g ELSE WriteOut(g, n)

\* fopen(filename, "ae") of the file named for now.
Opened(files, now) ==
  IF files # <<>> /\ files[Len(files)].name = now
    THEN files
    ELSE Append(files, [name |-> now, data |-> <<>>])

-----------------------------------------------------------------------------
(* LogFile.                                                                *)

StartOfDay(now) == (now \div Day) * Day

\* Faulty variant: the old File is not closed.
RollFileUnclosed(f, now) ==
  Written([f EXCEPT !.files = Opened(f.files, now),
                    !.unflushed = <<>>,
                    !.writtenBytes = 0,
                    !.startOfPeriod = StartOfDay(now),
                    !.lastFlush = now],
          <<Flag>>)

\* rollFile: the old File is closed once the new one is open.
RollFile(f, now) ==
  Written([f EXCEPT !.files = Opened(Flushed(f).files, now),
                    !.unflushed = <<>>,
                    !.writtenBytes = 0,
                    !.startOfPeriod = StartOfDay(now),
                    !.lastFlush = now],
          <<Flag>>)

\* The constructor.
NewLogFile(now) ==
  RollFile([files |-> <<>>, unflushed |-> <<>>, writtenBytes |-> 0,
            count |-> 0, startOfPeriod |-> 0, lastFlush |-> 0], now)

\* The day on which the file was opened is over.
DayIsOver(f, now) == StartOfDay(now) # f.startOfPeriod

\* What is looked at every checkEveryN_ times.
Checked(f, now) ==
  IF DayIsOver(f, now) THEN RollFile(f, now)
  ELSE IF now - f.lastFlush > FlushInterval THEN [Flushed(f) EXCEPT !.lastFlush = now]
  ELSE f

\* Faulty variant: one more append between two looks at the date.
AppendedOnceMore(f, data, now) ==
  LET g == Written(f, data)
  IN  CASE g.writtenBytes > RollSize -> [RollFile(g, now) EXCEPT !.count = 0]
        [] g.writtenBytes <= RollSize /\ g.count >= CheckEvery ->
             Checked([g EXCEPT !.count = 0], now)
        [] OTHER -> [g EXCEPT !.count = @ + 1]

\* append_unlocked.
Appended(f, data, now) ==
  LET g == Written(f, data)
  IN  CASE g.writtenBytes > RollSize -> [RollFile(g, now) EXCEPT !.count = 0]
        [] g.writtenBytes <= RollSize /\ g.count + 1 >= CheckEvery ->
             Checked([g EXCEPT !.count = 0], now)
        [] OTHER -> [g EXCEPT !.count = @ + 1]

-----------------------------------------------------------------------------
(* What is in a log file.                                                  *)

\* The messages in data.
Messages(data) == {data[i] : i \in DOMAIN data} \ {Flag}

\* The messages on disk.
OnDisk(f) == UNION {Messages(f.files[i].data) : i \in DOMAIN f.files}

\* The files from the first to the last, and what is not in one yet.
Parts(f) == [i \in DOMAIN f.files |-> f.files[i].data] \o <<f.unflushed>>
=============================================================================
