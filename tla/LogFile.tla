------------------------------ MODULE LogFile ------------------------------
(***************************************************************************)
(* muduo/logging/LogFile.cc: the files a logging thread writes, as a value *)
(* with the LogFile's fields.  A line is one unit of length; a file is     *)
(* named for the second it was opened in.                                  *)
(***************************************************************************)
EXTENDS Integers, Sequences

CONSTANTS rollSize,          \* in lines
          kCheckTimeRoll,    \* 1024 in the code
          kRollPerSeconds,   \* a day in the code
          flushInterval

ASSUME LogFileAssumption ==
    rollSize \in Nat /\ kCheckTimeRoll \in Nat /\ kRollPerSeconds \in Nat \ {0} /\ flushInterval \in Nat

\* now / kRollPerSeconds_ * kRollPerSeconds_
Period(now) == (now \div kRollPerSeconds) * kRollPerSeconds

\* The fields before the constructor's rollFile().
NoLogFile ==
    [count |-> 0, startOfPeriod |-> 0, lastRoll |-> 0, lastFlush |-> 0,
     files |-> <<>>, writtenBytes |-> 0, unflushed |-> FALSE, failed |-> FALSE]

\* Mutant: a file is opened although the second has not changed.
RollFileAlways(lf, now) ==
    [lf EXCEPT !.lastRoll = now, !.lastFlush = now, !.startOfPeriod = Period(now),
               !.files = Append(@, [name |-> now, lines |-> <<>>]),
               !.writtenBytes = 0, !.unflushed = FALSE]

\* rollFile and getLogFileName; the File replaced is closed, and so flushed.
RollFile(lf, now) ==
    IF now > lf.lastRoll
      THEN [lf EXCEPT !.lastRoll = now, !.lastFlush = now, !.startOfPeriod = Period(now),
                      !.files = Append(@, [name |-> now, lines |-> <<>>]),
                      !.writtenBytes = 0, !.unflushed = FALSE]
      ELSE lf

\* LogFile::LogFile
NewLogFile(now) == RollFile(NoLogFile, now)

\* LogFile::flush
FlushFile(lf) == [lf EXCEPT !.unflushed = FALSE]

\* File::append; n is how much fwrite takes before it returns 0.
FileAppend(lf, data, n) ==
    [lf EXCEPT !.files[Len(lf.files)].lines = @ \o SubSeq(data, 1, n),
               !.writtenBytes = @ + Len(data),
               !.unflushed = @ \/ n > 0,
               !.failed = @ \/ n < Len(data)]

\* append_unlocked once the data is written.
CheckRoll(lf, now) ==
    IF lf.writtenBytes > rollSize THEN RollFile(lf, now)
    ELSE IF lf.count > kCheckTimeRoll
      THEN IF Period(now) # lf.startOfPeriod THEN RollFile([lf EXCEPT !.count = 0], now)
           ELSE IF now - lf.lastFlush > flushInterval
             THEN FlushFile([lf EXCEPT !.count = 0, !.lastFlush = now])
             ELSE [lf EXCEPT !.count = 0]
      ELSE [lf EXCEPT !.count = @ + 1]

\* append
AppendFile(lf, data, n, now) == CheckRoll(FileAppend(lf, data, n), now)

\* How much of data may be written: bound, one write fails.
Takes(lf, data) == IF lf.failed THEN {Len(data)} ELSE 0 .. Len(data)

=============================================================================
