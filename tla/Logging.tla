------------------------------ MODULE Logging ------------------------------
(***************************************************************************)
(* muduo/logging/Logging.{h,cc}: a thread that logs.  A Logger lives for   *)
(* one statement: its constructor streams the time, kept per thread for    *)
(* the second it was formatted in, the thread and the level; the statement *)
(* streams its items; the destructor ends the line, hands it to the output *)
(* and, for FATAL, flushes and aborts.                                     *)
(***************************************************************************)
EXTENDS LogStream

CONSTANTS Messages,     \* what statements stream: sequences of items
          Seconds       \* what the clock may read

Levels == 0 .. 5        \* TRACE, DEBUG, INFO, WARN, ERROR, FATAL
TRACE == 0
DEBUG == 1
INFO == 2
ERROR == 4
FATAL == 5

VARIABLES g_logLevel,
          t_lastSecond, \* the second t_time holds the text of
          t_time,
          line,         \* the last line handed to g_output
          aborted

vars == <<g_logLevel, t_lastSecond, t_time, line, aborted>>

\* initLogLevel, by the environment.
Init ==
    /\ g_logLevel \in {TRACE, DEBUG}
    /\ t_lastSecond = 0
    /\ t_time = 0
    /\ line = [second |-> 0, stamp |-> 0, buffer |-> EmptyBuffer, ends |-> TRUE]
    /\ aborted = FALSE

\* formatTime, the part that is kept.
FormatTime(seconds) ==
    /\ t_lastSecond' = seconds
    /\ t_time' = IF seconds # t_lastSecond THEN seconds ELSE t_time

\* Impl::Impl: "yyyymmdd hh:mm:ss", ".uuuuuuZ ", the thread, the level and, for
\* a system call, the text and number of its error.
Header(savedErrno) ==
    <<Text(17), Text(9), Text(6), Text(6)>>
        \o (IF savedErrno # 0 THEN <<Text(20), Text(8), Number(savedErrno), Text(2)>> ELSE <<>>)

NewLine == [kind |-> "text", size |-> 1, newline |-> TRUE]

\* Impl::finish
Finish == <<Text(3), Text(12), Text(1), Number(128), NewLine>>

\* The constructors: LOG_TRACE and LOG_DEBUG name the function, LOG_SYSERR and
\* LOG_SYSFATAL the error.
Prefix(level, sys) ==
    Header(IF sys THEN 11 ELSE 0) \o (IF level <= DEBUG THEN <<Text(8), Text(1)>> ELSE <<>>)

\* A LOG_ statement; LOG_TRACE to LOG_INFO look at logLevel() first.
Log(level, sys, second, items) ==
    /\ ~aborted
    /\ level > INFO \/ g_logLevel <= level
    /\ sys => level \in {ERROR, FATAL}
    /\ FormatTime(second)
    /\ LET b == Stream(EmptyBuffer, Prefix(level, sys) \o items \o Finish)
       IN  line' = [second |-> second, stamp |-> t_time', buffer |-> b,
                    ends |-> Last(b.kept) = NewLine]
    /\ aborted' = (level = FATAL)
    /\ UNCHANGED g_logLevel

SetLogLevel(level) ==
    /\ ~aborted
    /\ g_logLevel' = level
    /\ UNCHANGED <<t_lastSecond, t_time, line, aborted>>

Next ==
    \/ \E level \in Levels, sys \in BOOLEAN, s \in Seconds, m \in Messages : Log(level, sys, s, m)
    \/ \E level \in Levels : SetLogLevel(level)

-----------------------------------------------------------------------------

\* LogStream.h, FixedBuffer: a line stays inside its buffer, with room for the
\* terminator that convert writes, and it loses its newline only when it fills the
\* buffer to the last byte.  Logging.cc, formatTime: the text kept per thread is the
\* one of the line's own second, also when the clock is set back.
LineSound ==
    /\ line.buffer.length < SIZE
    /\ \A i \in DOMAIN line.buffer.kept :
           line.buffer.kept[i].kind # "text" => Width(line.buffer.kept[i]) < kMaxNumericSize
    /\ line.ends \/ line.buffer.length = SIZE - 1
    /\ line.stamp = line.second

=============================================================================
