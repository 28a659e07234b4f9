---------------------------- MODULE MCSequential ----------------------------
(***************************************************************************)
(* The parts that one thread uses alone, one of them in each behaviour:    *)
(* the Buffer, the dates and the zones, and the lines of a Logger.  The    *)
(* others stay in their initial state.                                     *)
(***************************************************************************)
EXTENDS Buffer, Integers

CONSTANTS LastYear, DaySeconds, Seconds

VARIABLES part,                                                \* the part in use
          date, number,                                        \* Calendar
          g_logLevel, t_lastSecond, t_time, line, aborted,     \* Logging
          input                                                \* of the pure conversions

MCByte == 0 .. 2

\* Items around the end of a line: a header takes 38 bytes, 76 with an error.
MCMessages ==
    LET text(n) == [kind |-> "text", size |-> n]
        int(n) == [kind |-> "int", value |-> n]
    IN  {<<>>, <<text(4000)>>, <<text(1), int(-2147483647 - 1), [kind |-> "double", size |-> 19]>>}
          \cup {<<text(n), [kind |-> "pointer", value |-> 2147483647]>> : n \in {3890, 3891, 3930}}
          \cup {<<text(n), int(-7), text(3)>> : n \in {3933, 3936, 3938, 3941, 3942}}

Cal == INSTANCE Calendar
L == INSTANCE Logging WITH Messages <- MCMessages
TZ == INSTANCE TimeZone

\* The zones of TimeZone_unittest.cc, each with two summers as in 2006 and
\* 2007, moved together.  A file may end early.
ZoneFile(offset, end, read) ==
    [trans |-> <<140400, 313200, 486000, 658800>>, index |-> <<1, 0, 1, 0>>,
     types |-> <<TZ!Localtime(offset, FALSE), TZ!Localtime(offset + 3600, TRUE)>>, end |-> end, read |-> read]
ZoneFiles ==
    {ZoneFile(o * 3600, "complete", 2) : o \in {-5, 0, 8, 10}} \cup {ZoneFile(3600, "types", 1)}

NoInput == [zone |-> ZoneFile(0, "complete", 2), seconds |-> 0, value |-> 0]
ZoneInputs == {[NoInput EXCEPT !.zone = z, !.seconds = 900 * k] : z \in ZoneFiles, k \in 0 .. 900}
ValueInputs ==
    {[NoInput EXCEPT !.value = v] :
        v \in (-1100 .. 1100) \cup {2147483647, 2147483640, -2147483647, -2147483647 - 1}}

calVars == <<date, number>>
logVars == <<g_logLevel, t_lastSecond, t_time, line, aborted>>
allVars == <<vars, part, calVars, logVars, input>>

MCInit ==
    /\ Init
    /\ Cal!Init
    /\ L!Init
    /\ part \in {"buffer", "calendar", "logger", "conversion"}
    /\ part = "logger" \/ g_logLevel = 1
    /\ input \in IF part = "conversion" THEN ZoneInputs \cup ValueInputs ELSE {NoInput}

MCNext ==
    \/ part = "buffer" /\ Next /\ UNCHANGED <<part, calVars, logVars, input>>
    \/ part = "calendar" /\ Cal!NextDay /\ UNCHANGED <<part, vars, logVars, input>>
    \/ part = "logger" /\ L!Next /\ UNCHANGED <<part, vars, calVars, input>>

MCSpec == MCInit /\ [][MCNext]_allVars

\* Date.cc, the two conversions, and TimeZone.cc, toUtcTime: see Calendar.
DatesCount == Cal!DatesCount

\* TimeZone.cc, fromLocalTime: with the summer flag that toLocalTime gives, every
\* instant is found again, in the hour that comes twice too, for zones whose summer
\* time is one hour ahead; a file that ends early leaves one local time for ever.
LocalRoundTrip ==
    LET data == TZ!ReadTimeZoneFile(input.zone)
        tm == TZ!ToLocalTime(data, input.seconds)
    IN  /\ TZ!FromLocalTime(data, tm) = input.seconds
        /\ (data.transitions # <<>> /\ input.seconds >= data.transitions[1].gmttime)
              => tm.isdst = (((input.seconds - 140400) \div 172800) \in {0, 2})

\* LogStream.cc, convert and convertHex: the text of a number reads back as the
\* number, the least int included, without a leading zero.
NumberReadsBack ==
    /\ L!ReadBack(L!Convert(input.value), 10) = input.value
    /\ Len(L!Convert(input.value)) > 1 => L!Convert(input.value)[1] # 0
    /\ input.value >= 0 => L!ReadBack(L!ConvertHex(input.value), 16) = input.value

\* LogStream.h and Logging.cc: see Logging.
LineSound == L!LineSound

=============================================================================
