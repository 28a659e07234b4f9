------------------------------ MODULE TimeZone ------------------------------
(***************************************************************************)
(* muduo/datetime/TimeZone.{h,cc}: the zone file read into a table of      *)
(* transitions, the search in it, the conversions between UTC and local    *)
(* time, and the table-free ones of UTC.                                   *)
(*                                                                         *)
(* A zone file is a record of what it holds: the times of the transitions, *)
(* the index of the local time each starts (from 0), the local times, and  *)
(* where its bytes end, at a part or after the last.  The broken-down      *)
(* local time keeps the fields the code compares.                          *)
(***************************************************************************)
EXTENDS Date, Sequences

kSecondsPerDay == 24 * 60 * 60

Transition(t, l, idx) == [gmttime |-> t, localtime |-> l, localtimeIdx |-> idx]

Localtime(offset, dst) == [gmtOffset |-> offset, isDst |-> dst]

\* The data of a file that ends early: what was read before stays.
NoData == [transitions |-> <<>>, localtimes |-> <<>>]

\* readTimeZoneFile.  The errors are caught, and what is there is used.
ReadTimeZoneFile(f) ==
    IF f.end \in {"open", "head", "trans", "index"} THEN NoData
    ELSE IF f.end = "types" THEN [NoData EXCEPT !.localtimes = SubSeq(f.types, 1, f.read)]
    ELSE [transitions |-> [i \in DOMAIN f.trans |->
                              Transition(f.trans[i],
                                         f.trans[i] + f.types[f.index[i] + 1].gmtOffset,
                                         f.index[i])],
          localtimes |-> f.types]

\* Comp::operator() and Comp::equal
Key(gmt, t) == IF gmt THEN t.gmttime ELSE t.localtime
Less(gmt, s, t) == Key(gmt, s) < Key(gmt, t)

\* External: std::lower_bound, the first position not less than sentry.
LowerBound(ts, sentry, gmt) ==
    CHOOSE i \in 1 .. Len(ts) + 1 :
        /\ i > Len(ts) \/ ~Less(gmt, ts[i], sentry)
        /\ \A j \in 1 .. i - 1 : Less(gmt, ts[j], sentry)

\* Mutant: a sentry between two transitions gets the later one.
TransitionForLater(ts, sentry, gmt) ==
    LET i == LowerBound(ts, sentry, gmt) IN IF i > Len(ts) THEN Len(ts) ELSE i

\* findLocaltime: the transition in force, once there is one.
TransitionFor(ts, sentry, gmt) ==
    LET i == LowerBound(ts, sentry, gmt)
    IN  IF i > Len(ts) THEN Len(ts)
        ELSE IF Key(gmt, sentry) = Key(gmt, ts[i]) THEN i ELSE i - 1

FindLocaltime(data, sentry, gmt) ==
    IF data.transitions = <<>> \/ Less(gmt, sentry, data.transitions[1])
      THEN data.localtimes[1]
      ELSE data.localtimes[data.transitions[TransitionFor(data.transitions, sentry, gmt)].localtimeIdx + 1]

\* toLocalTime
ToLocalTime(data, seconds) ==
    LET local == FindLocaltime(data, Transition(seconds, 0, 0), TRUE)
        secs == seconds + local.gmtOffset
    IN  [secs |-> secs, isdst |-> local.isDst, hour |-> (secs \div 3600) % 24, min |-> (secs \div 60) % 60]

\* fromLocalTime: the hour that is there twice, told apart by the caller's flag.
SummerHour(data, tm, offset) ==
    LET try == ToLocalTime(data, tm.secs - offset)
    IN  IF tm.isdst /\ ~try.isdst /\ try.hour = tm.hour /\ try.min = tm.min THEN 3600 ELSE 0

FromLocalTime(data, tm) ==
    LET offset == FindLocaltime(data, Transition(0, tm.secs, 0), FALSE).gmtOffset
    IN  tm.secs - SummerHour(data, tm, offset) - offset

\* fillHMS
FillHMS(seconds) == [hour |-> seconds \div 3600, min |-> (seconds \div 60) % 60, sec |-> seconds % 60]

\* toUtcTime: the days and the seconds in the day.
DaySplit(t) ==
    LET seconds == CMod(t, kSecondsPerDay)
        days == CDiv(t, kSecondsPerDay)
    IN  IF seconds < 0 THEN <<days - 1, seconds + kSecondsPerDay>> ELSE <<days, seconds>>

\* toUtcTime with yday.
ToUtcTime(t) ==
    LET date == DaySplit(t)[1] + kJulianDayOf1970
        ymd == GetYearMonthDay(date)
    IN  [ymd |-> ymd, hms |-> FillHMS(DaySplit(t)[2]), wday |-> WeekDay(date),
         yday |-> date - GetJulianDayNumber(ymd.year, 1, 1)]

\* fromUtcTime
FromUtcTime(ymd, hms) ==
    (GetJulianDayNumber(ymd.year, ymd.month, ymd.day) - kJulianDayOf1970) * kSecondsPerDay
        + hms.hour * 3600 + hms.min * 60 + hms.sec

=============================================================================
