------------------------------ MODULE Calendar ------------------------------
(***************************************************************************)
(* A calendar that counts days the way Date_unittest.cc does, from         *)
(* 1900-01-01, as the reference for Date and for the UTC conversions of    *)
(* TimeZone.                                                               *)
(***************************************************************************)
EXTENDS TimeZone

CONSTANTS LastYear,     \* the bound on the walk
          DaySeconds    \* the seconds of a day at which a conversion is checked

VARIABLES date,         \* year, month and day, counted one by one
          number        \* the Julian day number, counted with them

vars == <<date, number>>

IsLeapYear(year) == (year % 4 = 0 /\ year % 100 # 0) \/ year % 400 = 0
DaysOfMonth(year, month) ==
    CASE month = 2 -> IF IsLeapYear(year) THEN 29 ELSE 28
      [] month \in {4, 6, 9, 11} -> 30
      [] OTHER -> 31

Init == date = [year |-> 1900, month |-> 1, day |-> 1] /\ number = 2415021

NextDay ==
    /\ date # [year |-> LastYear, month |-> 12, day |-> 31]
    /\ number' = number + 1
    /\ date' = IF date.day < DaysOfMonth(date.year, date.month) THEN [date EXCEPT !.day = @ + 1]
               ELSE IF date.month < 12 THEN [date EXCEPT !.month = @ + 1, !.day = 1]
               ELSE [year |-> date.year + 1, month |-> 1, day |-> 1]

\* The days whose seconds fit the 32 bits of the zone files.
Fits32 == number \in kJulianDayOf1970 - 24854 .. kJulianDayOf1970 + 24854

\* Date.cc: the closed formulas agree with counting in both directions, and weekDay
\* with 1900-01-01 having been a Monday.  TimeZone.cc: toUtcTime yields the date
\* counted and the time in the day, before 1970 as well, the day in the year starts
\* from 0, and fromUtcTime goes back.
DatesCount ==
    /\ GetJulianDayNumber(date.year, date.month, date.day) = number
    /\ GetYearMonthDay(number) = date
    /\ WeekDay(number) = (number - 2415021 + 1) % 7
    /\ Fits32 => \A s \in DaySeconds :
           LET t == (number - kJulianDayOf1970) * kSecondsPerDay + s
               utc == ToUtcTime(t)
           IN  /\ utc.ymd = date
               /\ utc.hms.hour * 3600 + utc.hms.min * 60 + utc.hms.sec = s
               /\ utc.hms.hour \in 0 .. 23 /\ utc.hms.min \in 0 .. 59 /\ utc.hms.sec \in 0 .. 59
               /\ date.month = 1 => utc.yday = date.day - 1
               /\ FromUtcTime(utc.ymd, utc.hms) = t

=============================================================================
