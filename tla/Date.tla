-------------------------------- MODULE Date --------------------------------
(***************************************************************************)
(* muduo/datetime/Date.{h,cc}: the conversion between a date of the        *)
(* Gregorian calendar and its Julian day number.                           *)
(***************************************************************************)
EXTENDS Integers

\* Division and remainder of C++, which round towards zero.
CDiv(a, b) == IF a < 0 /\ a % b # 0 THEN (a \div b) + 1 ELSE a \div b
CMod(a, b) == a - b * CDiv(a, b)

\* Mutant: the leap years that are centuries are forgotten.
GetJulianDayNumberNo400(year, month, day) ==
    LET a == CDiv(14 - month, 12)
        y == year + 4800 - a
        m == month + 12 * a - 3
    IN  day + CDiv(153 * m + 2, 5) + y * 365 + CDiv(y, 4) - CDiv(y, 100) - 32045

\* getJulianDayNumber: the year starts in March.
GetJulianDayNumber(year, month, day) ==
    LET a == CDiv(14 - month, 12)
        y == year + 4800 - a
        m == month + 12 * a - 3
    IN  day + CDiv(153 * m + 2, 5) + y * 365 + CDiv(y, 4) - CDiv(y, 100) + CDiv(y, 400) - 32045

\* getYearMonthDay
GetYearMonthDay(julianDayNumber) ==
    LET a == julianDayNumber + 32044
        b == CDiv(4 * a + 3, 146097)
        c == a - CDiv(b * 146097, 4)
        d == CDiv(4 * c + 3, 1461)
        e == c - CDiv(1461 * d, 4)
        m == CDiv(5 * e + 2, 153)
    IN  [year |-> b * 100 + d - 4800 + CDiv(m, 10),
         month |-> m + 3 - 12 * CDiv(m, 10),
         day |-> e - CDiv(153 * m + 2, 5) + 1]

kJulianDayOf1970 == GetJulianDayNumber(1970, 1, 1)

\* weekDay: 0 is Sunday.
WeekDay(julianDayNumber) == CMod(julianDayNumber + 1, 7)

=============================================================================
