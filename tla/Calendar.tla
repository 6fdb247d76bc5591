------------------------------ MODULE Calendar ------------------------------
(***************************************************************************)
(* The dates of time_str.c: Julian day numbers and back, the end of the    *)
(* night, dates as text and the number that identifies a frame, while the  *)
(* days go by.  Day numbers are whole days: the fraction, in floating      *)
(* point, is left out, as is the sidereal time made of it.  A text of      *)
(* numbers is the sequence of its numbers.                                 *)
(***************************************************************************)
EXTENDS Integers, Sequences

CONSTANTS
    FirstYear, LastYear,  \* bound: the years that go by
    MorningHour           \* MORNING_TIME_HOUR

VARIABLES date, hour
vars == <<date, hour>>

Date(year, month, day) == [year |-> year, month |-> month, day |-> day]
days_in_months == <<31, 28, 31, 30, 31, 30, 31, 31, 30, 31, 30, 31>>
IsLeap(year) == year % 4 = 0 /\ (year % 100 # 0 \/ year % 400 = 0)

-----------------------------------------------------------------------------
\* time_str_get_JD without the time of day, and without the 0.5 by which a
\* Julian day begins at noon.  Months are counted from March.

Shifted(d) == d.month <= 2
TimeStrGetJD(d) ==
    LET year == IF Shifted(d) THEN d.year - 1 ELSE d.year
        month == IF Shifted(d) THEN d.month + 12 ELSE d.month
        isJulian == 10000 * d.year + 100 * d.month + d.day <= 15821004
        b == IF isJulian THEN -2 + (year + 4716) \div 4 - 1179
             ELSE year \div 400 - year \div 100 + year \div 4
    IN  365 * year - 679004 + b + (306001 * (month + 1)) \div 10000 + d.day + 2400001

\* time_str_from_JD for a whole number.
TimeStrFromJD(jd) ==
    LET k1 == jd + 68569
        n == (4 * k1) \div 146097
        k2 == k1 - (146097 * n + 3) \div 4
        m == (4000 * (k2 + 1)) \div 1461001
        k3 == k2 - (1461 * m) \div 4 + 31
        month == (80 * k3) \div 2447
        k4 == month \div 11
    IN  Date(100 * (n - 49) + m + k4, month + 2 - 12 * k4, k3 - (2447 * month) \div 80)

\* time_str_get_morning_time: the date and the hour.  The day after the last
\* one of a month is the first of the next, but for February in a leap year.
MutatedIsLeapDay(year, month, day) == FALSE    \* there are no leap years

IsLeapDay(year, month, day) == month = 3 /\ day = 29 /\ IsLeap(year)
MorningTime(d, h) ==
    LET day == IF h > 12 THEN d.day + 1 ELSE d.day
        month == IF d.month < 11 THEN d.month + 1 ELSE 1
        year == IF d.month < 11 THEN d.year ELSE d.year + 1
    IN  <<IF day <= days_in_months[d.month] THEN Date(d.year, d.month, day)
          ELSE IF IsLeapDay(year, month, day) THEN Date(year, 2, 29)
          ELSE Date(year, month, 1),
          MorningHour>>

\* time_str_get_date, which puts the year first, and time_str_set_date,
\* which takes the year from either end: a text whose third character is a
\* separator begins with the day.
TimeStrGetDate(d) == <<d.year, d.month, d.day>>
TimeStrSetDate(text) ==
    LET dayFirst == text[1] < 100
        day == IF dayFirst THEN text[1] ELSE text[3]
        year == IF dayFirst THEN text[3] ELSE text[1]
    IN  IF day > 31 THEN Date(day, text[2], year) ELSE Date(year, text[2], day)

\* time_str_get_uuid, in two halves of eight and nine digits, and back.
TimeStrGetUuid(d, h) == <<(d.year * 100 + d.month) * 100 + d.day, h * 10000000>>
TimeStrFromUuid(uuid) ==
    <<Date((uuid[1] \div 10000) % 10000, (uuid[1] \div 100) % 100, uuid[1] % 100),
      (uuid[2] \div 10000000) % 100>>

-----------------------------------------------------------------------------
(* The time, as the C library gives it. *)

DaysIn(d) == IF d.month = 2 /\ IsLeap(d.year) THEN 29 ELSE days_in_months[d.month]
DayAfter(d) ==
    CASE d.day < DaysIn(d) -> Date(d.year, d.month, d.day + 1)
      [] d.day = DaysIn(d) /\ d.month < 12 -> Date(d.year, d.month + 1, 1)
      [] OTHER -> Date(d.year + 1, 1, 1)

Init == date = Date(FirstYear, 1, 1) /\ hour = 0

\* Hours before and after noon: 0 and 13 stand for them.
Afternoon == hour = 0 /\ hour' = 13 /\ UNCHANGED date
Midnight ==
    /\ hour = 13 /\ DayAfter(date).year <= LastYear
    /\ hour' = 0 /\ date' = DayAfter(date)

\* The last day that is looked at.
LastDay == hour = 13 /\ DayAfter(date).year > LastYear /\ UNCHANGED vars

Next == Afternoon \/ Midnight \/ LastDay
Spec == Init /\ [][Next]_vars

-----------------------------------------------------------------------------
\* The date of a day number, that of an identifier and that of a text, also
\* of one with the day in front, are the date that they were made of
\* (time_str.c:232, 331, 492).  The day number counts the days, over leap
\* years and centuries (time_str.c:167), and the identifiers of frames grow
\* with time (time_str.c:475).  Before noon the night has begun on the date
\* before, so that it ends today (time_str.c:130).  After noon it ends on the
\* next date, except on the last evening of November (time_str.c:142).
Before(u, v) == u[1] < v[1] \/ (u[1] = v[1] /\ u[2] < v[2])
DatesAreRight ==
    /\ TimeStrFromJD(TimeStrGetJD(date)) = date
    /\ TimeStrFromUuid(TimeStrGetUuid(date, hour)) = <<date, hour>>
    /\ TimeStrSetDate(TimeStrGetDate(date)) = date
    /\ TimeStrSetDate(<<date.day, date.month, date.year>>) = date
    /\ TimeStrGetJD(DayAfter(date)) = TimeStrGetJD(date) + 1
    /\ Before(TimeStrGetUuid(date, 0), TimeStrGetUuid(date, 13))
    /\ Before(TimeStrGetUuid(date, 13), TimeStrGetUuid(DayAfter(date), 0))
    /\ MorningTime(date, 0) = <<date, MorningHour>>
    /\ (MorningTime(date, 13) = <<DayAfter(date), MorningHour>>)
           <=> ~(date.month = 11 /\ date.day = DaysIn(date))
=============================================================================
