------------------------------- MODULE Dates --------------------------------
(***************************************************************************)
(* The calendar of Date.h: what the loaders make of the dates of a dataset *)
(* (days, days of the week, seconds), against a calendar that turns page   *)
(* after page, forward and backward from Thursday, 1 January 1970.         *)
(*                                                                         *)
(* A definition named X_Y is the definition X with the slip Y in it.       *)
(***************************************************************************)
EXTENDS Integers

CONSTANTS
    First, Last, \* years the calendar covers (bound)
    Word         \* values an unsigned holds; 2^18 is what the code asks for

ASSUME DatesAssumption ==
    /\ First \in 1 .. 1970 /\ Last \in Nat /\ Last >= 1970
    /\ Word \in Nat /\ Word >= 2^18

VARIABLES
    days,           \* since the first of January 1970, or before it
    year, month, day,
    weekday         \* 0 is Sunday

vars == <<days, year, month, day, weekday>>

-----------------------------------------------------------------------------
(* The code.                                                               *)

IsLeapYear_NoCentury(y) == y % 4 = 0

IsLeapYear(y) ==
    /\ y % 4 = 0
    /\ y % 100 # 0 \/ y % 400 = 0

DaysOfMonth == <<31, 28, 31, 30, 31, 30, 31, 31, 30, 31, 30, 31>>

\* The two loops of mkgmtime; there is no turn for a year before 1970.
DaysOfYears[y \in Nat] ==
    IF y <= 1970 THEN 0 ELSE DaysOfYears[y - 1] + IF IsLeapYear(y - 1) THEN 366 ELSE 365

DaysOfMonths[y \in Nat, m \in 0 .. 12] ==
    IF m = 0 THEN 0
    ELSE DaysOfMonths[y, m - 1] + DaysOfMonth[m] + IF m = 2 /\ IsLeapYear(y) THEN 1 ELSE 0

\* mkgmtime, in days and seconds of a day.
mkgmtime(y, m, d, hour, min, sec) ==
    <<DaysOfYears[y] + DaysOfMonths[y, m - 1] + d - 1, hour * 3600 + min * 60 + sec>>

\* Arithmetic of unsigned, and division of signed numbers, which truncates.
Unsigned(n) == n % Word

Quotient(a, b)  == IF a >= 0 THEN a \div b ELSE -((-a) \div b)
Remainder(a, b) == a - b * Quotient(a, b)

days_from_civil(y0, m, d) ==
    LET y   == IF m <= 2 THEN y0 - 1 ELSE y0
        era == Quotient(IF y >= 0 THEN y ELSE y - 399, 400)
        yoe == Unsigned(y - era * 400)
        doy == Unsigned(Unsigned(153 * Unsigned(m + IF m > 2 THEN -3 ELSE 9) + 2) \div 5 + d - 1)
        doe == Unsigned(yoe * 365 + yoe \div 4 - yoe \div 100 + doy)
    IN  era * 146097 + doe - 719468

civil_from_days(z0) ==
    LET z   == z0 + 719468
        era == Quotient(IF z >= 0 THEN z ELSE z - 146096, 146097)
        doe == Unsigned(z - era * 146097)
        yoe == Unsigned(doe - doe \div 1460 + doe \div 36524 - doe \div 146096) \div 365
        doy == Unsigned(doe - Unsigned(365 * yoe + yoe \div 4 - yoe \div 100))
        mp  == Unsigned(5 * doy + 2) \div 153
        d   == Unsigned(doy - Unsigned(153 * mp + 2) \div 5 + 1)
        m   == Unsigned(mp + IF mp < 10 THEN 3 ELSE -9)
        y   == yoe + era * 400
    IN  <<IF m <= 2 THEN y + 1 ELSE y, m, d>>

weekday_from_days(z) ==
    Unsigned(IF z >= -4 THEN Remainder(z + 4, 7) ELSE Remainder(z + 5, 7) + 6)

weekday_difference(x, y) ==
    LET n == Unsigned(x - y) IN IF n <= 6 THEN n ELSE Unsigned(n + 7)

-----------------------------------------------------------------------------
(* The calendar.                                                           *)

\* February has the day that makes four years, but for the centuries, and
\* but for every fourth of these.
LengthOf(y, m) ==
    CASE m \in {4, 6, 9, 11} -> 30
      [] m = 2 -> IF \/ y \in {400 * k : k \in 0 .. y \div 400}
                     \/ /\ y \in {4 * k : k \in 0 .. y \div 4}
                        /\ y \notin {100 * k : k \in 0 .. y \div 100}
                  THEN 29 ELSE 28
      [] OTHER -> 31

Init ==
    /\ days = 0 /\ weekday = 4
    /\ year = 1970 /\ month = 1 /\ day = 1

Tomorrow ==
    /\ days >= 0 /\ <<year, month, day>> # <<Last, 12, 31>>
    /\ days' = days + 1
    /\ weekday' = (weekday + 1) % 7
    /\ IF day < LengthOf(year, month)
       THEN day' = day + 1 /\ UNCHANGED <<month, year>>
       ELSE /\ day' = 1
            /\ IF month < 12 THEN month' = month + 1 /\ UNCHANGED year
               ELSE month' = 1 /\ year' = year + 1

Yesterday ==
    /\ days <= 0 /\ <<year, month, day>> # <<First, 1, 1>>
    /\ days' = days - 1
    /\ weekday' = (weekday + 6) % 7
    /\ IF day > 1 THEN day' = day - 1 /\ UNCHANGED <<month, year>>
       ELSE IF month > 1
       THEN month' = month - 1 /\ day' = LengthOf(year, month - 1) /\ UNCHANGED year
       ELSE month' = 12 /\ day' = 31 /\ year' = year - 1

Next == Tomorrow \/ Yesterday

Spec == Init /\ [][Next]_vars

-----------------------------------------------------------------------------
\* On every day of the calendar the code and the calendar agree: a date is its
\* number of days and back, its day of the week is right on both sides of
\* 1970, as is the number of days from one weekday to another, and from 1970 on the
\* loops of mkgmtime count the same days as the closed form, so that the time
\* and the day of the week of a record are of one day.
CalendarsAgree ==
    /\ days_from_civil(year, month, day) = days
    /\ civil_from_days(days) = <<year, month, day>>
    /\ weekday_from_days(days) = weekday
    /\ \A w \in 0 .. 6 : (w + weekday_difference(weekday, w)) % 7 = weekday
    /\ days >= 0 => mkgmtime(year, month, day, 23, 59, 59) = <<days, 86399>>
=============================================================================
