------------------------------- MODULE Calendar -------------------------------
(***************************************************************************)
(* The calendar arithmetic of the record keys (namespace timestamp of      *)
(* src/gpudb/utils/GPUdbMultiHeadIOUtils.cpp).  A day reaches the key      *)
(* buffer along two routes that share no code: a timestamp column as       *)
(* milliseconds from 1970, a date or datetime column as year, month and    *)
(* day.  Both end in the fields the servers hash.                          *)
(*                                                                         *)
(* The reference is a walk, day by day in both directions, from Thursday   *)
(* the 1st of January 1970.  The time of day, which both routes copy, is   *)
(* left out: a millisecond count is the number of its day.                 *)
(***************************************************************************)
EXTENDS Integers

CONSTANTS FirstYear, LastYear   \* bounds: the years of the walk

ASSUME YearsAssumption ==
    FirstYear \in 1000..1970 /\ LastYear \in 1970..2900

VARIABLES
    day,        \* days since the 1st of January 1970
    year, month, dayOfMonth,
    dayOfYear,  \* from 1
    dayOfWeek   \* 1 is Sunday

vars == <<day, year, month, dayOfMonth, dayOfYear, dayOfWeek>>

Fields(y, m, d, yd, wd) == [year |-> y, month |-> m, day |-> d, yday |-> yd, wday |-> wd]
Today == Fields(year, month, dayOfMonth, dayOfYear, dayOfWeek)

-----------------------------------------------------------------------------
(* The route of a timestamp.  C++ division of what is not negative is \div. *)

DaysPerYear == 365
DaysPerQuadYear == 4 * DaysPerYear + 1
DaysPerCentury == 100 * DaysPerYear + (100 \div 4 - 1)
DaysPerQuadCentury == 4 * DaysPerCentury + 1

isa_leap_year(y) == y % 400 = 0 \/ (y % 100 # 0 /\ y % 4 = 0)

Leap(y) == IF isa_leap_year(y) THEN 1 ELSE 0

\* Month lengths are taken off the day of the year until it fits.
get_month_and_day(yday, leap) ==
    LET length == <<31, 28 + leap, 31, 30, 31, 30, 31, 31, 30, 31, 30>>
        left[m \in 1..12] == IF m = 1 THEN yday ELSE left[m - 1] - length[m - 1]
        found == CHOOSE m \in 1..12 :
                    /\ m < 12 => left[m] <= length[m]
                    /\ \A earlier \in 1..(m - 1) : left[earlier] > length[earlier]
    IN  [month |-> found, day |-> left[found]]

\* MS_EPOCH_OFFSET in days.
EpochOffset ==
    LET y == 1970 - 1
    IN  (y \div 400) * DaysPerQuadCentury + ((y % 400) \div 100) * DaysPerCentury
        + ((y % 100) \div 4) * DaysPerQuadYear + (y % 4) * DaysPerYear

AtMost4(n) == n \* mutant: the last day of a leap cycle opens a fifth part
AtMost3(n) == IF n = 4 THEN 3 ELSE n

create_timestamp_from_epoch(d) ==
    LET days == d + EpochOffset
        quadCentury == days \div DaysPerQuadCentury
        ofQuadCentury == days - quadCentury * DaysPerQuadCentury
        century == AtMost3(ofQuadCentury \div DaysPerCentury)
        ofCentury == ofQuadCentury - century * DaysPerCentury
        quadYear == ofCentury \div DaysPerQuadYear
        ofQuadYear == ofCentury - quadYear * DaysPerQuadYear
        yearOfQuad == AtMost3(ofQuadYear \div DaysPerYear)
        yday == ofQuadYear - yearOfQuad * DaysPerYear + 1
        y == 400 * quadCentury + 100 * century + 4 * quadYear + yearOfQuad + 1
        date == get_month_and_day(yday, Leap(y))
    IN  Fields(y, date.month, date.day, yday, ((days + 1) % 7) + 1)

-----------------------------------------------------------------------------
(* The route of a date or a datetime. *)

days_in_month(y, m) ==
    <<31, 28, 31, 30, 31, 30, 31, 31, 30, 31, 30, 31>>[m] + (IF m = 2 THEN Leap(y) ELSE 0)

day_of_year_from_date(y, m, d) ==
    <<0, 31, 59, 90, 120, 151, 181, 212, 243, 273, 304, 334>>[m] + d
        + (IF m > 2 THEN Leap(y) ELSE 0)

days_since_epoch(y, yday) ==
    LET before(n) == DaysPerQuadCentury * (n \div 400) + DaysPerCentury * ((n % 400) \div 100)
                     + DaysPerQuadYear * ((n % 100) \div 4) + DaysPerYear * (n % 4)
    IN  before(y - 1) + yday - 1 - before(1970 - 1)

DateValid(y, m, d) ==
    y \in 1000..2900 /\ m \in 1..12 /\ d \in 1..days_in_month(y, m)

process_date(y, m, d) ==
    LET yday == day_of_year_from_date(y, m, d)
    IN  Fields(y, m, d, yday, ((days_since_epoch(y, yday) + 52 * 1000 * 7 + 4) % 7) + 1)

ShiftDayWide == 13 \* mutant: six bits for the day, which the month's bits begin inside
ShiftDay == 32 - 11 - 4 - 5

\* 32 bits, signed: the year counts from 1900.
create_date_from_fields(f) ==
    (f.year - 1900) * 2^21 + f.month * 2^17 + f.day * 2^ShiftDay + f.yday * 2^3 + f.wday

-----------------------------------------------------------------------------
(* The reference: day by day through the calendar. *)

Civil(y) == IF (y % 4 = 0 /\ y % 100 # 0) \/ y % 400 = 0 THEN 366 ELSE 365

LengthOf(y, m) ==
    CASE m \in {4, 6, 9, 11} -> 30
      [] m = 2 -> Civil(y) - 337
      [] OTHER -> 31

Init ==
    /\ day = 0
    /\ year = 1970 /\ month = 1 /\ dayOfMonth = 1
    /\ dayOfYear = 1 /\ dayOfWeek = 5

Tomorrow ==
    /\ day' = day + 1
    /\ dayOfWeek' = (dayOfWeek % 7) + 1
    /\ IF dayOfMonth < LengthOf(year, month)
       THEN dayOfMonth' = dayOfMonth + 1 /\ UNCHANGED <<year, month>>
       ELSE /\ dayOfMonth' = 1
            /\ month' = (month % 12) + 1
            /\ year' = IF month = 12 THEN year + 1 ELSE year
    /\ dayOfYear' = IF year' = year THEN dayOfYear + 1 ELSE 1
    /\ year' <= LastYear

Yesterday ==
    /\ day' = day - 1
    /\ dayOfWeek' = ((dayOfWeek + 5) % 7) + 1
    /\ month' = IF dayOfMonth > 1 THEN month ELSE ((month + 10) % 12) + 1
    /\ year' = IF dayOfYear > 1 THEN year ELSE year - 1
    /\ dayOfMonth' = IF dayOfMonth > 1 THEN dayOfMonth - 1 ELSE LengthOf(year', month')
    /\ dayOfYear' = IF dayOfYear > 1 THEN dayOfYear - 1 ELSE Civil(year')
    /\ year' >= FirstYear

Next == Tomorrow \/ Yesterday

Spec == Init /\ [][Next]_vars

-----------------------------------------------------------------------------

(* Every day of the calendar is a valid date, and its two routes into the     *)
(* key give its year, month, day, day of the year and day of the week: at the *)
(* ends of leap years, of centuries that are none and of their quadruples,    *)
(* and before 1970.                                                           *)
KeyFieldsAgree ==
    /\ DateValid(year, month, dayOfMonth)
    /\ process_date(year, month, dayOfMonth) = Today
    /\ create_timestamp_from_epoch(day) = Today

(* The packed 32 bits of a date keep the order of the days and never run from *)
(* one field into the next, for the years before 1900 that pack as negative   *)
(* numbers too.                                                               *)
DateKeyOrders ==
    [][LET key == create_date_from_fields(process_date(year, month, dayOfMonth))
       IN  day' > day <=> key' > key]_vars
=============================================================================
