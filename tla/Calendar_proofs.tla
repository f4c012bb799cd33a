--------------------------- MODULE Calendar_proofs ---------------------------
(***************************************************************************)
(* Proofs about Calendar.  The days of a year, the months of a year and    *)
(* the digits of a year in base 400, 100 and 4 come first; the walk's      *)
(* invariant is then the closed form that the routes compute.              *)
(***************************************************************************)
EXTENDS Calendar, TLAPS

-----------------------------------------------------------------------------
(* Years. *)

\* The days before the year n + 1 of a calendar that begins with year 1.
Before(n) ==
    DaysPerQuadCentury * (n \div 400) + DaysPerCentury * ((n % 400) \div 100)
        + DaysPerQuadYear * ((n % 100) \div 4) + DaysPerYear * (n % 4)

\* The lengths of the parts of a calendar, and of what lies before 1970.
LEMMA Lengths ==
    /\ DaysPerYear = 365 /\ DaysPerQuadYear = 1461
    /\ DaysPerCentury = 36524 /\ DaysPerQuadCentury = 146097
    /\ EpochOffset = 719162
    /\ Before(1970 - 1) = 719162
  BY DEF DaysPerYear, DaysPerQuadYear, DaysPerCentury, DaysPerQuadCentury, EpochOffset,
         Before

\* Both routes count days from the same one.
LEMMA DaysSinceEpoch ==
    ASSUME NEW y \in Int, NEW yday \in Int
    PROVE  days_since_epoch(y, yday) = Before(y - 1) + yday - 1 - 719162
<1>1. days_since_epoch(y, yday) = Before(y - 1) + yday - 1 - Before(1970 - 1)
  BY DEF days_since_epoch, Before
<1> QED
  BY <1>1, Lengths

(* The digits of a number of years: quadruple centuries, centuries, quadruple  *)
(* years and years.                                                            *)
QuadCentury(n) == n \div 400
Century(n) == (n % 400) \div 100
QuadYear(n) == (n % 100) \div 4
YearOfQuad(n) == n % 4

\* The digits are in their ranges.
LEMMA DigitRanges ==
    ASSUME NEW n \in Nat
    PROVE  /\ QuadCentury(n) \in Nat /\ Century(n) \in 0..3
           /\ QuadYear(n) \in 0..24 /\ YearOfQuad(n) \in 0..3
  BY SMT DEF QuadCentury, Century, QuadYear, YearOfQuad

\* The digits make up the number, and tell whether the year after it is leap.
LEMMA Digits ==
    ASSUME NEW n \in Nat
    PROVE  /\ n = 400 * QuadCentury(n) + 100 * Century(n) + 4 * QuadYear(n) + YearOfQuad(n)
           /\ Before(n) = 146097 * QuadCentury(n) + 36524 * Century(n)
                             + 1461 * QuadYear(n) + 365 * YearOfQuad(n)
           /\ isa_leap_year(n + 1)
                 <=> YearOfQuad(n) = 3 /\ (QuadYear(n) < 24 \/ Century(n) = 3)
<1>1. PICK qc : qc = QuadCentury(n)
  OBVIOUS
<1>2. PICK c : c = Century(n)
  OBVIOUS
<1>3. PICK q : q = QuadYear(n)
  OBVIOUS
<1>4. PICK a : a = YearOfQuad(n)
  OBVIOUS
<1>5. qc \in Nat /\ c \in 0..3 /\ q \in 0..24 /\ a \in 0..3
  BY <1>1, <1>2, <1>3, <1>4, DigitRanges
<1>6. n = 400 * qc + 100 * c + 4 * q + a
  BY <1>1, <1>2, <1>3, <1>4 DEF QuadCentury, Century, QuadYear, YearOfQuad
<1>7. Before(n) = 146097 * qc + 36524 * c + 1461 * q + 365 * a
  BY <1>1, <1>2, <1>3, <1>4, <1>5, Lengths
     DEF Before, QuadCentury, Century, QuadYear, YearOfQuad
<1>8. isa_leap_year(n + 1) <=> a = 3 /\ (q < 24 \/ c = 3)
  <2>1. (n + 1) % 4 = 0 <=> a = 3
    BY <1>4 DEF YearOfQuad
  <2>2. (n + 1) % 100 = 0 <=> a = 3 /\ q = 24
    BY <1>5, <1>6
  <2>3. (n + 1) % 400 = 0 <=> a = 3 /\ q = 24 /\ c = 3
    BY <1>5, <1>6
  <2> QED
    BY <2>1, <2>2, <2>3, <1>5 DEF isa_leap_year
<1> QED
  BY <1>1, <1>2, <1>3, <1>4, <1>5, <1>6, <1>7, <1>8

\* The days before a year are a number.
LEMMA BeforeIsInt == ASSUME NEW n \in Nat PROVE Before(n) \in Int
<1>1. /\ QuadCentury(n) \in Nat /\ Century(n) \in 0..3
      /\ QuadYear(n) \in 0..24 /\ YearOfQuad(n) \in 0..3
  BY DigitRanges
<1> QED
  BY <1>1, Digits, SMT

\* A year has 365 days, and one more when it is leap.
LEMMA YearLength ==
    ASSUME NEW n \in Nat
    PROVE  Before(n + 1) = Before(n) + 365 + Leap(n + 1)
<1>1. PICK qc : qc = QuadCentury(n)
  OBVIOUS
<1>2. PICK c : c = Century(n)
  OBVIOUS
<1>3. PICK q : q = QuadYear(n)
  OBVIOUS
<1>4. PICK a : a = YearOfQuad(n)
  OBVIOUS
<1>5. PICK qc2 : qc2 = QuadCentury(n + 1)
  OBVIOUS
<1>6. PICK c2 : c2 = Century(n + 1)
  OBVIOUS
<1>7. PICK q2 : q2 = QuadYear(n + 1)
  OBVIOUS
<1>8. PICK a2 : a2 = YearOfQuad(n + 1)
  OBVIOUS
<1>9. /\ qc \in Nat /\ c \in 0..3 /\ q \in 0..24 /\ a \in 0..3
      /\ n = 400 * qc + 100 * c + 4 * q + a
      /\ Before(n) = 146097 * qc + 36524 * c + 1461 * q + 365 * a
      /\ isa_leap_year(n + 1) <=> a = 3 /\ (q < 24 \/ c = 3)
  <2>1. qc \in Nat /\ c \in 0..3 /\ q \in 0..24 /\ a \in 0..3
    BY <1>1, <1>2, <1>3, <1>4, DigitRanges, SMT
  <2>2. /\ n = 400 * qc + 100 * c + 4 * q + a
        /\ Before(n) = 146097 * qc + 36524 * c + 1461 * q + 365 * a
        /\ isa_leap_year(n + 1) <=> a = 3 /\ (q < 24 \/ c = 3)
    BY <1>1, <1>2, <1>3, <1>4, Digits, SMT
  <2> QED
    BY <2>1, <2>2
<1>10. /\ qc2 \in Nat /\ c2 \in 0..3 /\ q2 \in 0..24 /\ a2 \in 0..3
       /\ n + 1 = 400 * qc2 + 100 * c2 + 4 * q2 + a2
       /\ Before(n + 1) = 146097 * qc2 + 36524 * c2 + 1461 * q2 + 365 * a2
  <2>1. n + 1 \in Nat
    OBVIOUS
  <2>2. qc2 \in Nat /\ c2 \in 0..3 /\ q2 \in 0..24 /\ a2 \in 0..3
    BY <2>1, <1>5, <1>6, <1>7, <1>8, DigitRanges, SMT
  <2>3. /\ n + 1 = 400 * qc2 + 100 * c2 + 4 * q2 + a2
        /\ Before(n + 1) = 146097 * qc2 + 36524 * c2 + 1461 * q2 + 365 * a2
    BY <2>1, <1>5, <1>6, <1>7, <1>8, Digits, SMT
  <2> QED
    BY <2>2, <2>3
<1>11. Leap(n + 1) = IF a = 3 /\ (q < 24 \/ c = 3) THEN 1 ELSE 0
  BY <1>9 DEF Leap
<1> HIDE <1>1, <1>2, <1>3, <1>4, <1>5, <1>6, <1>7, <1>8
<1>12. CASE a < 3
  <2>1. qc2 = qc /\ c2 = c /\ q2 = q /\ a2 = a + 1
    BY <1>9, <1>10, <1>12
  <2> QED
    BY <2>1, <1>9, <1>10, <1>11, <1>12
<1>13. CASE a = 3 /\ q < 24
  <2>1. qc2 = qc /\ c2 = c /\ q2 = q + 1 /\ a2 = 0
    BY <1>9, <1>10, <1>13
  <2> QED
    BY <2>1, <1>9, <1>10, <1>11, <1>13
<1>14. CASE a = 3 /\ q = 24 /\ c < 3
  <2>1. qc2 = qc /\ c2 = c + 1 /\ q2 = 0 /\ a2 = 0
    BY <1>9, <1>10, <1>14
  <2> QED
    BY <2>1, <1>9, <1>10, <1>11, <1>14
<1>15. CASE a = 3 /\ q = 24 /\ c = 3
  <2>1. qc2 = qc + 1 /\ c2 = 0 /\ q2 = 0 /\ a2 = 0
    BY <1>9, <1>10, <1>15
  <2> QED
    BY <2>1, <1>9, <1>10, <1>11, <1>15
<1> QED
  BY <1>9, <1>12, <1>13, <1>14, <1>15

-----------------------------------------------------------------------------
(* Months. *)

\* The days of a year before its month m.
MonthBegins(y, m) ==
    <<0, 31, 59, 90, 120, 151, 181, 212, 243, 273, 304, 334>>[m] + (IF m > 2 THEN Leap(y) ELSE 0)

\* A leap year has one day more.
LEMMA LeapDay == ASSUME NEW y PROVE Leap(y) \in {0, 1}
  BY DEF Leap

\* The tables, month by month.
LEMMA Months ==
    ASSUME NEW y \in Int
    PROVE  /\ MonthBegins(y, 1) = 0 /\ days_in_month(y, 1) = 31
           /\ MonthBegins(y, 2) = 31 /\ days_in_month(y, 2) = 28 + Leap(y)
           /\ MonthBegins(y, 3) = 59 + Leap(y) /\ days_in_month(y, 3) = 31
           /\ MonthBegins(y, 4) = 90 + Leap(y) /\ days_in_month(y, 4) = 30
           /\ MonthBegins(y, 5) = 120 + Leap(y) /\ days_in_month(y, 5) = 31
           /\ MonthBegins(y, 6) = 151 + Leap(y) /\ days_in_month(y, 6) = 30
           /\ MonthBegins(y, 7) = 181 + Leap(y) /\ days_in_month(y, 7) = 31
           /\ MonthBegins(y, 8) = 212 + Leap(y) /\ days_in_month(y, 8) = 31
           /\ MonthBegins(y, 9) = 243 + Leap(y) /\ days_in_month(y, 9) = 30
           /\ MonthBegins(y, 10) = 273 + Leap(y) /\ days_in_month(y, 10) = 31
           /\ MonthBegins(y, 11) = 304 + Leap(y) /\ days_in_month(y, 11) = 30
           /\ MonthBegins(y, 12) = 334 + Leap(y) /\ days_in_month(y, 12) = 31
<1>1. Leap(y) \in {0, 1}
  BY LeapDay
<1> QED
  BY <1>1 DEF MonthBegins, days_in_month

\* A month begins where the one before it ends, and December ends the year.
LEMMA MonthsFollow ==
    ASSUME NEW y \in Int, NEW m \in 1..12
    PROVE  /\ MonthBegins(y, m) \in Nat /\ days_in_month(y, m) \in 28..31
           /\ m > 1 => MonthBegins(y, m) > 0
           /\ m < 12 => MonthBegins(y, m + 1) = MonthBegins(y, m) + days_in_month(y, m)
           /\ m = 12 => MonthBegins(y, m) + days_in_month(y, m) = 365 + Leap(y)
           /\ MonthBegins(y, m) + days_in_month(y, m) <= 365 + Leap(y)
<1>1. \/ m = 1 \/ m = 2 \/ m = 3 \/ m = 4 \/ m = 5 \/ m = 6
      \/ m = 7 \/ m = 8 \/ m = 9 \/ m = 10 \/ m = 11 \/ m = 12
  OBVIOUS
<1> QED
  BY <1>1, Months, LeapDay

\* A month has from 28 to 31 days, and days before it unless it is the first.
LEMMA MonthTyped ==
    ASSUME NEW y \in Int, NEW m \in 1..12
    PROVE  /\ days_in_month(y, m) \in 28..31
           /\ MonthBegins(y, m) \in Nat /\ (m > 1 => MonthBegins(y, m) > 0)
  BY MonthsFollow

\* From a month to the next one.
LEMMA NextMonth ==
    ASSUME NEW y \in Int, NEW m \in 1..11
    PROVE  /\ MonthBegins(y, m) \in Nat /\ days_in_month(y, m) \in 28..31
           /\ MonthBegins(y, m + 1) = MonthBegins(y, m) + days_in_month(y, m)
<1>1. m \in 1..12 /\ m < 12
  OBVIOUS
<1> QED
  BY <1>1, MonthsFollow

\* A month is over before a later one begins.
LEMMA MonthsOrdered ==
    ASSUME NEW y \in Int, NEW e \in 1..12, NEW m \in 1..12, e < m
    PROVE  MonthBegins(y, e) + days_in_month(y, e) <= MonthBegins(y, m)
<1>1. \/ m = 2 \/ m = 3 \/ m = 4 \/ m = 5 \/ m = 6
      \/ m = 7 \/ m = 8 \/ m = 9 \/ m = 10 \/ m = 11 \/ m = 12
  OBVIOUS
<1>2. \/ e = 1 \/ e = 2 \/ e = 3 \/ e = 4 \/ e = 5 \/ e = 6
      \/ e = 7 \/ e = 8 \/ e = 9 \/ e = 10 \/ e = 11
  OBVIOUS
<1> QED
  BY <1>1, <1>2, Months, LeapDay

\* Taking the month lengths off the day of the year finds the month and its day.
LEMMA MonthAndDay ==
    ASSUME NEW y \in Int, NEW m \in 1..12, NEW d \in 1..days_in_month(y, m)
    PROVE  get_month_and_day(MonthBegins(y, m) + d, Leap(y)) = [month |-> m, day |-> d]
<1>a. \A j \in 1..11 :
        /\ MonthBegins(y, j) \in Nat /\ days_in_month(y, j) \in 28..31
        /\ MonthBegins(y, j + 1) = MonthBegins(y, j) + days_in_month(y, j)
  BY NextMonth
<1>0. \A k \in 1..12 : MonthBegins(y, k) \in Nat /\ days_in_month(y, k) \in 28..31
  BY MonthsFollow
<1> DEFINE yday == MonthBegins(y, m) + d
           leap == Leap(y)
           length == <<31, 28 + leap, 31, 30, 31, 30, 31, 31, 30, 31, 30>>
           left[k \in 1..12] == IF k = 1 THEN yday ELSE left[k - 1] - length[k - 1]
           found == CHOOSE k \in 1..12 :
                       /\ k < 12 => left[k] <= length[k]
                       /\ \A earlier \in 1..(k - 1) : left[earlier] > length[earlier]
           Off == [k \in 1..12 |-> yday - MonthBegins(y, k)]
<1>1. get_month_and_day(MonthBegins(y, m) + d, Leap(y)) = [month |-> found, day |-> left[found]]
  BY DEF get_month_and_day
<1>2. \A k \in 1..11 : length[k] = days_in_month(y, k)
  <2> SUFFICES ASSUME NEW k \in 1..11 PROVE length[k] = days_in_month(y, k)
    OBVIOUS
  <2>1. \/ k = 1 \/ k = 2 \/ k = 3 \/ k = 4 \/ k = 5 \/ k = 6
        \/ k = 7 \/ k = 8 \/ k = 9 \/ k = 10 \/ k = 11
    OBVIOUS
  <2> QED
    BY <2>1, Months
<1> HIDE DEF length
<1>3. yday \in Int /\ yday = MonthBegins(y, m) + d /\ d \in Int /\ d <= days_in_month(y, m)
  BY <1>0
<1> HIDE DEF yday
<1>4. Off = [k \in 1..12 |-> IF k = 1 THEN yday ELSE Off[k - 1] - length[k - 1]]
  <2>1. ASSUME NEW k \in 1..12, k # 1
        PROVE  yday - MonthBegins(y, k) = Off[k - 1] - length[k - 1]
    <3>1. PICK j \in 1..11 : k = j + 1 /\ k - 1 = j
      BY <2>1
    <3>2. /\ MonthBegins(y, j) \in Nat /\ days_in_month(y, j) \in 28..31
          /\ MonthBegins(y, j + 1) = MonthBegins(y, j) + days_in_month(y, j)
      BY <1>a
    <3>3. Off[j] = yday - MonthBegins(y, j) /\ length[j] = days_in_month(y, j)
      BY <3>1, <1>2
    <3> QED
      BY <3>1, <3>2, <3>3, <1>3
  <2>2. yday - MonthBegins(y, 1) = yday
    BY <1>3, Months
  <2> QED
    BY <2>1, <2>2
<1>5. left = [k \in 1..12 |-> IF k = 1 THEN yday ELSE left[k - 1] - length[k - 1]]
  <2>1. \E f : f = [k \in 1..12 |-> IF k = 1 THEN yday ELSE f[k - 1] - length[k - 1]]
    BY <1>4
  <2> QED
    BY <2>1, Zenon
<1> HIDE DEF left
<1>6. \A k \in 1..12 : left[k] = yday - MonthBegins(y, k)
  <2>1. left[1] = Off[1]
    BY <1>4, <1>5
  <2>2. ASSUME NEW k \in 1..11, left[k] = Off[k] PROVE left[k + 1] = Off[k + 1]
    <3>1. k + 1 \in 1..12 /\ k + 1 # 1 /\ (k + 1) - 1 = k
      OBVIOUS
    <3>2. left[k + 1] = left[k] - length[k]
      BY <3>1, <1>5
    <3>3. Off[k + 1] = Off[k] - length[k]
      BY <3>1, <1>4
    <3> QED
      BY <3>2, <3>3, <2>2
  <2> HIDE DEF Off
  <2>3. \A k \in 1..12 : left[k] = Off[k]
    BY <2>1, <2>2
  <2> QED
    BY <2>3 DEF Off
<1>7. /\ m < 12 => left[m] <= length[m]
      /\ \A earlier \in 1..(m - 1) : left[earlier] > length[earlier]
  <2>1. left[m] = d /\ (m < 12 => length[m] = days_in_month(y, m))
    BY <1>0, <1>2, <1>3, <1>6
  <2>2. ASSUME NEW e \in 1..(m - 1) PROVE left[e] > length[e]
    <3>1. e \in 1..11 /\ e \in 1..12 /\ e < m
      OBVIOUS
    <3>2. MonthBegins(y, e) + days_in_month(y, e) <= MonthBegins(y, m)
      BY <3>1, MonthsOrdered
    <3>3. left[e] = yday - MonthBegins(y, e) /\ length[e] = days_in_month(y, e)
      BY <3>1, <1>2, <1>6
    <3>4. /\ MonthBegins(y, e) \in Nat /\ days_in_month(y, e) \in 28..31
          /\ MonthBegins(y, m) \in Nat
      BY <3>1, MonthsFollow
    <3> QED
      BY <3>2, <3>3, <3>4, <1>3
  <2> QED
    BY <2>1, <2>2, <1>0, <1>3
<1>8. ASSUME NEW k \in 1..12, k < 12 => left[k] <= length[k],
             \A earlier \in 1..(k - 1) : left[earlier] > length[earlier]
      PROVE  k = m
  <2>1. /\ k \in Int /\ m \in Int
        /\ k < m => k \in 1..(m - 1) /\ k \in 1..11
        /\ m < k => m \in 1..(k - 1) /\ m \in 1..11
    OBVIOUS
  <2>2. CASE k < m
    <3>1. left[k] > length[k] /\ left[k] <= length[k]
      BY <2>1, <2>2, <1>7, <1>8
    <3>2. left[k] = yday - MonthBegins(y, k) /\ length[k] = days_in_month(y, k)
      BY <2>1, <2>2, <1>2, <1>6
    <3> QED
      BY <3>1, <3>2, <1>0, <1>3
  <2>3. CASE m < k
    <3>1. left[m] > length[m] /\ left[m] <= length[m]
      BY <2>1, <2>3, <1>7, <1>8
    <3>2. left[m] = yday - MonthBegins(y, m) /\ length[m] = days_in_month(y, m)
      BY <2>1, <2>3, <1>2, <1>6
    <3> QED
      BY <3>1, <3>2, <1>0, <1>3
  <2> QED
    BY <2>1, <2>2, <2>3
<1>9. found = m
  BY <1>7, <1>8
<1>10. left[m] = d
  BY <1>0, <1>3, <1>6
<1> HIDE DEF found
<1> QED
  BY <1>1, <1>9, <1>10

-----------------------------------------------------------------------------
(* The two routes. *)

\* The day of the week of a day, as process_date has it.
WeekDay(d) == ((d + 52 * 1000 * 7 + 4) % 7) + 1

\* Both routes begin their weeks on the same day.
LEMMA WeekDays ==
    ASSUME NEW d \in Int
    PROVE  WeekDay(d) = ((d + EpochOffset + 1) % 7) + 1 /\ WeekDay(d) \in 1..7
<1>1. (d + 364004) % 7 = (d + 719163) % 7
  OBVIOUS
<1>2. WeekDay(d) = ((d + 364004) % 7) + 1
  BY DEF WeekDay
<1>3. d + EpochOffset + 1 = d + 719163
  BY Lengths
<1>4. (d + 364004) % 7 \in 0..6
  OBVIOUS
<1> QED
  BY <1>1, <1>2, <1>3, <1>4

\* What a whole number of parts and less than one more divide into.
LEMMA Quotient ==
    ASSUME NEW k \in Nat, NEW q \in Int, NEW r \in Int, 0 <= r, r < k
    PROVE  (k * q + r) \div k = q
  BY SMT

\* The route of a timestamp takes a count of days apart into the digits of its
\* year and the day of the year: the last day of a leap cycle, which divides
\* into a fifth century or a fifth year, stays in the fourth.
LEMMA EpochDigits ==
    ASSUME NEW n \in Nat, NEW e \in Nat, e < 365 + Leap(n + 1),
           NEW d \in Int, d = Before(n) + e - 719162
    PROVE  create_timestamp_from_epoch(d)
              = LET date == get_month_and_day(e + 1, Leap(n + 1))
                IN  Fields(n + 1, date.month, date.day, e + 1, WeekDay(d))
<1> DEFINE days == d + EpochOffset
           quadCentury == days \div DaysPerQuadCentury
           ofQuadCentury == days - quadCentury * DaysPerQuadCentury
           century == AtMost3(ofQuadCentury \div DaysPerCentury)
           ofCentury == ofQuadCentury - century * DaysPerCentury
           quadYear == ofCentury \div DaysPerQuadYear
           ofQuadYear == ofCentury - quadYear * DaysPerQuadYear
           yearOfQuad == AtMost3(ofQuadYear \div DaysPerYear)
           yday == ofQuadYear - yearOfQuad * DaysPerYear + 1
           y == 400 * quadCentury + 100 * century + 4 * quadYear + yearOfQuad + 1
           date == get_month_and_day(yday, Leap(y))
<1>1. create_timestamp_from_epoch(d)
         = Fields(y, date.month, date.day, yday, ((days + 1) % 7) + 1)
  BY DEF create_timestamp_from_epoch
<1> HIDE DEF days, quadCentury, ofQuadCentury, century, ofCentury, quadYear, ofQuadYear,
             yearOfQuad, yday, y, date
<1>2. PICK qc : qc = QuadCentury(n)
  OBVIOUS
<1>3. PICK c : c = Century(n)
  OBVIOUS
<1>4. PICK q : q = QuadYear(n)
  OBVIOUS
<1>5. PICK a : a = YearOfQuad(n)
  OBVIOUS
<1>6. qc \in Nat /\ c \in 0..3 /\ q \in 0..24 /\ a \in 0..3
  BY <1>2, <1>3, <1>4, <1>5, DigitRanges, SMT
<1>7. /\ n = 400 * qc + 100 * c + 4 * q + a
      /\ Before(n) = 146097 * qc + 36524 * c + 1461 * q + 365 * a
      /\ isa_leap_year(n + 1) <=> a = 3 /\ (q < 24 \/ c = 3)
  BY <1>2, <1>3, <1>4, <1>5, Digits, SMT
<1>8. e <= 365 /\ (e = 365 => a = 3 /\ (q < 24 \/ c = 3))
  BY <1>7 DEF Leap
<1>9. days = 146097 * qc + 36524 * c + 1461 * q + 365 * a + e
  BY <1>6, <1>7, Lengths, SMT DEF days
\* The day within its quad year, its century and its quad century.
<1>10. PICK e4 : e4 = 365 * a + e
  OBVIOUS
<1>11. e4 \in Nat /\ e4 <= 1460 /\ (e4 = 1460 => a = 3 /\ e = 365)
  BY <1>6, <1>8, <1>10, SMT
<1>12. PICK e100 : e100 = 1461 * q + e4
  OBVIOUS
<1>13. e100 \in Nat /\ e100 <= 36524 /\ (e100 = 36524 => c = 3)
  BY <1>6, <1>8, <1>11, <1>12, SMT
<1>14. PICK e400 : e400 = 36524 * c + e100
  OBVIOUS
<1>15. e400 \in Nat /\ e400 < 146097 /\ days = 146097 * qc + e400
  BY <1>6, <1>9, <1>10, <1>12, <1>13, <1>14, SMT
<1>16. quadCentury = qc
  BY <1>6, <1>15, Lengths, Quotient, 146097 \in Nat, SMT DEF quadCentury
<1>17. ofQuadCentury = e400
  BY <1>6, <1>15, <1>16, Lengths, SMT DEF ofQuadCentury
<1>18. century = c
  <2>1. e400 \div 36524 = IF e100 = 36524 THEN 4 ELSE c
    <3>1. CASE e100 = 36524
      BY <3>1, <1>13, <1>14, SMT
    <3>2. CASE e100 # 36524
      BY <3>2, <1>6, <1>13, <1>14, Quotient, 36524 \in Nat, SMT
    <3> QED
      BY <3>1, <3>2
  <2> QED
    BY <2>1, <1>6, <1>13, <1>17, Lengths, SMT DEF AtMost3, century
<1>19. ofCentury = e100
  BY <1>6, <1>13, <1>14, <1>17, <1>18, Lengths, SMT DEF ofCentury
<1>20. quadYear = q
  BY <1>6, <1>11, <1>12, <1>19, Lengths, Quotient, 1461 \in Nat, SMT DEF quadYear
<1>21. ofQuadYear = e4
  BY <1>6, <1>11, <1>12, <1>19, <1>20, Lengths, SMT DEF ofQuadYear
<1>22. yearOfQuad = a
  <2>1. e4 \div 365 = IF e = 365 THEN 4 ELSE a
    <3>1. CASE e = 365
      BY <3>1, <1>8, <1>10, SMT
    <3>2. CASE e # 365
      BY <3>2, <1>6, <1>8, <1>10, Quotient, 365 \in Nat, SMT
    <3> QED
      BY <3>1, <3>2
  <2> QED
    BY <2>1, <1>6, <1>8, <1>21, Lengths, SMT DEF AtMost3, yearOfQuad
<1>23. yday = e + 1
  BY <1>6, <1>10, <1>21, <1>22, Lengths, SMT DEF yday
<1>24. y = n + 1
  BY <1>6, <1>7, <1>16, <1>18, <1>20, <1>22, SMT DEF y
<1>25. ((days + 1) % 7) + 1 = WeekDay(d)
  BY WeekDays DEF days
<1> QED
  BY <1>1, <1>23, <1>24, <1>25 DEF date

\* The day of the year is where its month begins and the day of the month.
LEMMA DayOfYear ==
    ASSUME NEW y \in Int, NEW m \in 1..12, NEW d \in 1..days_in_month(y, m)
    PROVE  /\ day_of_year_from_date(y, m, d) = MonthBegins(y, m) + d
           /\ day_of_year_from_date(y, m, d) \in 1..(365 + Leap(y))
<1>1. /\ MonthBegins(y, m) \in Nat /\ days_in_month(y, m) \in 28..31
      /\ MonthBegins(y, m) + days_in_month(y, m) <= 365 + Leap(y)
      /\ Leap(y) \in {0, 1}
  BY MonthsFollow, LeapDay
<1>2. d \in Int
  BY <1>1
<1>3. <<0, 31, 59, 90, 120, 151, 181, 212, 243, 273, 304, 334>>[m] \in Int
  OBVIOUS
<1>4. day_of_year_from_date(y, m, d) = MonthBegins(y, m) + d
  BY <1>1, <1>2, <1>3 DEF day_of_year_from_date, MonthBegins
<1> QED
  BY <1>1, <1>2, <1>4

\* What the route of a date computes.
LEMMA ProcessDate ==
    ASSUME NEW y, NEW m, NEW d
    PROVE  LET yday == day_of_year_from_date(y, m, d)
           IN  process_date(y, m, d)
                  = Fields(y, m, d, yday, WeekDay(days_since_epoch(y, yday)))
  BY DEF process_date, WeekDay

(* For every date from the first year on, and not only for the years that     *)
(* process_date accepts, the two routes into the key agree: the millisecond   *)
(* count of a day gives the year, month, day, day of the year and day of the  *)
(* week that the date itself gives.                                           *)
THEOREM RoutesAgree ==
    ASSUME NEW y \in Nat \ {0}, NEW m \in 1..12, NEW d \in 1..days_in_month(y, m)
    PROVE  create_timestamp_from_epoch(days_since_epoch(y, day_of_year_from_date(y, m, d)))
              = process_date(y, m, d)
<1>1. PICK yday : yday = day_of_year_from_date(y, m, d)
  OBVIOUS
<1>2. yday \in 1..(365 + Leap(y)) /\ yday = MonthBegins(y, m) + d /\ Leap(y) \in {0, 1}
  <2>1. yday \in 1..(365 + Leap(y)) /\ yday = MonthBegins(y, m) + d
    BY <1>1, y \in Int, DayOfYear
  <2> QED
    BY <2>1, LeapDay
<1>3. PICK n \in Nat : y = n + 1 /\ y - 1 = n
  OBVIOUS
<1>4. PICK e \in Nat : yday = e + 1 /\ e < 365 + Leap(n + 1)
  BY <1>2, <1>3
<1>5. PICK today : today = days_since_epoch(y, yday)
  OBVIOUS
<1>6. Before(n) \in Int
  BY BeforeIsInt
<1>7. today \in Int /\ today = Before(n) + e - 719162
  <2>1. today = Before(n) + yday - 1 - 719162
    BY <1>2, <1>3, <1>5, DaysSinceEpoch, SMT
  <2> QED
    BY <2>1, <1>2, <1>4, <1>6, SMT
<1>8. create_timestamp_from_epoch(today)
         = LET date == get_month_and_day(e + 1, Leap(n + 1))
           IN  Fields(n + 1, date.month, date.day, e + 1, WeekDay(today))
  BY <1>4, <1>7, EpochDigits, SMT
<1>9. get_month_and_day(e + 1, Leap(n + 1)) = [month |-> m, day |-> d]
  BY <1>2, <1>3, <1>4, MonthAndDay
<1>10. create_timestamp_from_epoch(today) = Fields(y, m, d, yday, WeekDay(today))
  BY <1>3, <1>4, <1>8, <1>9
<1> QED
  BY <1>1, <1>5, <1>10, ProcessDate

-----------------------------------------------------------------------------
(* The walk. *)

(* Where the walk is: at a date of its years, with the count of days, the day *)
(* of the year and the day of the week that belong to that date.  The three   *)
(* counters move by one with each step, so that nothing less is inductive.    *)
WalkInv ==
    /\ year \in FirstYear..LastYear
    /\ month \in 1..12
    /\ dayOfMonth \in 1..days_in_month(year, month)
    /\ dayOfYear = day_of_year_from_date(year, month, dayOfMonth)
    /\ day = days_since_epoch(year, dayOfYear)
    /\ dayOfWeek = WeekDay(day)

\* The lengths of the reference are those of the code.
LEMMA LengthsAgree ==
    ASSUME NEW y \in Int, NEW m \in 1..12
    PROVE  LengthOf(y, m) = days_in_month(y, m) /\ Civil(y) = 365 + Leap(y)
<1>1. Civil(y) = 365 + Leap(y)
  BY DEF Civil, Leap, isa_leap_year
<1>2. \/ m = 1 \/ m = 2 \/ m = 3 \/ m = 4 \/ m = 5 \/ m = 6
      \/ m = 7 \/ m = 8 \/ m = 9 \/ m = 10 \/ m = 11 \/ m = 12
  OBVIOUS
<1> QED
  BY <1>1, <1>2, Months, LeapDay DEF LengthOf

\* The walk begins at its place.
LEMMA WalkInit == Init => WalkInv
<1> SUFFICES ASSUME Init PROVE WalkInv
  OBVIOUS
<1>1. year \in FirstYear..LastYear /\ year = 1970 /\ month = 1 /\ dayOfMonth = 1 /\ day = 0
  BY YearsAssumption DEF Init
<1>2. dayOfMonth \in 1..days_in_month(year, month)
  BY <1>1, Months
<1>3. MonthBegins(1970, 1) = 0 /\ 1 \in 1..days_in_month(1970, 1)
  BY Months
<1>4. dayOfYear = day_of_year_from_date(year, month, dayOfMonth)
  BY <1>1, <1>3, DayOfYear DEF Init
<1>5. days_since_epoch(1970, 1) = 0
  BY Lengths, DaysSinceEpoch, SMT
<1>6. WeekDay(0) = 5
  BY DEF WeekDay
<1> QED
  BY <1>1, <1>2, <1>4, <1>5, <1>6 DEF WalkInv, Init

\* The next day of a date and the first day of the next year, counted.
LEMMA NextDay ==
    ASSUME NEW y \in Nat \ {0}, NEW yday \in Int
    PROVE  /\ days_since_epoch(y, yday) \in Int
           /\ days_since_epoch(y, yday + 1) = days_since_epoch(y, yday) + 1
           /\ days_since_epoch(y + 1, 1) = days_since_epoch(y, 365 + Leap(y)) + 1
<1>1. PICK n \in Nat : y = n + 1 /\ y - 1 = n /\ (y + 1) - 1 = n + 1
  OBVIOUS
<1>2. Before(n) \in Int /\ Before(n + 1) = Before(n) + 365 + Leap(n + 1)
  BY BeforeIsInt, YearLength, SMT
<1>3. Leap(y) \in {0, 1} /\ Leap(n + 1) = Leap(y)
  BY <1>1, LeapDay
<1>4. days_since_epoch(y, yday) = Before(n) + yday - 1 - 719162
  BY <1>1, DaysSinceEpoch, SMT
<1>5. days_since_epoch(y, yday + 1) = Before(n) + (yday + 1) - 1 - 719162
  BY <1>1, DaysSinceEpoch, SMT
<1>6. days_since_epoch(y, 365 + Leap(y)) = Before(n) + (365 + Leap(y)) - 1 - 719162
  BY <1>1, <1>3, DaysSinceEpoch, SMT
<1>7. days_since_epoch(y + 1, 1) = Before(n + 1) + 1 - 1 - 719162
  BY <1>1, DaysSinceEpoch, SMT
<1> QED
  BY <1>2, <1>3, <1>4, <1>5, <1>6, <1>7, SMT

\* The next day of the week.
LEMMA NextWeekDay ==
    ASSUME NEW d \in Int
    PROVE  /\ WeekDay(d + 1) = (WeekDay(d) % 7) + 1
           /\ WeekDay(d) = ((WeekDay(d + 1) + 5) % 7) + 1
<1>1. WeekDay(d) = ((d + 364004) % 7) + 1 /\ WeekDay(d + 1) = ((d + 364005) % 7) + 1
  BY SMT DEF WeekDay
<1> QED
  BY <1>1, SMT

(* The day after a date of the walk: the next day of the month, or the first  *)
(* of the next month, or the first of January.                                *)
LEMMA TomorrowKeeps == WalkInv /\ Tomorrow => WalkInv'
<1> SUFFICES ASSUME WalkInv, Tomorrow PROVE WalkInv'
  OBVIOUS
<1>1. /\ year \in Nat \ {0} /\ year \in Int /\ year \in FirstYear..LastYear /\ month \in 1..12
      /\ dayOfMonth \in 1..days_in_month(year, month)
      /\ dayOfYear = MonthBegins(year, month) + dayOfMonth
      /\ day = days_since_epoch(year, dayOfYear) /\ dayOfWeek = WeekDay(day)
  BY YearsAssumption, DayOfYear DEF WalkInv
<1>2. /\ LengthOf(year, month) = days_in_month(year, month)
      /\ days_in_month(year, month) \in 28..31 /\ MonthBegins(year, month) \in Nat
  <2>1. LengthOf(year, month) = days_in_month(year, month)
    BY <1>1, LengthsAgree
  <2> QED
    BY <2>1, <1>1, MonthsFollow
<1>3. /\ dayOfYear \in Int /\ day \in Int
      /\ days_since_epoch(year, dayOfYear + 1) = day + 1
      /\ days_since_epoch(year + 1, 1) = days_since_epoch(year, 365 + Leap(year)) + 1
  <2>1. dayOfYear \in Int /\ dayOfMonth \in Int
    BY <1>1, <1>2
  <2> QED
    BY <2>1, <1>1, NextDay
<1>4. /\ year' \in FirstYear..LastYear /\ month' \in 1..12
      /\ dayOfMonth' \in 1..days_in_month(year', month')
      /\ dayOfYear' = MonthBegins(year', month') + dayOfMonth'
      /\ day' = days_since_epoch(year', dayOfYear')
  <2>1. CASE dayOfMonth < LengthOf(year, month)
    <3>1. year' = year /\ month' = month /\ dayOfMonth' = dayOfMonth + 1
          /\ dayOfYear' = dayOfYear + 1 /\ day' = day + 1
      BY <2>1 DEF Tomorrow
    <3> QED
      BY <1>1, <1>2, <1>3, <2>1, <3>1
  <2>2. CASE dayOfMonth >= LengthOf(year, month) /\ month < 12
    <3>1. year' = year /\ month' = month + 1 /\ dayOfMonth' = 1
          /\ dayOfYear' = dayOfYear + 1 /\ day' = day + 1
      BY <1>1, <1>2, <2>2 DEF Tomorrow
    <3>2. MonthBegins(year, month + 1) = MonthBegins(year, month) + days_in_month(year, month)
      BY <1>1, <2>2, MonthsFollow
    <3>3. days_in_month(year, month + 1) \in 28..31
      <4>1. month + 1 \in 1..12
        BY <1>1, <2>2
      <4> QED
        BY <4>1, <1>1, MonthsFollow
    <3> QED
      BY <1>1, <1>2, <1>3, <2>2, <3>1, <3>2, <3>3
  <2>3. CASE dayOfMonth >= LengthOf(year, month) /\ month = 12
    <3>1. year' = year + 1 /\ month' = 1 /\ dayOfMonth' = 1
          /\ dayOfYear' = 1 /\ day' = day + 1 /\ year' <= LastYear
      BY <1>1, <1>2, <2>3 DEF Tomorrow
    <3>2. MonthBegins(year, month) + days_in_month(year, month) = 365 + Leap(year)
      BY <1>1, <2>3, MonthsFollow
    <3>3. dayOfYear = 365 + Leap(year)
      BY <1>1, <1>2, <2>3, <3>2
    <3>4. MonthBegins(year + 1, 1) = 0 /\ days_in_month(year + 1, 1) = 31
      BY <1>1, Months
    <3>5. year + 1 \in FirstYear..LastYear
      BY <1>1, <3>1, YearsAssumption
    <3> QED
      BY <1>1, <1>3, <3>1, <3>3, <3>4, <3>5
  <2> QED
    BY <1>1, <1>2, <2>1, <2>2, <2>3
<1>5. dayOfWeek' = WeekDay(day')
  BY <1>1, <1>3, NextWeekDay DEF Tomorrow
<1>6. dayOfYear' = day_of_year_from_date(year', month', dayOfMonth')
  BY <1>4, YearsAssumption, year' \in Int, DayOfYear
<1> QED
  BY <1>4, <1>5, <1>6 DEF WalkInv

(* The day before a date of the walk, with the lengths of the month and the   *)
(* year that it may go back to.                                               *)
LEMMA YesterdayKeeps == WalkInv /\ Yesterday => WalkInv'
<1> SUFFICES ASSUME WalkInv, Yesterday PROVE WalkInv'
  OBVIOUS
<1>1. /\ year \in Nat \ {0} /\ year \in Int /\ year \in FirstYear..LastYear
      /\ month \in 1..12 /\ dayOfMonth \in 1..days_in_month(year, month)
      /\ dayOfYear = MonthBegins(year, month) + dayOfMonth
      /\ day = days_since_epoch(year, dayOfYear) /\ dayOfWeek = WeekDay(day)
  BY YearsAssumption, DayOfYear DEF WalkInv
<1>2. days_in_month(year, month) \in 28..31 /\ MonthBegins(year, month) \in Nat
  BY <1>1, MonthsFollow
<1>3. dayOfYear \in Int /\ dayOfYear - 1 \in Int /\ (dayOfYear - 1) + 1 = dayOfYear
      /\ dayOfMonth \in Int
  BY <1>1, <1>2
<1>4. day \in Int /\ days_since_epoch(year, dayOfYear - 1) \in Int
      /\ days_since_epoch(year, dayOfYear) = days_since_epoch(year, dayOfYear - 1) + 1
  <2>1. day \in Int
    BY <1>1, <1>3, NextDay
  <2> QED
    BY <2>1, <1>1, <1>3, NextDay
<1>5. /\ year' \in FirstYear..LastYear /\ month' \in 1..12
      /\ dayOfMonth' \in 1..days_in_month(year', month')
      /\ dayOfYear' = MonthBegins(year', month') + dayOfMonth'
      /\ day' = days_since_epoch(year', dayOfYear')
  <2>1. CASE dayOfMonth > 1
    <3>1. dayOfYear > 1
      BY <1>1, <1>2, <1>3, <2>1
    <3>2. year' = year /\ month' = month /\ dayOfMonth' = dayOfMonth - 1
          /\ dayOfYear' = dayOfYear - 1 /\ day' = day - 1
      BY <2>1, <3>1 DEF Yesterday
    <3> QED
      BY <1>1, <1>2, <1>3, <1>4, <2>1, <3>2
  <2>2. CASE dayOfMonth = 1 /\ month > 1
    <3>1. PICK m \in 1..12 : m < 12 /\ month = m + 1 /\ ((month + 10) % 12) + 1 = m
      BY <1>1, <2>2
    <3>2. /\ MonthBegins(year, m) \in Nat /\ days_in_month(year, m) \in 28..31
          /\ MonthBegins(year, m + 1) = MonthBegins(year, m) + days_in_month(year, m)
          /\ LengthOf(year, m) = days_in_month(year, m)
      <4>1. LengthOf(year, m) = days_in_month(year, m)
        BY <1>1, LengthsAgree
      <4> QED
        BY <4>1, <1>1, <3>1, MonthsFollow
    <3>3. dayOfYear > 1
      BY <1>1, <1>3, <2>2, <3>1, <3>2
    <3>4. year' = year /\ month' = m /\ dayOfMonth' = days_in_month(year, m)
          /\ dayOfYear' = dayOfYear - 1 /\ day' = day - 1
      BY <2>2, <3>1, <3>2, <3>3 DEF Yesterday
    <3> QED
      BY <1>1, <1>3, <1>4, <2>2, <3>1, <3>2, <3>4
  <2>3. CASE dayOfMonth = 1 /\ month = 1
    <3>1. MonthBegins(year, 1) = 0
      BY <1>1, Months
    <3>2. dayOfYear = 1
      BY <1>1, <2>3, <3>1
    <3>3. PICK y \in Int : year = y + 1 /\ year - 1 = y
      BY <1>1
    <3>4. /\ year' = y /\ month' = 12 /\ dayOfMonth' = LengthOf(y, 12)
          /\ dayOfYear' = Civil(y) /\ day' = day - 1 /\ y >= FirstYear
      BY <2>3, <3>2, <3>3 DEF Yesterday
    <3>5. y \in Nat \ {0} /\ y \in FirstYear..LastYear
      BY <1>1, <3>3, <3>4, YearsAssumption
    <3>6. LengthOf(y, 12) = days_in_month(y, 12) /\ Civil(y) = 365 + Leap(y)
      BY <3>3, LengthsAgree
    <3>7. days_in_month(y, 12) = 31 /\ MonthBegins(y, 12) = 334 + Leap(y) /\ Leap(y) \in {0, 1}
      BY <3>3, Months, LeapDay
    <3>8. PICK last \in Int : last = 365 + Leap(y)
      BY <3>7
    <3>9. /\ days_since_epoch(y, last) \in Int
          /\ days_since_epoch(y + 1, 1) = days_since_epoch(y, last) + 1
      BY <3>5, <3>8, NextDay
    <3>10. day' = days_since_epoch(y, last)
      BY <1>1, <3>2, <3>3, <3>4, <3>9
    <3> QED
      BY <3>4, <3>5, <3>6, <3>7, <3>8, <3>10
  <2> QED
    BY <1>1, <1>2, <1>3, <2>1, <2>2, <2>3
<1>6. dayOfWeek' = WeekDay(day')
  <2>1. day - 1 \in Int /\ (day - 1) + 1 = day /\ day' = day - 1
    BY <1>4 DEF Yesterday
  <2>2. WeekDay(day - 1) = ((WeekDay(day) + 5) % 7) + 1
    BY <2>1, NextWeekDay
  <2> QED
    BY <2>1, <2>2, <1>1 DEF Yesterday
<1>7. dayOfYear' = day_of_year_from_date(year', month', dayOfMonth')
  BY <1>5, YearsAssumption, year' \in Int, DayOfYear
<1> QED
  BY <1>5, <1>6, <1>7 DEF WalkInv

\* The walk never leaves the closed form.
LEMMA WalkInvariance == Spec => []WalkInv
<1>1. WalkInv /\ [Next]_vars => WalkInv'
  <2>1. WalkInv /\ UNCHANGED vars => WalkInv'
    BY DEF WalkInv, vars
  <2> QED
    BY <2>1, TomorrowKeeps, YesterdayKeeps DEF Next
<1> QED
  BY <1>1, WalkInit, PTL DEF Spec

\* On the walk the two routes agree with it.
LEMMA WalkAgrees == WalkInv => KeyFieldsAgree
<1> SUFFICES ASSUME WalkInv PROVE KeyFieldsAgree
  OBVIOUS
<1>1. /\ year \in Nat \ {0} /\ year \in 1000..2900 /\ month \in 1..12
      /\ dayOfMonth \in 1..days_in_month(year, month)
  BY YearsAssumption DEF WalkInv
<1>2. DateValid(year, month, dayOfMonth)
  BY <1>1 DEF DateValid
<1>3. process_date(year, month, dayOfMonth) = Today
  BY ProcessDate DEF WalkInv, Today
<1>4. create_timestamp_from_epoch(days_since_epoch(year,
             day_of_year_from_date(year, month, dayOfMonth)))
         = process_date(year, month, dayOfMonth)
  BY <1>1, RoutesAgree
<1>5. create_timestamp_from_epoch(day) = process_date(year, month, dayOfMonth)
  BY <1>4 DEF WalkInv
<1> QED
  BY <1>2, <1>3, <1>5 DEF KeyFieldsAgree

(* Every day of the calendar is a valid date, and its two routes into the     *)
(* key, create_timestamp_from_epoch_ms and process_date, give its fields.     *)
THEOREM KeyFieldsCorrect == Spec => []KeyFieldsAgree
  BY WalkInvariance, WalkAgrees, PTL

-----------------------------------------------------------------------------
(* The packed date. *)

\* The fields of a date before they are shifted together.
InFields(f) ==
    /\ f.year \in 1000..2900 /\ f.month \in 1..12 /\ f.day \in 1..31
    /\ f.yday \in 1..366 /\ f.wday \in 1..7

\* The shifts, as multiplications.
LEMMA DateKey ==
    ASSUME NEW f
    PROVE  create_date_from_fields(f)
              = (f.year - 1900) * 2097152 + f.month * 131072 + f.day * 4096 + f.yday * 8 + f.wday
<1>1. 2^21 = 2097152 /\ 2^17 = 131072 /\ 2^3 = 8
  BY SMT
<1>2. 2^ShiftDay = 4096
  BY SMT DEF ShiftDay
<1> QED
  BY <1>1, <1>2, SMT DEF create_date_from_fields

\* Of two dates, the one that comes first.
Earlier(f, g) ==
    \/ f.year < g.year
    \/ f.year = g.year /\ f.month < g.month
    \/ f.year = g.year /\ f.month = g.month /\ f.day < g.day

\* Below the bits of the month: neither the day of the year and of the week nor
\* the day reach into the field before.
LEMMA LowFields ==
    ASSUME NEW d \in 1..31, NEW yd \in 1..366, NEW wd \in 1..7
    PROVE  /\ d * 4096 + yd * 8 + wd \in Int
           /\ d * 4096 < d * 4096 + yd * 8 + wd
           /\ d * 4096 + yd * 8 + wd < (d + 1) * 4096
  BY SMT

\* The bits below the month.
Low(f) == f.day * 4096 + f.yday * 8 + f.wday

\* The fields of a packed date.
LEMMA DateKeyParts ==
    ASSUME NEW f, InFields(f)
    PROVE  /\ f.year \in Int /\ 1000 <= f.year /\ f.year <= 2900
           /\ f.month \in Int /\ 1 <= f.month /\ f.month <= 12
           /\ f.day \in Int /\ 1 <= f.day /\ f.day <= 31
           /\ Low(f) \in Int /\ f.day * 4096 < Low(f) /\ Low(f) < (f.day + 1) * 4096
           /\ create_date_from_fields(f)
                 = (f.year - 1900) * 2097152 + f.month * 131072 + Low(f)
<1>1. PICK y : y = f.year
  OBVIOUS
<1>2. PICK m : m = f.month
  OBVIOUS
<1>3. PICK d : d = f.day
  OBVIOUS
<1>4. PICK yd : yd = f.yday
  OBVIOUS
<1>5. PICK wd : wd = f.wday
  OBVIOUS
<1>6. y \in 1000..2900 /\ m \in 1..12 /\ d \in 1..31 /\ yd \in 1..366 /\ wd \in 1..7
  BY <1>1, <1>2, <1>3, <1>4, <1>5, SMT DEF InFields
<1>7. PICK low : low = Low(f)
  OBVIOUS
<1>8. low \in Int /\ d * 4096 < low /\ low < (d + 1) * 4096
  <2>1. low = d * 4096 + yd * 8 + wd
    BY <1>3, <1>4, <1>5, <1>7, SMT DEF Low
  <2>2. /\ d * 4096 + yd * 8 + wd \in Int
        /\ d * 4096 < d * 4096 + yd * 8 + wd
        /\ d * 4096 + yd * 8 + wd < (d + 1) * 4096
    BY <1>6, LowFields, SMT
  <2> QED
    BY <2>1, <2>2, SMT
<1>9. create_date_from_fields(f)
         = (y - 1900) * 2097152 + m * 131072 + d * 4096 + yd * 8 + wd
  BY <1>1, <1>2, <1>3, <1>4, <1>5, DateKey, SMT
<1>10. create_date_from_fields(f) = (y - 1900) * 2097152 + m * 131072 + low
  <2>1. low = d * 4096 + yd * 8 + wd
    BY <1>3, <1>4, <1>5, <1>7, SMT DEF Low
  <2> QED
    BY <2>1, <1>6, <1>9, SMT
<1>11. y \in Int /\ m \in Int /\ d \in Int
       /\ 1000 <= y /\ y <= 2900 /\ 1 <= m /\ m <= 12 /\ 1 <= d /\ d <= 31
  BY <1>6, SMT
<1> QED
  BY <1>1, <1>2, <1>3, <1>7, <1>8, <1>10, <1>11, SMT

(* Packed dates are in the order of the dates, whichever two are compared, for *)
(* years before 1900 that pack as negative numbers too: no field reaches into  *)
(* the bits of the one before it, and the year stays in the sign and the ten   *)
(* bits that the shift by 21 leaves it of 32.                                  *)
THEOREM DateKeyIsOrder ==
    ASSUME NEW f, NEW g, InFields(f), InFields(g)
    PROVE  /\ create_date_from_fields(f) \in Int
           /\ (-1024) * 2097152 <= create_date_from_fields(f)
           /\ create_date_from_fields(f) < 1024 * 2097152
           /\ Earlier(f, g) => create_date_from_fields(f) < create_date_from_fields(g)
<1>1. /\ f.year \in Int /\ 1000 <= f.year /\ f.year <= 2900
      /\ f.month \in Int /\ 1 <= f.month /\ f.month <= 12
      /\ f.day \in Int /\ 1 <= f.day /\ f.day <= 31
      /\ Low(f) \in Int /\ f.day * 4096 < Low(f) /\ Low(f) < (f.day + 1) * 4096
      /\ create_date_from_fields(f) = (f.year - 1900) * 2097152 + f.month * 131072 + Low(f)
  BY DateKeyParts, SMT
<1>2. /\ g.year \in Int /\ 1000 <= g.year /\ g.year <= 2900
      /\ g.month \in Int /\ 1 <= g.month /\ g.month <= 12
      /\ g.day \in Int /\ 1 <= g.day /\ g.day <= 31
      /\ Low(g) \in Int /\ g.day * 4096 < Low(g) /\ Low(g) < (g.day + 1) * 4096
      /\ create_date_from_fields(g) = (g.year - 1900) * 2097152 + g.month * 131072 + Low(g)
  BY DateKeyParts, SMT
<1>3. /\ create_date_from_fields(f) \in Int
      /\ (-1024) * 2097152 <= create_date_from_fields(f)
      /\ create_date_from_fields(f) < 1024 * 2097152
  BY <1>1, SMT
<1>4. ASSUME Earlier(f, g) PROVE create_date_from_fields(f) < create_date_from_fields(g)
  <2>1. CASE f.year < g.year
    BY <2>1, <1>1, <1>2, SMT
  <2>2. CASE f.year = g.year /\ f.month < g.month
    BY <2>2, <1>1, <1>2, SMT
  <2>3. CASE f.year = g.year /\ f.month = g.month /\ f.day < g.day
    BY <2>3, <1>1, <1>2, SMT
  <2> QED
    BY <1>4, <2>1, <2>2, <2>3, SMT DEF Earlier
<1> QED
  BY <1>3, <1>4, SMT

\* The fields of a day of the walk are in their ranges.
LEMMA TodayInFields == WalkInv => InFields(Today)
<1> SUFFICES ASSUME WalkInv PROVE InFields(Today)
  OBVIOUS
<1>1. /\ year \in Int /\ year \in 1000..2900 /\ month \in 1..12
      /\ dayOfMonth \in 1..days_in_month(year, month)
      /\ dayOfYear \in 1..(365 + Leap(year))
  BY YearsAssumption, DayOfYear DEF WalkInv
<1>2. dayOfMonth \in 1..31 /\ dayOfYear \in 1..366
  <2>1. days_in_month(year, month) \in 28..31
    <3>1. year \in Int /\ month \in 1..12
      BY <1>1
    <3> QED
      BY <3>1, MonthTyped
  <2>2. Leap(year) \in {0, 1}
    BY LeapDay
  <2> QED
    BY <2>1, <2>2, <1>1
<1>3. dayOfWeek \in 1..7
  <2>2. year \in Nat \ {0} /\ dayOfYear \in Int
    BY <1>1, <1>2
  <2>3. day \in Int
    BY <2>2, NextDay DEF WalkInv
  <2> QED
    BY <2>3, WeekDays DEF WalkInv
<1> QED
  BY <1>1, <1>2, <1>3 DEF InFields, Today, Fields

\* A step of the walk goes to a later or to an earlier date, as it counts.
LEMMA StepsOrdered ==
    ASSUME WalkInv
    PROVE  /\ Tomorrow => Earlier(Today, Today') /\ day' > day
           /\ Yesterday => Earlier(Today', Today) /\ ~(day' > day)
<1>1. /\ year \in Int /\ month \in 1..12 /\ dayOfMonth \in Int /\ day \in Int
      /\ 1 <= dayOfMonth /\ dayOfMonth <= days_in_month(year, month)
      /\ LengthOf(year, month) = days_in_month(year, month)
      /\ days_in_month(year, month) \in 28..31
      /\ dayOfYear = MonthBegins(year, month) + dayOfMonth
      /\ MonthBegins(year, month) \in Nat /\ (month > 1 => MonthBegins(year, month) > 0)
      /\ MonthBegins(year, 1) = 0
  <2>1. /\ year \in Int /\ year \in Nat \ {0} /\ month \in 1..12
        /\ dayOfMonth \in 1..days_in_month(year, month)
        /\ dayOfYear = MonthBegins(year, month) + dayOfMonth
    BY YearsAssumption, DayOfYear DEF WalkInv
  <2>2. LengthOf(year, month) = days_in_month(year, month)
    BY <2>1, LengthsAgree
  <2>3. /\ days_in_month(year, month) \in 28..31
        /\ MonthBegins(year, month) \in Nat /\ (month > 1 => MonthBegins(year, month) > 0)
    BY <2>1, MonthTyped
  <2>4. MonthBegins(year, 1) = 0
    BY <2>1, Months
  <2>5. dayOfMonth \in Int /\ dayOfYear \in Int
    BY <2>1, <2>3
  <2>6. day \in Int
    BY <2>1, <2>5, NextDay DEF WalkInv
  <2> QED
    BY <2>1, <2>2, <2>3, <2>4, <2>5, <2>6
<1>2. ASSUME Tomorrow PROVE Earlier(Today, Today') /\ day' > day
  <2>1. day' > day
    BY <1>1, <1>2 DEF Tomorrow
  <2>2. \/ year' = year /\ month' = month /\ dayOfMonth' = dayOfMonth + 1
        \/ year' = year /\ month' = month + 1
        \/ year' = year + 1
    BY <1>1, <1>2 DEF Tomorrow
  <2> QED
    BY <1>1, <2>1, <2>2 DEF Earlier, Today, Fields
<1>3. ASSUME Yesterday PROVE Earlier(Today', Today) /\ ~(day' > day)
  <2>1. ~(day' > day)
    BY <1>1, <1>3 DEF Yesterday
  <2>2. CASE dayOfMonth > 1
    <3>1. dayOfYear > 1
      BY <1>1, <2>2
    <3>2. year' = year /\ month' = month /\ dayOfMonth' = dayOfMonth - 1
      BY <1>3, <2>2, <3>1 DEF Yesterday
    <3> QED
      BY <1>1, <2>1, <3>2 DEF Earlier, Today, Fields
  <2>3. CASE dayOfMonth = 1 /\ month > 1
    <3>1. dayOfYear > 1
      BY <1>1, <2>3
    <3>2. year' = year /\ month' = month - 1
      BY <1>1, <1>3, <2>3, <3>1 DEF Yesterday
    <3> QED
      BY <1>1, <2>1, <3>2 DEF Earlier, Today, Fields
  <2>4. CASE dayOfMonth = 1 /\ month = 1
    <3>1. ~(dayOfYear > 1)
      BY <1>1, <2>4
    <3>2. year' = year - 1
      BY <1>3, <3>1 DEF Yesterday
    <3> QED
      BY <1>1, <2>1, <3>2 DEF Earlier, Today, Fields
  <2> QED
    BY <1>1, <2>2, <2>3, <2>4
<1> QED
  BY <1>2, <1>3

(* A packed date is greater than the one of the day before, and the days of    *)
(* the walk compare as their keys do: create_date_from_fields.                 *)
THEOREM DateKeyCorrect == Spec => DateKeyOrders
<1>0. WalkInv' => InFields(Today)'
  BY TodayInFields, PTL
<1>1. ASSUME WalkInv, WalkInv', [Next]_vars
      PROVE  [LET key == create_date_from_fields(process_date(year, month, dayOfMonth))
              IN  day' > day <=> key' > key]_vars
  <2>1. PICK key : key = create_date_from_fields(Today)
    OBVIOUS
  <2>2. PICK next : next = create_date_from_fields(Today')
    OBVIOUS
  <2>3. process_date(year, month, dayOfMonth) = Today
    BY <1>1, ProcessDate DEF WalkInv, Today
  <2>4. process_date(year', month', dayOfMonth') = Today'
    BY <1>1, ProcessDate DEF WalkInv, Today
  <2>5. InFields(Today)
    BY <1>1, TodayInFields
  <2>6. InFields(Today')
    <3>1. InFields(Today)'
      BY <1>1, <1>0
    <3> QED
      BY <3>1, Zenon DEF InFields
  <2>7. key \in Int /\ next \in Int
    BY <2>1, <2>2, <2>5, <2>6, DateKeyIsOrder, SMT
  <2>8. CASE Tomorrow
    <3>1. Earlier(Today, Today') /\ day' > day
      BY <1>1, <2>8, StepsOrdered
    <3>2. key < next
      BY <3>1, <2>1, <2>2, <2>5, <2>6, DateKeyIsOrder, SMT
    <3> QED
      BY <3>1, <3>2, <2>1, <2>2, <2>3, <2>4, <2>7
  <2>9. CASE Yesterday
    <3>1. Earlier(Today', Today) /\ ~(day' > day)
      BY <1>1, <2>9, StepsOrdered
    <3>2. next < key
      BY <3>1, <2>1, <2>2, <2>5, <2>6, DateKeyIsOrder, SMT
    <3> QED
      BY <3>1, <3>2, <2>1, <2>2, <2>3, <2>4, <2>7
  <2>10. CASE UNCHANGED vars
    BY <2>10
  <2> QED
    BY <1>1, <2>8, <2>9, <2>10 DEF Next
<1> QED
  BY <1>1, WalkInvariance, PTL DEF Spec, DateKeyOrders
=============================================================================
