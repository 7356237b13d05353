-------------------------- MODULE TimeParse_proofs --------------------------
(***************************************************************************)
(* Lemmas about TimeParse.  First the civil dates, for every year: the     *)
(* epoch days are the calendar's, and a day gives back its date; years and *)
(* months that begin in March are the common ground.  Then the bytes       *)
(* parse_time accepts, for texts of every length: what it finds by         *)
(* splitting at colons is what the documented shapes spell out.            *)
(***************************************************************************)
EXTENDS Query, SequenceTheorems, WellFoundedInduction, TLAPS

------------------------------------------------------------------------------
(* The calendar.                                                           *)

(* days_in_month is the length of the month.                               *)
LEMMA MonthLengths ==
  ASSUME NEW y \in Int, NEW m \in 1..12
  PROVE  /\ MonthLength(y, m) \in 28..31
         /\ days_in_month(y, m) = MonthLength(y, m)
BY DEF MonthLength, days_in_month, LeapYear

LeapDay(y) == IF LeapYear(y) THEN 1 ELSE 0
MonthStart(y, m) ==
  <<0, 31, 59, 90, 120, 151, 181, 212, 243, 273, 304, 334>>[m] + (IF m > 2 THEN LeapDay(y) ELSE 0)

(* The sum of the lengths of the months before a month, as a table.        *)
LEMMA MonthStarts ==
  ASSUME NEW y \in Int, NEW m \in 1..12
  PROVE  DaysBeforeMonth(y, m) = MonthStart(y, m)
<1> DEFINE Step(f) == [k \in 1..12 |-> IF k = 1 THEN 0 ELSE f[k - 1] + MonthLength(y, k - 1)]
           table == [k \in 1..12 |-> MonthStart(y, k)]
<1>1. /\ MonthStart(y, 1) = 0
      /\ \A k \in 2..12 : MonthStart(y, k) = MonthStart(y, k - 1) + MonthLength(y, k - 1)
  BY DEF MonthStart, LeapDay, MonthLength
<1>2. table = Step(table)
  BY <1>1
<1> DEFINE sum == CHOOSE f : f = Step(f)
<1>3. sum = Step(sum)
  BY <1>2
<1>4. DaysBeforeMonth(y, m) = sum[m]
  BY DEF DaysBeforeMonth
<1> HIDE DEF sum
<1>5. sum[1] = 0 /\ \A k \in 2..12 : sum[k] = sum[k - 1] + MonthLength(y, k - 1)
  BY <1>3
<1> HIDE DEF Step, table
<1>6. /\ sum[1] = MonthStart(y, 1) /\ sum[2] = MonthStart(y, 2) /\ sum[3] = MonthStart(y, 3)
      /\ sum[4] = MonthStart(y, 4) /\ sum[5] = MonthStart(y, 5) /\ sum[6] = MonthStart(y, 6)
  BY <1>1, <1>5
<1>7. /\ sum[7] = MonthStart(y, 7) /\ sum[8] = MonthStart(y, 8) /\ sum[9] = MonthStart(y, 9)
      /\ sum[10] = MonthStart(y, 10) /\ sum[11] = MonthStart(y, 11) /\ sum[12] = MonthStart(y, 12)
  BY <1>1, <1>5, <1>6
<1>8. m \in {1, 2, 3, 4, 5, 6, 7, 8, 9, 10, 11, 12}
  OBVIOUS
<1>9. QED
  BY <1>4, <1>6, <1>7, <1>8

(* Days of the years that begin in March, from year 0 to year y.           *)
MarchYears(y) == 365 * y + y \div 4 - y \div 100 + y \div 400

(* The era of a year rounds downwards, for years before 0 as well.         *)
LEMMA EraIsDiv == ASSUME NEW y \in Int PROVE Era(y) = y \div 400
BY SMT DEF Era, TruncDiv

(* Up to February the year before has begun in March.                      *)
LEMMA YearsFromJanuary ==
  ASSUME NEW y \in Int
  PROVE  MarchYears(y - 1) = DaysBeforeYear(y) - 366
<1>1. /\ (y - 1) \div 4 = (y + 3) \div 4 - 1
      /\ (y - 1) \div 100 = (y + 99) \div 100 - 1
      /\ (y - 1) \div 400 = (y + 399) \div 400 - 1
  BY SMT
<1>2. QED
  BY <1>1, SMT DEF MarchYears, DaysBeforeYear, LeapYearsBefore

(* From March on the leap day of the year is behind.                       *)
LEMMA YearsFromMarch ==
  ASSUME NEW y \in Int
  PROVE  MarchYears(y) = DaysBeforeYear(y) + LeapDay(y) - 1
<1>1. /\ (y + 3) \div 4 = y \div 4 + (IF y % 4 = 0 THEN 0 ELSE 1)
      /\ (y + 99) \div 100 = y \div 100 + (IF y % 100 = 0 THEN 0 ELSE 1)
      /\ (y + 399) \div 400 = y \div 400 + (IF y % 400 = 0 THEN 0 ELSE 1)
  BY SMT
<1>2. (y % 400 = 0 => y % 100 = 0) /\ (y % 100 = 0 => y % 4 = 0)
  BY SMT
<1> DEFINE q == y \div 4
           c == y \div 100
           e == y \div 400
           a == y % 4
           b == y % 100
           f == y % 400
<1>3. q \in Int /\ c \in Int /\ e \in Int /\ a \in Int /\ b \in Int /\ f \in Int
  BY SMT
<1>4. DaysBeforeYear(y) = 365 * y + (q + (IF a = 0 THEN 0 ELSE 1)) - (c + (IF b = 0 THEN 0 ELSE 1))
                            + (e + (IF f = 0 THEN 0 ELSE 1))
  BY <1>1 DEF DaysBeforeYear, LeapYearsBefore
<1>5. LeapDay(y) = IF (a = 0 /\ b # 0) \/ f = 0 THEN 1 ELSE 0
  BY DEF LeapDay, LeapYear
<1>6. MarchYears(y) = 365 * y + q - c + e
  BY DEF MarchYears
<1>7. (f = 0 => b = 0) /\ (b = 0 => a = 0)
  BY <1>2
<1> HIDE DEF q, c, e, a, b, f
<1>8. QED
  BY <1>3, <1>4, <1>5, <1>6, <1>7, SMT

(* Days of the months that begin in March.                                 *)
MarchMonths(m) == (153 * ((m + 9) % 12) + 2) \div 5

(* The line (153 * mp + 2) / 5 goes through the starts of the months.      *)
LEMMA MonthsFromMarch ==
  ASSUME NEW y \in Int, NEW m \in 1..12
  PROVE  MarchMonths(m) = IF m <= 2 THEN MonthStart(y, m) + 306 ELSE MonthStart(y, m) - LeapDay(y) - 59
<1>1. LeapDay(y) \in Int
  BY DEF LeapDay
<1>2. /\ MarchMonths(1) = 306 /\ MarchMonths(2) = 337 /\ MarchMonths(3) = 0 /\ MarchMonths(4) = 31
      /\ MarchMonths(5) = 61 /\ MarchMonths(6) = 92 /\ MarchMonths(7) = 122 /\ MarchMonths(8) = 153
      /\ MarchMonths(9) = 184 /\ MarchMonths(10) = 214 /\ MarchMonths(11) = 245 /\ MarchMonths(12) = 275
  BY SMT DEF MarchMonths
<1>3. m \in {1, 2, 3, 4, 5, 6, 7, 8, 9, 10, 11, 12}
  OBVIOUS
<1> HIDE DEF MarchMonths, LeapDay
<1>4. QED
  BY <1>1, <1>2, <1>3, SMT DEF MonthStart

EpochMarch == 719469

(* days_from_civil splits a day number into March years and March months.  *)
LEMMA CivilIsMarch ==
  ASSUME NEW y \in Int, NEW m \in 1..12, NEW d \in Int
  PROVE  /\ m <= 2 => days_from_civil(y, m, d) = MarchYears(y - 1) + MarchMonths(m) + d - EpochMarch
         /\ m > 2 => days_from_civil(y, m, d) = MarchYears(y) + MarchMonths(m) + d - EpochMarch
<1> DEFINE z == IF m <= 2 THEN y - 1 ELSE y
           yoe == z - (z \div 400) * 400
           mp == (m + 9) % 12
<1>1. z \in Int /\ mp \in 0..11 /\ yoe \in 0..399
  BY SMT
<1>2. Era(z) = z \div 400
  BY <1>1, EraIsDiv
<1>3. days_from_civil(y, m, d)
        = (z \div 400) * 146097 + yoe * 365 + TruncDiv(yoe, 4) - TruncDiv(yoe, 100)
            + TruncDiv(153 * mp + 2, 5) + d - 1 - 719468
  <2>1. yoe = z - Era(z) * 400
    BY <1>2
  <2> HIDE DEF z, mp, yoe
  <2>2. days_from_civil(y, m, d) = Era(z) * 146097
          + ((yoe * 365 + TruncDiv(yoe, 4) - TruncDiv(yoe, 100))
             + (TruncDiv(153 * mp + 2, 5) + d - 1)) - 719468
    BY <2>1, SMT DEF days_from_civil, z, mp
  <2>3. TruncDiv(yoe, 4) \in Int /\ TruncDiv(yoe, 100) \in Int /\ TruncDiv(153 * mp + 2, 5) \in Int
    BY <1>1, SMT DEF TruncDiv
  <2>4. z \div 400 \in Int
    BY <1>1, SMT
  <2>5. QED
    BY <1>1, <1>2, <2>2, <2>3, <2>4, SMT
<1>4. /\ TruncDiv(yoe, 4) = yoe \div 4 /\ TruncDiv(yoe, 100) = yoe \div 100
      /\ TruncDiv(153 * mp + 2, 5) = MarchMonths(m)
  BY <1>1 DEF TruncDiv, MarchMonths
<1>5. yoe \div 4 = z \div 4 - 100 * (z \div 400) /\ yoe \div 100 = z \div 100 - 4 * (z \div 400)
  BY <1>1, SMT
<1> HIDE DEF mp
<1>6. MarchMonths(m) \in Int
  BY SMT DEF MarchMonths
<1>7. days_from_civil(y, m, d) = MarchYears(z) + MarchMonths(m) + d - EpochMarch
  BY <1>1, <1>3, <1>4, <1>5, <1>6, SMT DEF MarchYears, EpochMarch
<1>8. (m <= 2 => z = y - 1) /\ (m > 2 => z = y)
  BY SMT
<1> HIDE DEF z
<1>9. QED
  BY <1>7, <1>8, Zenon

(* days_from_civil is the day number the calendar gives.                   *)
LEMMA EpochDays ==
  ASSUME NEW y \in Int, NEW m \in 1..12, NEW d \in Int
  PROVE  days_from_civil(y, m, d) = DayNumber(y, m, d)
<1>1. /\ LeapDay(y) \in Int /\ MonthStart(y, m) \in Int /\ DaysBeforeYear(y) \in Int
  <2>1. LeapDay(y) \in Int
    BY DEF LeapDay
  <2>2. QED
    BY <2>1, SMT DEF MonthStart, DaysBeforeYear, LeapYearsBefore
<1>2. DaysBeforeYear(1970) = 719528
  BY SMT DEF DaysBeforeYear, LeapYearsBefore
<1>3. DayNumber(y, m, d) = DaysBeforeYear(y) + MonthStart(y, m) + d - 1 - 719528
  BY <1>2, MonthStarts, SMT DEF DayNumber
<1>4. CASE m <= 2
  <2>1. days_from_civil(y, m, d) = DaysBeforeYear(y) - 366 + (MonthStart(y, m) + 306) + d - EpochMarch
    <3>1. days_from_civil(y, m, d) = MarchYears(y - 1) + MarchMonths(m) + d - EpochMarch
      BY <1>4, CivilIsMarch, Zenon
    <3>2. MarchMonths(m) = MonthStart(y, m) + 306
      BY <1>4, MonthsFromMarch, SMT
    <3>3. QED
      BY <3>1, <3>2, YearsFromJanuary, Zenon
  <2>2. QED
    BY <1>1, <1>3, <2>1, SMT DEF EpochMarch
<1>5. CASE m > 2
  <2>1. days_from_civil(y, m, d)
          = (DaysBeforeYear(y) + LeapDay(y) - 1) + (MonthStart(y, m) - LeapDay(y) - 59) + d - EpochMarch
    <3>1. days_from_civil(y, m, d) = MarchYears(y) + MarchMonths(m) + d - EpochMarch
      BY <1>5, CivilIsMarch, Zenon
    <3>2. MarchMonths(m) = MonthStart(y, m) - LeapDay(y) - 59
      BY <1>5, MonthsFromMarch, SMT
    <3>3. QED
      BY <3>1, <3>2, YearsFromMarch, Zenon
  <2>2. QED
    BY <1>1, <1>3, <2>1, SMT DEF EpochMarch
<1>6. QED
  BY <1>4, <1>5

DayOfEra(yoe, doy) == 365 * yoe + yoe \div 4 - yoe \div 100 + doy

(* The year that begins in March ends with a leap day.                     *)
EndsLong(yoe) == (yoe + 1) % 4 = 0 /\ ((yoe + 1) % 100 # 0 \/ yoe = 399)

YearComesBack(yoe, doy) ==
  /\ DayOfEra(yoe, doy) \in Nat /\ DayOfEra(yoe, doy) <= 146096
  /\ YearOfEra(DayOfEra(yoe, doy)) = yoe

(* The year of the era is found again from the day of the era: the last    *)
(* day of a leap year, of a century and of the era are the edges.          *)
LEMMA YearFound ==
  ASSUME NEW yoe \in Nat, yoe <= 399, NEW doy \in Nat, doy <= 365, doy = 365 => EndsLong(yoe)
  PROVE  YearComesBack(yoe, doy)
<1>1. PICK c \in 0..3, q \in 0..24, r \in 0..3 : yoe = 100 * c + 4 * q + r
  <2> DEFINE cc == yoe \div 100
             qq == (yoe % 100) \div 4
             rr == yoe % 4
  <2>1. cc \in 0..3 /\ qq \in 0..24 /\ rr \in 0..3 /\ yoe = 100 * cc + 4 * qq + rr
    BY SMT
  <2> HIDE DEF cc, qq, rr
  <2>2. QED
    BY <2>1, SMT
<1> DEFINE doe == 36524 * c + 1461 * q + 365 * r + doy
           last == IF doe = 146096 THEN 1 ELSE 0
           t == 24 * c + q + 365 * r + doy
           carry == IF t >= 1460 THEN 1 ELSE 0
<1>2. yoe \div 4 = 25 * c + q /\ yoe \div 100 = c
  BY <1>1, SMT
<1>3. DayOfEra(yoe, doy) = doe
  BY <1>1, <1>2, SMT DEF DayOfEra
<1>4. doy = 365 => r = 3 /\ (q = 24 => c = 3)
  BY <1>1, SMT DEF EndsLong
<1>5. doe \in Nat /\ doe <= 146096
  BY <1>4, SMT
<1>6. doe \div 146096 = last /\ doe \div 36524 = c + last
  <2> DEFINE u == 1461 * q + 365 * r + doy
  <2>1. u \in Nat /\ u <= 36524 /\ (u = 36524 => q = 24 /\ r = 3 /\ doy = 365)
    BY <1>4, SMT
  <2>2. doe = 36524 * c + u
    BY SMT
  <2> HIDE DEF u, doe
  <2>3. u = 36524 => c = 3
    BY <1>4, <2>1, SMT
  <2>4. CASE u = 36524
    BY <2>2, <2>3, <2>4, SMT
  <2>5. CASE u < 36524
    <3>1. doe < 146096
      BY <2>1, <2>2, <2>5, SMT
    <3>2. doe \div 146096 = 0
      BY <1>5, <3>1, SMT
    <3>3. doe \div 36524 = c
      BY <2>1, <2>2, <2>5, SMT
    <3>4. QED
      BY <3>1, <3>2, <3>3, SMT
  <2>6. QED
    BY <2>1, <2>4, <2>5, SMT
<1>7. doe \div 1460 = 25 * c + q + carry
  <2>1. doe = 1460 * (25 * c + q) + t /\ t \in Nat /\ t <= 1556
    BY SMT
  <2>2. 25 * c + q \in Int
    BY SMT
  <2> HIDE DEF doe, t
  <2>3. QED
    BY <2>1, <2>2, SMT
<1>8. carry = 1 => r = 3 /\ doy >= 1
  BY SMT
<1>9. doy = 365 => carry = 1
  BY <1>4, SMT
<1>10. doe - doe \div 1460 + doe \div 36524 - doe \div 146096 = 365 * yoe + (doy - carry)
  BY <1>1, <1>6, <1>7, SMT
<1>11. doy - carry \in 0..364
  BY <1>8, <1>9, SMT
<1>12. (365 * yoe + (doy - carry)) \div 365 = yoe
  BY <1>11, SMT
<1>13. YearOfEra(doe) = yoe
  BY <1>10, <1>12, SMT DEF YearOfEra
<1>14. QED
  <2> HIDE DEF doe
  <2>1. QED
    BY <1>3, <1>5, <1>13, SMT DEF YearComesBack

(* The month is found again from the day of the year that begins in March. *)
MarchMonth(m) == (m + 9) % 12
MarchDay(m, d) == MarchMonths(m) + d - 1
MonthOf(mp) == IF mp < 10 THEN mp + 3 ELSE mp - 9

DayComesBack(y, m, d) ==
  /\ MarchDay(m, d) \in Nat /\ MarchDay(m, d) <= 365
  /\ MarchDay(m, d) = 365 => m = 2 /\ LeapYear(y)
  /\ (5 * MarchDay(m, d) + 2) \div 153 = MarchMonth(m) /\ MonthOf(MarchMonth(m)) = m
  /\ MarchDay(m, d) - (153 * MarchMonth(m) + 2) \div 5 + 1 = d

(* The month and the day come back for every date that exists.             *)
LEMMA MonthFound ==
  ASSUME NEW y \in Int, NEW m \in 1..12, NEW d \in 1..MonthLength(y, m)
  PROVE  DayComesBack(y, m, d)
<1> DEFINE len == MonthLength(y, m)
           mp == (m + 9) % 12
           doy == MarchMonths(m) + d - 1
<1>1. /\ len \in 28..31 /\ d \in Int /\ d >= 1 /\ d <= len
      /\ m = 2 => len <= 29 /\ (len = 29 => LeapYear(y))
      /\ m \in {4, 6, 9, 11} => len = 30
  <2>1. /\ len \in 28..31
        /\ m = 2 => len <= 29 /\ (len = 29 => LeapYear(y))
        /\ m \in {4, 6, 9, 11} => len = 30
    BY DEF MonthLength
  <2> HIDE DEF len
  <2>2. d \in 1..len
    BY DEF len
  <2>3. QED
    BY <2>1, <2>2
<1> HIDE DEF len
<1>2. mp \in 0..11 /\ MonthOf(mp) = m
  BY SMT DEF MonthOf
<1>3. MarchMonths(m) = (153 * mp + 2) \div 5 /\ MarchMonths(m) \in Int
  BY SMT DEF MarchMonths
<1>4. /\ m = 1 => mp = 10 /\ MarchMonths(m) = 306
      /\ m = 2 => mp = 11 /\ MarchMonths(m) = 337
      /\ m = 3 => mp = 0 /\ MarchMonths(m) = 0
      /\ m = 4 => mp = 1 /\ MarchMonths(m) = 31
      /\ m = 5 => mp = 2 /\ MarchMonths(m) = 61
      /\ m = 6 => mp = 3 /\ MarchMonths(m) = 92
      /\ m = 7 => mp = 4 /\ MarchMonths(m) = 122
      /\ m = 8 => mp = 5 /\ MarchMonths(m) = 153
      /\ m = 9 => mp = 6 /\ MarchMonths(m) = 184
      /\ m = 10 => mp = 7 /\ MarchMonths(m) = 214
      /\ m = 11 => mp = 8 /\ MarchMonths(m) = 245
      /\ m = 12 => mp = 9 /\ MarchMonths(m) = 275
  BY SMT DEF MarchMonths
<1>5. m \in {1, 2, 3, 4, 5, 6, 7, 8, 9, 10, 11, 12}
  OBVIOUS
<1> HIDE DEF mp
<1>6. doy \in Nat /\ doy <= 365 /\ (doy = 365 => m = 2 /\ LeapYear(y)) /\ (5 * doy + 2) \div 153 = mp
  <2> DEFINE before == MarchMonths(m)
  <2> HIDE DEF MarchMonths
  <2>1. before \in Int
    BY <1>3
  <2> HIDE DEF before
  <2>2. before + d - 1 \in Nat /\ before + d - 1 <= 365 /\ (before + d - 1 = 365 => m = 2 /\ len = 29)
    BY <1>1, <1>4, <1>5, <2>1, SMT DEF before
  <2>3. (5 * (before + d - 1) + 2) \div 153 = mp
    BY <1>1, <1>4, <1>5, <2>1, SMT DEF before
  <2>4. QED
    BY <1>1, <2>2, <2>3, Zenon DEF before
<1>7. doy = MarchDay(m, d) /\ mp = MarchMonth(m)
  BY DEF MarchDay, MarchMonth, mp
<1>8. doy - (153 * mp + 2) \div 5 + 1 = d
  BY <1>1, <1>3, SMT
<1> HIDE DEF doy
<1>9. QED
  BY <1>2, <1>6, <1>7, <1>8, SMT DEF DayComesBack

(* civil_from_days undoes days_from_civil, for every date that exists.     *)
LEMMA DayFound ==
  ASSUME NEW y \in Int, NEW m \in 1..12, NEW d \in 1..MonthLength(y, m)
  PROVE  civil_from_days(days_from_civil(y, m, d)) = <<y, m, d>>
<1> DEFINE yy == IF m <= 2 THEN y - 1 ELSE y
           e == yy \div 400
           yoe == yy - (yy \div 400) * 400
           mp == MarchMonth(m)
           doy == MarchDay(m, d)
           doe == DayOfEra(yoe, doy)
           z == days_from_civil(y, m, d) + 719468
<1>1. d \in Int
  BY MonthLengths
<1>2. yy \in Int /\ e \in Int /\ yoe \in Nat /\ yoe <= 399 /\ yy = 400 * e + yoe
  BY SMT
<1>3. /\ doy \in Nat /\ doy <= 365 /\ (doy = 365 => m = 2 /\ LeapYear(y))
      /\ (5 * doy + 2) \div 153 = mp /\ MonthOf(mp) = m
      /\ doy - (153 * mp + 2) \div 5 + 1 = d
  <2>1. DayComesBack(y, m, d)
    BY MonthFound, Zenon
  <2>2. QED
    BY <2>1, SMT DEF DayComesBack
<1>4. doy = 365 => EndsLong(yoe)
  <2> HIDE DEF doy
  <2>1. SUFFICES ASSUME doy = 365
                 PROVE  EndsLong(yoe)
    OBVIOUS
  <2>2. m = 2 /\ LeapYear(y) /\ yy = y - 1
    BY <1>3, <2>1
  <2>3. /\ (yy + 1) % 4 = 0 /\ ((yy + 1) % 100 # 0 \/ (yy + 1) % 400 = 0)
    BY <2>2, SMT DEF LeapYear
  <2> HIDE DEF yy, yoe
  <2>4. QED
    BY <1>2, <2>3, SMT DEF EndsLong
<1>5. /\ doe \in Nat /\ doe <= 146096 /\ YearOfEra(doe) = yoe
  <2> HIDE DEF yoe, doy
  <2>1. YearComesBack(yoe, doy)
    BY <1>2, <1>3, <1>4, YearFound, SMT
  <2>2. QED
    BY <2>1, SMT DEF YearComesBack
<1>6. z = 146097 * e + doe
  <2>1. days_from_civil(y, m, d) = MarchYears(yy) + MarchMonths(m) + d - EpochMarch
    BY <1>1, CivilIsMarch, SMT
  <2>2. /\ yy \div 4 = 100 * e + yoe \div 4
        /\ yy \div 100 = 4 * e + yoe \div 100
        /\ yy \div 400 = e
    <3> HIDE DEF yy, yoe, e
    <3>1. QED
      BY <1>2, SMT
  <2>3. MarchMonths(m) \in Int
    BY SMT DEF MarchMonths
  <2> HIDE DEF yy, e, yoe, mp
  <2>4. QED
    BY <1>1, <1>2, <2>1, <2>2, <2>3, SMT DEF MarchYears, EpochMarch, DayOfEra, MarchDay
<1> HIDE DEF yy, yoe, doe, doy, e, z, mp
<1>7. z \in Int /\ z \div 146097 = e
  BY <1>2, <1>5, <1>6, SMT
<1>8. TruncDiv(IF z >= 0 THEN z ELSE z - 146096, 146097) = e
  BY <1>7, SMT DEF TruncDiv
<1>9. z - e * 146097 = doe
  BY <1>2, <1>5, <1>6, SMT
<1>10. doe - (365 * yoe + yoe \div 4 - yoe \div 100) = doy
  BY <1>2, <1>3, SMT DEF doe, DayOfEra
<1>11. yoe + e * 400 = yy
  BY <1>2, SMT
<1>12. (IF m <= 2 THEN yy + 1 ELSE yy) = y
  BY SMT DEF yy
<1>13. civil_from_days(days_from_civil(y, m, d))
        = <<IF m <= 2 THEN yy + 1 ELSE yy, m, doy - (153 * mp + 2) \div 5 + 1>>
  BY <1>3, <1>5, <1>8, <1>9, <1>10, <1>11, SMT DEF civil_from_days, MonthOf, z
<1>14. QED
  BY <1>3, <1>12, <1>13, SMT

------------------------------------------------------------------------------
(* The grammar.                                                            *)

EndsPart(b, from, i) ==
  /\ i \in from..(Len(b) + 1)
  /\ i = Len(b) + 1 \/ b[i] = ":"
  /\ \A j \in from..(i - 1) : b[j] # ":"

(* Every part of split(':') ends somewhere: at the first colon, or with    *)
(* the text.                                                               *)
LEMMA PartEnds ==
  ASSUME NEW b \in Seq(Class), NEW from \in Nat, from <= Len(b) + 1
  PROVE  EndsPart(b, from, PartEnd(b, from))
<1> DEFINE T == {i \in from..(Len(b) + 1) : i = Len(b) + 1 \/ b[i] = ":"}
           R == OpToRel(<, Nat)
<1>1. Len(b) \in Nat
  OBVIOUS
<1>2. T \subseteq Nat /\ Len(b) + 1 \in T
  BY <1>1
<1>3. \E i \in T : \A j \in T : ~(<<j, i>> \in R)
  <2> HIDE DEF T, R
  <2>1. IsWellFoundedOn(R, Nat)
    BY NatLessThanWellFounded DEF R
  <2>2. T # {}
    BY <1>2
  <2>3. QED
    BY <1>2, <2>1, <2>2, WFMin
<1>4. PICK i \in T : \A j \in T : ~(<<j, i>> \in R)
  BY <1>3
<1>5. \A j \in T : ~(j < i)
  BY <1>2, <1>4 DEF OpToRel
<1>6. \A j \in from..(i - 1) : b[j] # ":"
  BY <1>1, <1>5
<1>7. QED
  BY <1>6 DEF EndsPart, PartEnd

(* A part ends at one place only.                                          *)
LEMMA PartEndIs ==
  ASSUME NEW b \in Seq(Class), NEW from \in Nat, NEW i, EndsPart(b, from, i)
  PROVE  PartEnd(b, from) = i
<1>1. EndsPart(b, from, PartEnd(b, from))
  BY DEF PartEnd, EndsPart
<1>2. QED
  BY <1>1 DEF EndsPart

Pair(b, i) == b[i] = "d" /\ b[i + 1] = "d"

(* HH:MM and HH:MM:SS by the bytes after the separator.                    *)
ShortClock(b) == Len(b) = 16 /\ Pair(b, 12) /\ b[14] = ":" /\ Pair(b, 15)
LongClock(b) ==
  Len(b) = 19 /\ Pair(b, 12) /\ b[14] = ":" /\ Pair(b, 15) /\ b[17] = ":" /\ Pair(b, 18)

(* What the split lets through is HH:MM or HH:MM:SS.                       *)
LEMMA ClockAccepted ==
  ASSUME NEW b \in Seq(Class), Len(b) > 10, ClockBytes(b)
  PROVE  \/ ShortClock(b) /\ ~(MinuteEnd(b) <= Len(b))
         \/ LongClock(b) /\ MinuteEnd(b) <= Len(b)
<1>1. PICK n \in Nat : n = Len(b)
  OBVIOUS
<1>2. EndsPart(b, 12, HourEnd(b))
  BY <1>1, PartEnds DEF HourEnd
<1>3. HourEnd(b) = 14 /\ Pair(b, 12) /\ Len(b) >= 14
  BY <1>1 DEF ClockBytes, two_digits, Digits, Pair
<1>4. b[14] = ":"
  BY <1>1, <1>2, <1>3 DEF EndsPart
<1>5. EndsPart(b, 15, MinuteEnd(b))
  BY <1>1, <1>3, PartEnds DEF MinuteEnd
<1>6. MinuteEnd(b) = 17 /\ Pair(b, 15) /\ Len(b) >= 16
  BY <1>1, <1>3 DEF ClockBytes, two_digits, Digits, Pair
<1>7. CASE Len(b) = 16
  BY <1>3, <1>4, <1>6, <1>7 DEF ShortClock
<1>8. CASE Len(b) > 16
  <2>1. b[17] = ":"
    BY <1>1, <1>5, <1>6, <1>8 DEF EndsPart
  <2>2. EndsPart(b, 18, SecondEnd(b))
    BY <1>1, <1>6, <1>8, PartEnds DEF SecondEnd
  <2>3. SecondEnd(b) = 20 /\ Pair(b, 18) /\ Len(b) >= 19 /\ 20 > Len(b)
    BY <1>1, <1>6, <1>8 DEF ClockBytes, two_digits, Digits, Pair
  <2>4. n = 19
    BY <1>1, <2>3
  <2>5. QED
    BY <1>1, <1>3, <1>4, <1>6, <2>1, <2>3, <2>4 DEF LongClock
<1>9. n = 16 \/ n > 16
  BY <1>1, <1>6
<1>10. QED
  BY <1>1, <1>7, <1>8, <1>9

(* The split lets HH:MM and HH:MM:SS through.                              *)
LEMMA ClockRecognised ==
  ASSUME NEW b \in Seq(Class), b[11] \in Separator, ShortClock(b) \/ LongClock(b)
  PROVE  ClockBytes(b)
<1>1. Len(b) \in {16, 19} /\ Pair(b, 12) /\ b[14] = ":" /\ Pair(b, 15)
  BY DEF ShortClock, LongClock
<1>2. HourEnd(b) = 14
  <2>1. EndsPart(b, 12, 14)
    BY <1>1 DEF EndsPart, Pair
  <2>2. QED
    BY <2>1, PartEndIs DEF HourEnd
<1>3. MinuteEnd(b) = 17
  <2>1. EndsPart(b, 15, 17)
    <3>1. CASE ShortClock(b)
      BY <3>1 DEF EndsPart, Pair, ShortClock
    <3>2. CASE LongClock(b)
      BY <3>2 DEF EndsPart, Pair, LongClock
    <3>3. QED
      BY <3>1, <3>2
  <2>2. QED
    BY <1>2, <2>1, PartEndIs DEF MinuteEnd
<1>4. two_digits(b, 11, 14) /\ two_digits(b, 14, 17)
  BY <1>1 DEF two_digits, Digits, Pair
<1>5. CASE ShortClock(b)
  BY <1>1, <1>2, <1>3, <1>4, <1>5 DEF ClockBytes, ShortClock
<1>6. CASE LongClock(b)
  <2>1. EndsPart(b, 18, 20)
    BY <1>6 DEF EndsPart, Pair, LongClock
  <2>2. SecondEnd(b) = 20
    BY <1>3, <2>1, PartEndIs DEF SecondEnd
  <2>3. two_digits(b, 17, 20)
    BY <1>6 DEF two_digits, Digits, Pair, LongClock
  <2>4. QED
    BY <1>1, <1>2, <1>3, <1>4, <1>6, <2>2, <2>3 DEF ClockBytes, LongClock
<1>7. QED
  BY <1>5, <1>6

(* The bytes of a shape are bytes of a text.                               *)
LEMMA Classes == {"d", "-", ":"} \subseteq Class /\ Separator \subseteq Class
BY DEF Class

DateIn(b) ==
  /\ b[1] = "d" /\ b[2] = "d" /\ b[3] = "d" /\ b[4] = "d" /\ b[5] = "-"
  /\ b[6] = "d" /\ b[7] = "d" /\ b[8] = "-" /\ b[9] = "d" /\ b[10] = "d"

(* The date test, byte by byte.                                            *)
LEMMA DateByByte ==
  ASSUME NEW b \in Seq(Class)
  PROVE  DateBytes(b) <=> Len(b) >= 10 /\ DateIn(b)
<1>1. Digits(b, 1, 4) <=> Len(b) >= 4 /\ b[1] = "d" /\ b[2] = "d" /\ b[3] = "d" /\ b[4] = "d"
  BY DEF Digits
<1>2. Digits(b, 6, 7) <=> Len(b) >= 7 /\ b[6] = "d" /\ b[7] = "d"
  BY DEF Digits
<1>3. Digits(b, 9, 10) <=> Len(b) >= 10 /\ b[9] = "d" /\ b[10] = "d"
  BY DEF Digits
<1>4. QED
  BY <1>1, <1>2, <1>3 DEF DateBytes, DateIn

(* A text has a documented shape exactly when its date and, if any         *)
(* follows, its clock have the right bytes.                                *)
LEMMA ShapeBytes ==
  ASSUME NEW b \in Seq(Class)
  PROVE  b \in Shapes <=>
           DateBytes(b) /\ (Len(b) > 10 => b[11] \in Separator /\ (ShortClock(b) \/ LongClock(b)))
<1>1. ASSUME b = Date
      PROVE  DateBytes(b) /\ Len(b) = 10
  <2>1. Len(b) = 10 /\ DateIn(b)
    BY <1>1 DEF Date, DateIn
  <2>2. Len(b) >= 10
    BY <2>1
  <2>3. QED
    BY <2>1, <2>2, DateByByte, Zenon
<1>2. ASSUME NEW sep \in Separator, b = ToMinute(sep)
      PROVE  DateBytes(b) /\ b[11] \in Separator /\ ShortClock(b)
  <2>1. Len(b) = 16 /\ DateIn(b) /\ b[11] = sep /\ ShortClock(b)
    BY <1>2 DEF ToMinute, ShortClock, Pair, DateIn
  <2>2. Len(b) >= 10
    BY <2>1
  <2>3. QED
    BY <2>1, <2>2, DateByByte, Zenon
<1>3. ASSUME NEW sep \in Separator, b = ToSecond(sep)
      PROVE  DateBytes(b) /\ b[11] \in Separator /\ LongClock(b)
  <2>1. Len(b) = 19 /\ DateIn(b) /\ b[11] = sep /\ LongClock(b)
    BY <1>3 DEF ToSecond, LongClock, Pair, DateIn
  <2>2. Len(b) >= 10
    BY <2>1
  <2>3. QED
    BY <2>1, <2>2, DateByByte, Zenon
<1>4. ASSUME DateBytes(b), Len(b) = 10
      PROVE  b = Date
  BY <1>4, DateByByte DEF Date, DateIn
<1>5. ASSUME DateBytes(b), b[11] \in Separator, ShortClock(b)
      PROVE  b = ToMinute(b[11])
  BY <1>5, DateByByte DEF ToMinute, ShortClock, Pair, DateIn
<1>6. ASSUME DateBytes(b), b[11] \in Separator, LongClock(b)
      PROVE  b = ToSecond(b[11])
  BY <1>6, DateByByte DEF ToSecond, LongClock, Pair, DateIn
<1>7. DateBytes(b) => Len(b) = 10 \/ Len(b) > 10
  <2>1. PICK n \in Nat : n = Len(b)
    OBVIOUS
  <2>2. QED
    BY <2>1 DEF DateBytes
<1>8. b \in Shapes <=> b = Date \/ \E sep \in Separator : b = ToMinute(sep) \/ b = ToSecond(sep)
  BY Zenon DEF Shapes
<1>9. b = Date => ~(Len(b) > 10)
  BY DEF Date
<1> DEFINE timed == b[11] \in Separator /\ (ShortClock(b) \/ LongClock(b))
<1>10. ASSUME b \in Shapes PROVE DateBytes(b) /\ (Len(b) > 10 => timed)
  BY <1>1, <1>2, <1>3, <1>8, <1>9, <1>10, Zenon
<1>11. ASSUME DateBytes(b), Len(b) > 10 => timed PROVE b \in Shapes
  BY <1>4, <1>5, <1>6, <1>7, <1>8, <1>11, Zenon
<1>12. QED
  BY <1>10, <1>11
=============================================================================
