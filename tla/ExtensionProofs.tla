----------------------------- MODULE ExtensionProofs -----------------------------
(***************************************************************************)
(* Proofs about the extension types: that the calendar is right for every  *)
(* date, that the instant of a literal is an int64_t, that the checked     *)
(* methods undo each other whatever the width of the integers, and that    *)
(* containment of ranges is inclusion, whatever the size of an address.    *)
(***************************************************************************)
EXTENDS MCInstants, MCRanges, Induction

-------------------------------------------------------------------------------
(* The calendar                                                            *)

(* The day after, where it is in the same month, and where it is not.      *)
NextDate(y, m, d) ==
  IF d < DaysInMonth(y, m) THEN <<y, m, d + 1>>
  ELSE IF m < 12 THEN <<y, m + 1, 1>> ELSE <<y + 1, 1, 1>>

Days(date) == DaysFromCivil(date[1], date[2], date[3])

(* What the days before a year that begins in March come to.               *)
YearStart(y) == 365 * y + y \div 4 - y \div 100 + y \div 400 - 719468

(* What the months from March on before this one come to.                  *)
MonthStart(m) == (153 * (IF m > 2 THEN m - 3 ELSE m + 9) + 2) \div 5

(* The arithmetic over eras is that of the Gregorian rule.                 *)
LEMMA DaysSplit ==
  ASSUME NEW y \in Int, NEW m \in 1..12, NEW d \in Int
  PROVE  DaysFromCivil(y, m, d)
           = YearStart(IF m <= 2 THEN y - 1 ELSE y) + MonthStart(m) + d - 1
<1> DEFINE Y == IF m <= 2 THEN y - 1 ELSE y
           era == Y \div 400
           yoe == Y - era * 400
<1>1. Y \in Int
  OBVIOUS
<1> HIDE DEF Y
<1>2. /\ era \in Int /\ yoe \in 0..399 /\ Y = 400 * era + yoe
  BY <1>1
<1>3. /\ Y \div 4 = 100 * era + yoe \div 4
      /\ Y \div 100 = 4 * era + yoe \div 100
  BY <1>1
<1>4. MonthStart(m) \in Int
  BY DEF MonthStart
<1>5. DaysFromCivil(y, m, d)
        = era * 146097 + (yoe * 365 + yoe \div 4 - yoe \div 100 + (MonthStart(m) + d - 1)) - 719468
  BY DEF DaysFromCivil, MonthStart, Y
<1> HIDE DEF era, yoe
<1>6. yoe \div 4 \in Int /\ yoe \div 100 \in Int
  BY <1>2
<1> QED BY <1>1, <1>2, <1>3, <1>4, <1>5, <1>6 DEF YearStart, Y, era

(* A year that begins in March ends with the February of the next year.    *)
LEMMA YearLength ==
  ASSUME NEW y \in Int
  PROVE  YearStart(y) - YearStart(y - 1) = IF IsLeap(y) THEN 366 ELSE 365
BY DEF YearStart, IsLeap

(* Months follow one another as their lengths say.                         *)
LEMMA MonthLength ==
  ASSUME NEW y \in Int, NEW m \in 1..12
  PROVE  /\ m \notin {2, 12} => MonthStart(m + 1) = MonthStart(m) + DaysInMonth(y, m)
         /\ MonthStart(12) + 31 = MonthStart(1) /\ DaysInMonth(y, 12) = 31
         /\ MonthStart(3) = 0 /\ MonthStart(2) = 337
         /\ DaysInMonth(y, 2) = IF IsLeap(y) THEN 29 ELSE 28
<1>1. /\ MonthStart(3) = 0 /\ MonthStart(4) = 31 /\ MonthStart(5) = 61 /\ MonthStart(6) = 92
      /\ MonthStart(7) = 122 /\ MonthStart(8) = 153 /\ MonthStart(9) = 184
      /\ MonthStart(10) = 214 /\ MonthStart(11) = 245 /\ MonthStart(12) = 275
      /\ MonthStart(1) = 306 /\ MonthStart(2) = 337
  BY DEF MonthStart
<1>2. /\ DaysInMonth(y, 1) = 31 /\ DaysInMonth(y, 3) = 31 /\ DaysInMonth(y, 4) = 30
      /\ DaysInMonth(y, 5) = 31 /\ DaysInMonth(y, 6) = 30 /\ DaysInMonth(y, 7) = 31
      /\ DaysInMonth(y, 8) = 31 /\ DaysInMonth(y, 9) = 30 /\ DaysInMonth(y, 10) = 31
      /\ DaysInMonth(y, 11) = 30 /\ DaysInMonth(y, 12) = 31
      /\ DaysInMonth(y, 2) = IF IsLeap(y) THEN 29 ELSE 28
  BY DEF DaysInMonth
<1>3. m \in {1, 2, 3, 4, 5, 6, 7, 8, 9, 10, 11, 12}
  OBVIOUS
<1> QED BY <1>1, <1>2, <1>3

(* Every day counts one more than the day before it, in every year and     *)
(* month, and 1970-01-01 is day 0: nxe_cedar_days_from_civil numbers the   *)
(* dates of the Gregorian calendar that nxe_cedar_days_in_month has, one   *)
(* after another (expr.c:500-535).                                         *)
THEOREM CalendarExact ==
  /\ DaysFromCivil(1970, 1, 1) = 0
  /\ \A y \in Int, m \in 1..12 : \A d \in 1..DaysInMonth(y, m) :
       Days(NextDate(y, m, d)) = DaysFromCivil(y, m, d) + 1
<1>1. DaysFromCivil(1970, 1, 1) = 0
  BY DEF DaysFromCivil
<1>2. ASSUME NEW y \in Int, NEW m \in 1..12, NEW d \in 1..DaysInMonth(y, m)
      PROVE  Days(NextDate(y, m, d)) = DaysFromCivil(y, m, d) + 1
  <2>2. MonthStart(m) \in Int /\ DaysInMonth(y, m) \in Int /\ \A x \in Int : YearStart(x) \in Int
    <3>1. DaysInMonth(y, m) \in 28..31
      <4>1. m \in {1, 2, 3, 4, 5, 6, 7, 8, 9, 10, 11, 12}
        OBVIOUS
      <4> QED BY <4>1 DEF DaysInMonth
    <3> QED BY <3>1 DEF MonthStart, YearStart
  <2>1. d \in Int /\ d <= DaysInMonth(y, m)
    BY <2>2
  <2>3. DaysFromCivil(y, m, d) = YearStart(IF m <= 2 THEN y - 1 ELSE y) + MonthStart(m) + d - 1
    BY <2>1, DaysSplit
  <2>4. CASE d < DaysInMonth(y, m)
    <3>1. Days(NextDate(y, m, d)) = DaysFromCivil(y, m, d + 1)
      BY <2>4 DEF Days, NextDate
    <3>2. DaysFromCivil(y, m, d + 1)
            = YearStart(IF m <= 2 THEN y - 1 ELSE y) + MonthStart(m) + (d + 1) - 1
      BY <2>1, DaysSplit
    <3> QED BY <2>1, <2>2, <2>3, <3>1, <3>2
  <2>5. CASE d = DaysInMonth(y, m) /\ m = 12
    <3>1. Days(NextDate(y, m, d)) = DaysFromCivil(y + 1, 1, 1)
      BY <2>1, <2>2, <2>5 DEF Days, NextDate
    <3>2. DaysFromCivil(y + 1, 1, 1) = YearStart((y + 1) - 1) + MonthStart(1) + 1 - 1
      BY <2>1, DaysSplit
    <3>3. MonthStart(12) + 31 = MonthStart(1) /\ d = 31 /\ (y + 1) - 1 = y
      BY <2>1, <2>5, MonthLength
    <3> QED BY <2>1, <2>2, <2>3, <2>5, <3>1, <3>2, <3>3
  <2>6. CASE d = DaysInMonth(y, m) /\ m # 12
    <3>1. Days(NextDate(y, m, d)) = DaysFromCivil(y, m + 1, 1)
      BY <2>1, <2>2, <2>6 DEF Days, NextDate
    <3>2. DaysFromCivil(y, m + 1, 1)
            = YearStart(IF m + 1 <= 2 THEN y - 1 ELSE y) + MonthStart(m + 1) + 1 - 1
      BY <2>1, <2>6, DaysSplit
    <3>3. CASE m = 2
      <4>1. /\ MonthStart(3) = 0 /\ MonthStart(2) = 337
            /\ d = IF IsLeap(y) THEN 29 ELSE 28
        BY <2>1, <2>6, <3>3, MonthLength
      <4>2. YearStart(y) - YearStart(y - 1) = IF IsLeap(y) THEN 366 ELSE 365
        BY <2>1, YearLength
      <4>3. YearStart(y) \in Int /\ YearStart(y - 1) \in Int
        BY <2>1, <2>2
      <4>4. YearStart(y) = YearStart(y - 1) + 337 + d
        BY <4>1, <4>2, <4>3
      <4>5. DaysFromCivil(y, m, d) = YearStart(y - 1) + 337 + d - 1
        BY <2>3, <3>3, <4>1
      <4>6. Days(NextDate(y, m, d)) = YearStart(y) + 0 + 1 - 1
        BY <3>1, <3>2, <3>3, <4>1
      <4> QED BY <2>1, <4>3, <4>4, <4>5, <4>6
    <3>4. CASE m # 2
      <4>1. MonthStart(m + 1) = MonthStart(m) + d
        BY <2>1, <2>6, <3>4, MonthLength
      <4>2. (m + 1 <= 2) <=> (m <= 2)
        BY <2>1, <3>4
      <4> QED BY <2>1, <2>2, <2>3, <3>1, <3>2, <4>1, <4>2
    <3> QED BY <3>3, <3>4
  <2> QED BY <2>1, <2>2, <2>4, <2>5, <2>6
<1> QED BY <1>1, <1>2

LEMMA YearBounds ==
  ASSUME NEW y \in Int, -1 <= y, y <= 9999
  PROVE  YearStart(y) \in Int /\ -1000 * 1000 <= YearStart(y) /\ YearStart(y) <= 3500 * 1000
<1>1. y \div 4 \in Int /\ -1 <= y \div 4 /\ y \div 4 <= 2500
  BY SMT
<1>2. y \div 100 \in Int /\ -1 <= y \div 100 /\ y \div 100 <= 100
  BY SMT
<1>3. y \div 400 \in Int /\ -1 <= y \div 400 /\ y \div 400 <= 25
  BY SMT
<1> QED BY <1>1, <1>2, <1>3, SMT DEF YearStart

Years == 0..9999
DayRange(n) == n \in Int /\ -1000 * 1000 <= n /\ n <= 4000 * 1000

LEMMA DayBounds ==
  ASSUME NEW y \in Years, NEW m \in 1..12, NEW d \in 1..31
  PROVE  DayRange(DaysFromCivil(y, m, d))
<1> USE DEF Years
<1> DEFINE Y == IF m <= 2 THEN y - 1 ELSE y
<1>1. Y \in Int /\ -1 <= Y /\ Y <= 9999
  OBVIOUS
<1> HIDE DEF Y
<1>2. YearStart(Y) \in Int /\ -1000 * 1000 <= YearStart(Y) /\ YearStart(Y) <= 3500 * 1000
  BY <1>1, YearBounds
<1>3. MonthStart(m) \in 0..337
  BY DEF MonthStart
<1>4. DaysFromCivil(y, m, d) = YearStart(Y) + MonthStart(m) + d - 1
  BY DaysSplit DEF Y
<1> QED BY <1>2, <1>3, <1>4, SMT DEF DayRange

LEMMA DayInMonth ==
  ASSUME NEW y \in Int, NEW m \in 1..12, NEW d \in 1..DaysInMonth(y, m)
  PROVE  d \in 1..31
<1>1. m \in {1, 2, 3, 4, 5, 6, 7, 8, 9, 10, 11, 12}
  OBVIOUS
<1>2. DaysInMonth(y, m) \in 28..31
  BY <1>1 DEF DaysInMonth
<1> QED BY <1>2

(* The clock, and integers of at least 51 bits                             *)
RealClock ==
  /\ HoursPerDay = 24 /\ MinutesPerHour = 60 /\ SecondsPerMinute = 60 /\ MsPerSecond = 1000
  /\ MaxInt >= 1000 * 1000 * 1000 * 1000 * 1000

(* What the digits of a literal may say, and what the zone comes to        *)
IsFields(f) ==
  /\ f.year \in 0..9999 /\ f.hh \in Nat /\ f.mm \in Nat /\ f.ss \in Nat
  /\ f.frac \in 0..999 /\ f.offset_hh \in Nat /\ f.offset_mm \in Nat
  /\ f.offset_min \in {0, f.offset_hh * MinutesPerHour + f.offset_mm,
                        -(f.offset_hh * MinutesPerHour + f.offset_mm)}

(* What make_datetime computes for a date and time that it has validated   *)
(* fits an int64_t, whatever the zone, with room to spare: none of its     *)
(* sums is checked, on the ground that the year has four digits            *)
(* (expr.c:575-576, 696-702).                                              *)
THEOREM LiteralFits ==
  ASSUME RealClock, NEW f, IsFields(f), InClock(f)
  PROVE  InRange(Instant(f))
<1>1. /\ HoursPerDay = 24 /\ MinutesPerHour = 60 /\ SecondsPerMinute = 60 /\ MsPerSecond = 1000
      /\ MsPerMinute = 60 * 1000
  BY DEF RealClock, MsPerMinute
<1>2. /\ f.hh \in Nat /\ f.mm \in Nat /\ f.ss \in Nat /\ f.frac \in 0..999
      /\ f.offset_hh \in Nat /\ f.offset_mm \in Nat /\ f.year \in 0..9999
      /\ f.offset_min \in {0, f.offset_hh * MinutesPerHour + f.offset_mm,
                            -(f.offset_hh * MinutesPerHour + f.offset_mm)}
  BY DEF IsFields
<1>3. /\ f.hh < 24 /\ f.mm < 60 /\ f.ss < 60 /\ f.offset_hh < 24 /\ f.offset_mm < 60
      /\ f.month \in 1..12 /\ f.day \in 1..DaysInMonth(f.year, f.month)
  BY <1>1 DEF InClock
<1>4. f.offset_min \in -1439..1439
  <2> DEFINE hh == f.offset_hh
             mm == f.offset_mm
             offset == f.offset_min
  <2>1. /\ hh \in Nat /\ hh < 24 /\ mm \in Nat /\ mm < 60
        /\ offset \in {0, hh * MinutesPerHour + mm, -(hh * MinutesPerHour + mm)}
    BY <1>2, <1>3
  <2> HIDE DEF hh, mm, offset
  <2>2. offset \in -1439..1439
    BY <1>1, <2>1, SMT
  <2> QED BY <2>2 DEF offset
<1> DEFINE y == f.year
           m == f.month
           d == f.day
           days == DaysFromCivil(y, m, d)
<1>5. y \in Years /\ m \in 1..12 /\ d \in 1..DaysInMonth(y, m)
  BY <1>2, <1>3 DEF Years
<1> HIDE DEF y, m, d
<1>6. DayRange(days)
  <2>1. y \in Int
    BY <1>5 DEF Years
  <2>2. d \in 1..31
    BY <1>5, <2>1, DayInMonth
  <2> QED BY <1>5, <2>2, DayBounds, Zenon
<1> DEFINE hh == f.hh
           mm == f.mm
           ss == f.ss
           frac == f.frac
           offset == f.offset_min
           sum == (((days * 24 + hh) * 60 + mm) * 60 + ss) * 1000 + frac - offset * (60 * 1000)
<1>7. Instant(f) = sum
  BY <1>1 DEF Instant, y, m, d
<1>8. /\ hh \in Nat /\ hh < 24 /\ mm \in Nat /\ mm < 60 /\ ss \in Nat /\ ss < 60
      /\ frac \in 0..999 /\ offset \in -1439..1439
  BY <1>2, <1>3, <1>4
<1> HIDE DEF days, hh, mm, ss, frac, offset
<1>9. /\ sum \in Int /\ -1000 * 1000 * 1000 * 1000 * 1000 <= sum
      /\ sum <= 1000 * 1000 * 1000 * 1000 * 1000
  BY <1>6, <1>8, SMT DEF DayRange
<1> HIDE DEF sum
<1> QED BY <1>7, <1>9, IntAssumption, SMT DEF InRange, RealClock

-------------------------------------------------------------------------------
(* Methods                                                                 *)

InInt == ms \in MinInt..MaxInt /\ other \in MinInt..MaxInt

LEMMA AlwaysInInt == PairSpec => []InInt
<1>1. PairInit => InInt
  BY IntAssumption DEF PairInit, InInt
<1>2. InInt /\ [Move \/ MoveOther]_<<ms, other>> => InInt'
  BY DEF InInt, Move, MoveOther, Beside
<1> QED BY <1>1, <1>2, PTL DEF PairSpec

(* Of any two instants, and for every width of the integers, what          *)
(* durationSince gives leads offset from the second to the first, and what *)
(* offset gives is that duration away by durationSince; each errs just     *)
(* where it would leave the integers (expr.c:1740-1785).                   *)
THEOREM OffsetAndSince == PairSpec => []OffsetUndoes
<1>1. InInt => OffsetUndoes
  <2> SUFFICES ASSUME InInt
               PROVE  OffsetUndoes
    OBVIOUS
  <2>1. ms \in Int /\ other \in Int /\ MinInt \in Int /\ MaxInt \in Int
    BY IntAssumption DEF InInt
  <2>2. \A n, d : DatetimeMethodWith("offset", n, Duration(d)) = Offset(n, d)
    BY DEF DatetimeMethodWith, Duration
  <2>3. \A n, m : DatetimeMethodWith("durationSince", n, Datetime(m)) = DurationSince(n, m)
    BY DEF DatetimeMethodWith, Datetime
  <2>4. DurationSince(ms, other) # Error =>
          DatetimeMethodWith("offset", other, DurationSince(ms, other)) = Datetime(ms)
    <3>1. CASE InRange(ms - other)
      <4>1. DurationSince(ms, other) = Duration(ms - other)
        BY <3>1 DEF DurationSince
      <4>2. other + (ms - other) = ms /\ InRange(ms)
        BY <2>1 DEF InInt, InRange
      <4>3. Offset(other, ms - other) = Datetime(ms)
        BY <4>2 DEF Offset
      <4> QED BY <2>2, <4>1, <4>3
    <3>2. CASE ~InRange(ms - other)
      BY <3>2 DEF DurationSince
    <3> QED BY <3>1, <3>2
  <2>5. Offset(other, ms) # Error =>
          DatetimeMethodWith("durationSince", Offset(other, ms).n, Datetime(other)) = Duration(ms)
    <3>1. CASE InRange(other + ms)
      <4>1. Offset(other, ms).n = other + ms
        BY <3>1 DEF Offset, Datetime
      <4>2. (other + ms) - other = ms /\ InRange(ms)
        BY <2>1 DEF InInt, InRange
      <4>3. DurationSince(other + ms, other) = Duration(ms)
        BY <4>2 DEF DurationSince
      <4> QED BY <2>3, <4>1, <4>3
    <3>2. CASE ~InRange(other + ms)
      BY <3>2 DEF Offset
    <3> QED BY <3>1, <3>2
  <2>6. \A n \in Int : InRange(n) <=> n \in MinInt..MaxInt
    BY <2>1 DEF InRange
  <2>7. DurationSince(ms, other) = Error <=> ms - other \notin MinInt..MaxInt
    BY <2>1, <2>6 DEF DurationSince, Duration, Error
  <2>8. Offset(other, ms) = Error <=> other + ms \notin MinInt..MaxInt
    BY <2>1, <2>6 DEF Offset, Datetime, Error
  <2> QED BY <2>2, <2>3, <2>4, <2>5, <2>7, <2>8 DEF OffsetUndoes
<1> QED BY <1>1, AlwaysInInt, PTL

LEMMA Division ==
  ASSUME NEW a \in Nat, NEW b \in Nat \ {0}
  PROVE  a \div b \in Nat /\ b * (a \div b) <= a /\ a < b * (a \div b) + b
<1>1. a \div b \in Int /\ b * (a \div b) <= a /\ a < b * (a \div b) + b
  BY SMT
<1>2. ASSUME a \div b <= -1
      PROVE  FALSE
  <2>1. b * (a \div b) <= b * (-1)
    BY <1>1, <1>2, SMT
  <2> QED BY <1>1, <2>1, SMT
<1> QED BY <1>1, <1>2, SMT

LEMMA QuotientIsUnique ==
  ASSUME NEW a \in Nat, NEW b \in Nat \ {0}, NEW q \in Int, b * q <= a, a < b * q + b
  PROVE  a \div b = q
<1> DEFINE p == a \div b
<1>1. p \in Int /\ b * p <= a /\ a < b * p + b
  BY Division
<1> HIDE DEF p
<1>2. ASSUME p < q
      PROVE  FALSE
  <2>1. b * (p + 1) <= b * q
    BY <1>1, <1>2, SMT
  <2>2. b * (p + 1) = b * p + b
    BY <1>1, SMT
  <2> QED BY <1>1, <2>1, <2>2, SMT
<1>3. ASSUME q < p
      PROVE  FALSE
  <2>1. b * (q + 1) <= b * p
    BY <1>1, <1>3, SMT
  <2>2. b * (q + 1) = b * q + b
    BY SMT
  <2> QED BY <1>1, <2>1, <2>2, SMT
<1>4. p = q
  BY <1>1, <1>2, <1>3, SMT
<1> QED BY <1>4 DEF p

LEMMA RemainderIsUnique ==
  ASSUME NEW a \in Int, NEW b \in Nat \ {0}, NEW r \in Int, 0 <= r, r < b,
         \E q \in Int : a - r = b * q
  PROVE  r = a % b
<1> DEFINE p == a \div b
           rest == a % b
<1>1. PICK q \in Int : a - r = b * q
  OBVIOUS
<1>2. p \in Int /\ rest \in Int /\ a - rest = b * p /\ 0 <= rest /\ rest < b
  BY SMT
<1> HIDE DEF p, rest
<1>3. ASSUME p < q
      PROVE  FALSE
  <2>1. b * (p + 1) <= b * q
    BY <1>1, <1>2, <1>3, SMT
  <2>2. b * (p + 1) = b * p + b
    BY <1>2, SMT
  <2> QED BY <1>1, <1>2, <2>1, <2>2, SMT
<1>4. ASSUME q < p
      PROVE  FALSE
  <2>1. b * (q + 1) <= b * p
    BY <1>1, <1>2, <1>4, SMT
  <2>2. b * (q + 1) = b * q + b
    BY <1>1, SMT
  <2> QED BY <1>1, <1>2, <2>1, <2>2, SMT
<1>5. p = q
  BY <1>1, <1>2, <1>3, <1>4, SMT
<1>6. rest = r
  BY <1>1, <1>2, <1>5, SMT
<1> QED BY <1>6 DEF rest

LEMMA UnitsPositive ==
  /\ MsPerSecond \in Nat \ {0} /\ MsPerMinute \in Nat \ {0}
  /\ MsPerHour \in Nat \ {0} /\ MsPerDay \in Nat \ {0} /\ HoursPerDay \in Nat \ {0}
<1>1. \A m, n \in Nat \ {0} : m * n \in Nat \ {0}
  BY SMT
<1>2. /\ HoursPerDay \in Nat \ {0} /\ MinutesPerHour \in Nat \ {0}
      /\ SecondsPerMinute \in Nat \ {0} /\ MsPerSecond \in Nat \ {0}
  BY ClockAssumption
<1>3. MsPerMinute \in Nat \ {0}
  BY <1>1, <1>2 DEF MsPerMinute
<1>4. MsPerHour \in Nat \ {0}
  BY <1>1, <1>2, <1>3 DEF MsPerHour
<1>5. MsPerDay \in Nat \ {0}
  BY <1>1, <1>2, <1>4 DEF MsPerDay
<1> QED BY <1>2, <1>3, <1>4, <1>5

(* What has passed since midnight is less than a day, and leads to one.    *)
LEMMA MidnightBefore ==
  ASSUME NEW n \in Int
  PROVE  /\ SinceMidnight(n) \in Int /\ 0 <= SinceMidnight(n) /\ SinceMidnight(n) < MsPerDay
         /\ \E q \in Int : n - SinceMidnight(n) = MsPerDay * q
<1> DEFINE day == MsPerDay
           r == Remainder(n, day)
<1>1. day \in Nat \ {0}
  BY UnitsPositive
<1> HIDE DEF day
<1>2. SinceMidnight(n) = IF r < 0 THEN r + day ELSE r
  BY DEF SinceMidnight, day
<1>3. CASE n >= 0
  <2> DEFINE q == n \div day
  <2>1. n \in Nat
    BY <1>3
  <2>2. q \in Nat /\ day * q <= n /\ n < day * q + day
    BY <1>1, <2>1, Division
  <2>3. r = n - day * q
    BY <1>3 DEF Remainder, Quotient
  <2> HIDE DEF q, r
  <2>4. day * q \in Int
    BY <1>1, <2>2, SMT
  <2>5. SinceMidnight(n) = n - day * q
    BY <1>2, <2>1, <2>2, <2>3, <2>4, SMT
  <2> QED BY <1>1, <2>1, <2>2, <2>4, <2>5, SMT DEF day
<1>4. CASE n < 0
  <2> DEFINE q == (-n) \div day
  <2>1. -n \in Nat
    BY <1>4
  <2>2. q \in Nat /\ day * q <= -n /\ -n < day * q + day
    BY <1>1, <2>1, Division
  <2>3. r = n - day * (-q)
    BY <1>4 DEF Remainder, Quotient
  <2> HIDE DEF q, r
  <2>4. day * q \in Int /\ day * (-q) = -(day * q) /\ day * (-q - 1) = -(day * q) - day
    BY <1>1, <2>2, SMT
  <2>5. CASE r < 0
    <3>1. SinceMidnight(n) = n + day * q + day
      BY <1>1, <1>2, <2>3, <2>4, <2>5, SMT
    <3>2. -q - 1 \in Int /\ n - SinceMidnight(n) = day * (-q - 1)
      BY <1>1, <2>2, <2>4, <3>1, SMT
    <3>3. 0 <= n + day * q + day /\ n + day * q + day < day
      BY <1>1, <2>2, <2>3, <2>4, <2>5, SMT
    <3>4. n + day * q + day \in Int
      BY <1>1, <2>4, SMT
    <3> QED BY <3>1, <3>2, <3>3, <3>4 DEF day
  <2>6. CASE ~(r < 0)
    <3>1. SinceMidnight(n) = n + day * q
      BY <1>1, <1>2, <2>3, <2>4, <2>6, SMT
    <3>2. -q \in Int /\ n - SinceMidnight(n) = day * (-q)
      BY <1>1, <2>2, <2>4, <3>1, SMT
    <3>3. 0 <= n + day * q /\ n + day * q < day /\ n + day * q \in Int
      BY <1>1, <2>2, <2>3, <2>4, <2>6, SMT
    <3> QED BY <3>1, <3>2, <3>3 DEF day
  <2> QED BY <2>5, <2>6
<1> QED BY <1>3, <1>4, SMT

LEMMA WrappedInRange ==
  ASSUME NEW n \in MinInt..MaxInt
  PROVE  Wrapped(n) = n
<1> DEFINE size == MaxInt - MinInt + 1
           a == n - MinInt
<1>1. size \in Nat \ {0} /\ a \in Nat /\ a < size
  BY IntAssumption, SMT
<1>2. MinInt \in Int /\ n \in Int /\ a + MinInt = n
  BY IntAssumption, SMT
<1> HIDE DEF a, size
<1>3. a % size = a
  BY <1>1, SMT
<1>4. Wrapped(n) = (a % size) + MinInt
  BY DEF Wrapped, a, size
<1> QED BY <1>2, <1>3, <1>4

(* For every instant that has a midnight before it, however long the days  *)
(* and whatever the width of the integers, toDate and toTime split it at   *)
(* that midnight (expr.c:1496-1521).                                       *)
THEOREM DateAndTimeSplit == PairSpec => []DateAndTime
<1>1. InInt => DateAndTime
  <2> SUFFICES ASSUME InInt, MinInt <= DayStart(ms)
               PROVE  /\ DatetimeMethod("toDate", ms) = Datetime(DayStart(ms))
                      /\ DatetimeMethodWith("offset", DatetimeMethod("toDate", ms).n,
                                            DatetimeMethod("toTime", ms)) = Datetime(ms)
    BY DEF DateAndTime
  <2> DEFINE r == SinceMidnight(ms)
             day == MsPerDay
  <2>1. ms \in Int /\ MinInt \in Int /\ MaxInt \in Int /\ MinInt <= ms /\ ms <= MaxInt
    BY IntAssumption DEF InInt
  <2>2. day \in Nat \ {0}
    BY UnitsPositive
  <2>3. r \in Int /\ 0 <= r /\ r < day /\ \E q \in Int : ms - r = day * q
    BY <2>1, MidnightBefore
  <2>4. r = ms % day
    BY <2>1, <2>2, <2>3, RemainderIsUnique DEF r, day
  <2>5. DayStart(ms) = ms - r
    BY <2>4 DEF DayStart, day
  <2> HIDE DEF r, day
  <2>6. ms - r \in MinInt..MaxInt
    BY <2>1, <2>3, <2>5
  <2>7. Wrapped(ms - r) = ms - r
    BY <2>6, WrappedInRange
  <2>8. /\ DatetimeMethod("toDate", ms) = Datetime(ms - r)
        /\ DatetimeMethod("toTime", ms) = Duration(r)
    BY <2>7 DEF DatetimeMethod, ToDate, ToTime, r
  <2>9. DatetimeMethodWith("offset", ms - r, Duration(r)) = Datetime(ms)
    <3>1. DatetimeMethodWith("offset", ms - r, Duration(r)) = Offset(ms - r, r)
      BY DEF DatetimeMethodWith, Duration
    <3>2. (ms - r) + r = ms
      BY <2>1, <2>3
    <3> QED BY <2>1, <3>1, <3>2 DEF Offset, InRange
  <2>10. Datetime(ms - r).n = ms - r
    BY DEF Datetime
  <2> QED BY <2>5, <2>8, <2>9, <2>10
<1> QED BY <1>1, AlwaysInInt, PTL

(* Dividing twice is dividing by the product.                              *)
LEMMA NestedDivision ==
  ASSUME NEW a \in Nat, NEW b \in Nat \ {0}, NEW c \in Nat \ {0}
  PROVE  (a \div b) \div c = a \div (c * b)
<1> DEFINE p == a \div b
           q == p \div c
<1>1. p \in Nat /\ b * p <= a /\ a < b * p + b
  BY Division
<1> HIDE DEF p
<1>2. q \in Nat /\ c * q <= p /\ p < c * q + c
  BY <1>1, Division
<1> HIDE DEF q
<1> DEFINE d == c * b
           cq == c * q
<1>3. d \in Nat \ {0} /\ cq \in Nat
  BY <1>2, SMT
<1>4. d * q = b * cq
  BY <1>2, SMT
<1>5. b * (cq + c) = b * cq + d
  BY <1>2, SMT
<1> HIDE DEF d, cq
<1>6. b * cq <= b * p /\ b * (p + 1) <= b * (cq + c)
  <2>1. cq <= p /\ p + 1 <= cq + c
    BY <1>1, <1>2, <1>3 DEF cq
  <2> QED BY <1>1, <1>3, <2>1, SMT
<1>7. b * p \in Int /\ b * cq \in Int /\ b * (p + 1) = b * p + b
  BY <1>1, <1>3, SMT
<1>8. b * cq <= a /\ a < b * cq + d
  <2> DEFINE x == b * p
             y == b * cq
             z == b * (p + 1)
             w == b * (cq + c)
  <2>1. x \in Int /\ y \in Int /\ z = x + b /\ w = y + d /\ y <= x /\ z <= w
    BY <1>5, <1>6, <1>7
  <2>2. x <= a /\ a < x + b
    BY <1>1
  <2> HIDE DEF x, y, z, w
  <2>3. y <= a /\ a < y + d
    BY <1>3, <2>1, <2>2, SMT
  <2> QED BY <2>3 DEF y
<1>9. a \div d = q
  BY <1>2, <1>3, <1>4, <1>8, QuotientIsUnique
<1> QED BY <1>9 DEF p, q, d

LEMMA QuotientTruncates ==
  ASSUME NEW n \in Int, NEW u \in Nat \ {0}
  PROVE  LET rest == n - Quotient(n, u) * u IN
         /\ Quotient(n, u) \in Int /\ -u < rest /\ rest < u
         /\ (n >= 0 => rest >= 0) /\ (n <= 0 => rest <= 0)
<1>1. CASE n >= 0
  <2> DEFINE q == n \div u
  <2>1. n \in Nat
    BY <1>1
  <2>2. q \in Nat /\ u * q <= n /\ n < u * q + u
    BY <2>1, Division
  <2>3. Quotient(n, u) = q
    BY <1>1 DEF Quotient
  <2> HIDE DEF q
  <2>4. u * q \in Int /\ q * u = u * q
    BY <2>2, SMT
  <2>5. n = 0 => u * q = 0
    <3>1. u * q >= 0
      BY <2>2, SMT
    <3> QED BY <2>2, <2>4, <3>1, SMT
  <2> QED BY <1>1, <2>2, <2>3, <2>4, <2>5, SMT
<1>2. CASE n < 0
  <2> DEFINE q == (-n) \div u
  <2>1. -n \in Nat
    BY <1>2
  <2>2. q \in Nat /\ u * q <= -n /\ -n < u * q + u
    BY <2>1, Division
  <2>3. Quotient(n, u) = -q
    BY <1>2 DEF Quotient
  <2> HIDE DEF q
  <2>4. u * q \in Int /\ (-q) * u = -(u * q)
    BY <2>2, SMT
  <2> QED BY <1>2, <2>2, <2>3, <2>4, SMT
<1> QED BY <1>1, <1>2, SMT

LEMMA NestedQuotient ==
  ASSUME NEW n \in Int, NEW b \in Nat \ {0}, NEW c \in Nat \ {0}
  PROVE  Quotient(Quotient(n, b), c) = Quotient(n, c * b)
<1>1. CASE n >= 0
  <2>1. n \in Nat
    BY <1>1
  <2>2. n \div b \in Nat
    BY <2>1, Division
  <2>3. (n \div b) \div c = n \div (c * b)
    BY <2>1, NestedDivision
  <2>4. Quotient(n, b) = n \div b /\ Quotient(n, c * b) = n \div (c * b)
    BY <1>1 DEF Quotient
  <2> HIDE DEF Quotient
  <2>5. Quotient(n \div b, c) = (n \div b) \div c
    <3>1. n \div b >= 0
      BY <2>2
    <3> QED BY <3>1 DEF Quotient
  <2> QED BY <2>3, <2>4, <2>5
<1>2. CASE n < 0
  <2> DEFINE p == (-n) \div b
  <2>1. -n \in Nat
    BY <1>2
  <2>2. p \in Nat
    BY <2>1, Division
  <2>3. p \div c = (-n) \div (c * b)
    BY <2>1, NestedDivision
  <2>4. Quotient(n, b) = -p /\ Quotient(n, c * b) = -((-n) \div (c * b))
    BY <1>2 DEF Quotient
  <2> HIDE DEF p
  <2>5. Quotient(-p, c) = -(p \div c)
    <3>1. CASE p = 0
      <4>1. 0 \div c = 0
        BY SMT
      <4>2. Quotient(0, c) = 0 \div c
        BY DEF Quotient
      <4> QED BY <3>1, <4>1, <4>2
    <3>2. CASE p # 0
      <4>1. ~(-p >= 0) /\ -(-p) = p
        BY <2>2, <3>2
      <4> QED BY <4>1 DEF Quotient
    <3> QED BY <3>1, <3>2
  <2> QED BY <2>3, <2>4, <2>5
<1> QED BY <1>1, <1>2, SMT

(* However long the units are, a duration is the whole units it holds and  *)
(* a rest of its own sign, and days can be counted from hours              *)
(* (expr.c:1524-1554).                                                     *)
THEOREM UnitsAreWhole == PairSpec => []UnitsTruncate
<1>1. InInt => UnitsTruncate
  <2> SUFFICES ASSUME InInt
               PROVE  UnitsTruncate
    OBVIOUS
  <2>1. ms \in Int
    BY IntAssumption DEF InInt
  <2>2. ASSUME NEW unit \in DOMAIN Unit
        PROVE  LET In == DurationMethod(unit, ms).n
                   rest == ms - In * Unit[unit] IN
               /\ -Unit[unit] < rest /\ rest < Unit[unit]
               /\ (ms >= 0 => rest >= 0) /\ (ms <= 0 => rest <= 0)
    <3>1. DurationMethod(unit, ms).n = Quotient(ms, Unit[unit]) /\ Unit[unit] \in Nat \ {0}
      <4>1. unit \in {"toSeconds", "toMinutes", "toHours", "toDays"}
        BY DEF Unit
      <4>2. CASE unit = "toSeconds"
        BY <4>2, UnitsPositive DEF Unit, DurationMethod, ToUnit, Long
      <4>3. CASE unit = "toMinutes"
        BY <4>3, UnitsPositive DEF Unit, DurationMethod, ToUnit, Long
      <4>4. CASE unit = "toHours"
        BY <4>4, UnitsPositive DEF Unit, DurationMethod, ToUnit, Long
      <4>5. CASE unit = "toDays"
        BY <4>5, UnitsPositive DEF Unit, DurationMethod, ToUnit, Long
      <4> QED BY <4>1, <4>2, <4>3, <4>4, <4>5
    <3> DEFINE u == Unit[unit]
    <3>2. u \in Nat \ {0}
      BY <3>1
    <3> HIDE DEF u
    <3>3. LET rest == ms - Quotient(ms, u) * u IN
          /\ -u < rest /\ rest < u /\ (ms >= 0 => rest >= 0) /\ (ms <= 0 => rest <= 0)
      BY <2>1, <3>2, QuotientTruncates
    <3> QED BY <3>1, <3>3 DEF u
  <2>3. DurationMethod("toDays", DurationMethod("toMilliseconds", ms).n)
          = ToUnit(DurationMethod("toHours", ms).n, HoursPerDay)
    <3>1. DurationMethod("toMilliseconds", ms).n = ms
      BY DEF DurationMethod, Long
    <3>2. DurationMethod("toDays", ms) = Long(Quotient(ms, MsPerDay))
      BY DEF DurationMethod, ToUnit
    <3>3. DurationMethod("toHours", ms).n = Quotient(ms, MsPerHour)
      BY DEF DurationMethod, ToUnit, Long
    <3>4. Quotient(Quotient(ms, MsPerHour), HoursPerDay) = Quotient(ms, MsPerDay)
      BY <2>1, UnitsPositive, NestedQuotient DEF MsPerDay
    <3> QED BY <3>1, <3>2, <3>3, <3>4 DEF ToUnit
  <2> QED BY <2>2, <2>3 DEF UnitsTruncate
<1> QED BY <1>1, AlwaysInInt, PTL

-------------------------------------------------------------------------------
(* Ranges of addresses                                                     *)

(* TwoTo is what its definition says.                                      *)
LEMMA TwoToSteps ==
  /\ TwoTo[0] = 1
  /\ \A k \in Nat : TwoTo[k] \in Nat \ {0} /\ TwoTo[k + 1] = 2 * TwoTo[k]
<1> DEFINE S == Nat \ {0}
           step == [k \in Nat |-> [x \in S |-> 2 * x]]
           G(g) == [k \in Nat |-> IF k = 0 THEN 1 ELSE 2 * g[k - 1]]
<1>1. 1 \in S /\ step \in [Nat -> [S -> S]]
  OBVIOUS
<1>2. PICK f : f \in [Nat -> S] /\ f[0] = 1 /\ \A k \in Nat : f[k + 1] = step[k][f[k]]
  <2>1. \E f : Iterates(f, S, 1, step)
    <3> HIDE DEF S, step
    <3> QED BY <1>1, Recursion
  <2> HIDE DEF S, step
  <2> QED BY <2>1 DEF Iterates
<1>3. \A k \in Nat : f[k + 1] = 2 * f[k]
  BY <1>2
<1>4. f = G(f)
  <2>1. ASSUME NEW k \in Nat PROVE f[k] = G(f)[k]
    <3>1. CASE k = 0
      BY <1>2, <3>1
    <3>2. CASE k # 0
      <4>1. k - 1 \in Nat /\ (k - 1) + 1 = k
        BY <3>2
      <4> QED BY <1>3, <3>2, <4>1
    <3> QED BY <3>1, <3>2
  <2>2. f = [k \in Nat |-> f[k]]
    BY <1>2
  <2> HIDE DEF G
  <2>3. G(f) = [k \in Nat |-> G(f)[k]]
    BY DEF G
  <2> QED BY <2>1, <2>2, <2>3
<1>5. TwoTo = CHOOSE g : g = G(g)
  BY DEF TwoTo
<1>6. TwoTo = G(TwoTo)
  <2> HIDE DEF G
  <2> QED BY <1>4, <1>5
<1> DEFINE T == TwoTo
<1>7. T[0] = 1
  BY <1>6
<1>8. ASSUME NEW k \in Nat PROVE T[k + 1] = 2 * T[k]
  <2>1. k + 1 \in Nat /\ k + 1 # 0 /\ (k + 1) - 1 = k
    OBVIOUS
  <2> HIDE DEF T
  <2> QED BY <1>6, <2>1 DEF T
<1> DEFINE P == {k \in Nat : T[k] \in Nat \ {0}}
<1>9. Nat \subseteq P
  <2> HIDE DEF T
  <2>1. 0 \in P
    BY <1>7
  <2>2. \A k \in Nat : k \in P => k + 1 \in P
    BY <1>8
  <2> HIDE DEF P
  <2> QED BY <2>1, <2>2, Induction
<1> QED BY <1>7, <1>8, <1>9

(* The powers of two add up.                                               *)
LEMMA TwoToSum ==
  ASSUME NEW i \in Nat, NEW j \in Nat
  PROVE  TwoTo[i + j] = TwoTo[i] * TwoTo[j]
<1> DEFINE T == TwoTo
           P == {k \in Nat : T[i + k] = T[i] * T[k]}
<1>1. /\ T[0] = 1
      /\ \A k \in Nat : T[k] \in Nat \ {0} /\ T[k + 1] = 2 * T[k]
  BY TwoToSteps
<1> HIDE DEF T
<1>2. 0 \in P
  BY <1>1
<1>3. ASSUME NEW k \in Nat, k \in P PROVE k + 1 \in P
  <2>1. (i + k) + 1 = i + (k + 1) /\ i + k \in Nat
    OBVIOUS
  <2>2. T[i + (k + 1)] = 2 * T[i + k]
    BY <1>1, <2>1
  <2>3. T[i + k] = T[i] * T[k]
    BY <1>3
  <2>4. T[k + 1] = 2 * T[k]
    BY <1>1
  <2>5. \A x, y \in Nat : 2 * (x * y) = x * (2 * y)
    BY SMT
  <2>6. T[i] \in Nat /\ T[k] \in Nat
    BY <1>1
  <2> QED BY <2>2, <2>3, <2>4, <2>5, <2>6
<1>4. j \in P
  <2> HIDE DEF P
  <2>1. Nat \subseteq P
    BY <1>2, <1>3, Induction
  <2> QED BY <2>1
<1> QED BY <1>4 DEF T

\* Addresses of n bytes
Bytes(n) == [1..n -> 0..ByteBase - 1]

(* A byte has values.                                                      *)
LEMMA BasePositive == ByteBits \in Nat \ {0} /\ ByteBase \in Nat \ {0}
  BY SizeAssumption, TwoToSteps DEF ByteBase

(* Each byte is one more digit of the number.                              *)
LEMMA NumberingSteps ==
  ASSUME NEW n \in Nat, NEW addr \in Bytes(n)
  PROVE  /\ Numbering(addr, n)[0] = 0
         /\ \A k \in 0..n : Numbering(addr, n)[k] \in Nat
         /\ \A k \in 0..n - 1 :
              Numbering(addr, n)[k + 1] = Numbering(addr, n)[k] * ByteBase + addr[k + 1]
<1> DEFINE B == ByteBase
           next(k, x) == IF k < n THEN x * B + addr[k + 1] ELSE 0
           step == [k \in Nat |-> [x \in Nat |-> next(k, x)]]
           G(g) == [k \in 0..n |-> IF k = 0 THEN 0 ELSE g[k - 1] * B + addr[k]]
<1>1. B \in Nat \ {0}
  BY BasePositive
<1> HIDE DEF B
<1>2. \A k \in 1..n : addr[k] \in Nat
  BY <1>1 DEF Bytes, B
<1>3. ASSUME NEW k \in Nat, NEW x \in Nat PROVE next(k, x) \in Nat
  <2>1. x * B \in Nat
    BY <1>1, SMT
  <2>2. CASE k < n
    <3>1. addr[k + 1] \in Nat
      BY <1>2, <2>2
    <3> QED BY <2>1, <2>2, <3>1
  <2> QED BY <2>2
<1>4. step \in [Nat -> [Nat -> Nat]]
  <2> HIDE DEF next
  <2> QED BY <1>3
<1>5. PICK h : h \in [Nat -> Nat] /\ h[0] = 0 /\ \A k \in Nat : h[k + 1] = step[k][h[k]]
  <2>1. \E h : Iterates(h, Nat, 0, step)
    <3> HIDE DEF step
    <3> QED BY <1>4, Recursion
  <2> HIDE DEF step
  <2> QED BY <2>1 DEF Iterates
<1> DEFINE f == [k \in 0..n |-> h[k]]
<1>6. ASSUME NEW k \in 0..n - 1 PROVE h[k + 1] = h[k] * B + addr[k + 1]
  <2>1. k \in Nat /\ k < n /\ h[k] \in Nat
    BY <1>5
  <2>2. step[k][h[k]] = next(k, h[k])
    <3> HIDE DEF next
    <3> QED BY <2>1
  <2> QED BY <1>5, <2>1, <2>2
<1>7. f = G(f)
  <2>1. ASSUME NEW k \in 0..n PROVE f[k] = G(f)[k]
    <3>1. CASE k = 0
      BY <1>5, <3>1
    <3>2. CASE k # 0
      <4>1. k - 1 \in 0..n - 1 /\ (k - 1) + 1 = k /\ k - 1 \in 0..n
        BY <3>2
      <4> QED BY <1>6, <3>2, <4>1
    <3> QED BY <3>1, <3>2
  <2>2. f = [k \in 0..n |-> f[k]]
    OBVIOUS
  <2> HIDE DEF G, f
  <2>3. G(f) = [k \in 0..n |-> G(f)[k]]
    BY DEF G
  <2> QED BY <2>1, <2>2, <2>3
<1> DEFINE V == Numbering(addr, n)
<1>8. V = CHOOSE g : g = G(g)
  BY DEF Numbering, B
<1>9. V = G(V)
  <2> HIDE DEF G, V, f
  <2> QED BY <1>7, <1>8
<1> HIDE DEF V, f
<1>10. V[0] = 0
  BY <1>9
<1>11. ASSUME NEW k \in 0..n - 1 PROVE V[k + 1] = V[k] * B + addr[k + 1]
  <2>1. k + 1 \in 0..n /\ k + 1 # 0 /\ (k + 1) - 1 = k
    OBVIOUS
  <2> QED BY <1>9, <2>1
<1> DEFINE P == {k \in Nat : k <= n => V[k] \in Nat}
<1>12. 0 \in P
  BY <1>10
<1>13. ASSUME NEW k \in Nat, k \in P PROVE k + 1 \in P
  <2> SUFFICES ASSUME k + 1 <= n PROVE V[k + 1] \in Nat
    OBVIOUS
  <2>1. V[k] \in Nat /\ k \in 0..n - 1 /\ addr[k + 1] \in Nat
    BY <1>2, <1>13
  <2>2. V[k] * B \in Nat
    BY <1>1, <2>1, SMT
  <2> QED BY <1>11, <2>1, <2>2
<1>14. Nat \subseteq P
  <2> HIDE DEF P
  <2> QED BY <1>12, <1>13, Induction
<1> QED BY <1>10, <1>11, <1>14 DEF V, B

(* Two numbers of one more digit are the same just if the digit is and the *)
(* number before it.                                                       *)
LEMMA DigitsUnique ==
  ASSUME NEW d \in Nat \ {0}, NEW p \in Nat, NEW q \in Nat,
         NEW x \in 0..d - 1, NEW y \in 0..d - 1
  PROVE  p * d + x = q * d + y <=> p = q /\ x = y
<1> DEFINE a == p * d + x
<1>1. /\ p * d \in Nat /\ q * d \in Nat /\ d * p = p * d /\ d * q = q * d
  BY SMT
<1>2. a \in Nat /\ d * p <= a /\ a < d * p + d
  BY <1>1
<1>3. a \div d = p
  <2> HIDE DEF a
  <2> QED BY <1>2, QuotientIsUnique
<1>4. ASSUME a = q * d + y PROVE p = q /\ x = y
  <2>1. d * q <= a /\ a < d * q + d
    BY <1>1, <1>4
  <2>2. a \div d = q
    <3> HIDE DEF a
    <3> QED BY <1>2, <2>1, QuotientIsUnique
  <2>3. p = q
    BY <1>3, <2>2
  <2> QED BY <1>1, <1>4, <2>3
<1> QED BY <1>4

(* The number of the first bytes is the same just if the bytes are.        *)
LEMMA SameBytes ==
  ASSUME NEW n \in Nat, NEW a \in Bytes(n), NEW b \in Bytes(n), NEW w \in 0..n
  PROVE  Numbering(a, n)[w] = Numbering(b, n)[w] <=> \A k \in 1..w : a[k] = b[k]
<1> DEFINE A == Numbering(a, n)
           C == Numbering(b, n)
           Agree(k) == A[k] = C[k] <=> \A j \in 1..k : a[j] = b[j]
           P == {k \in Nat : k <= n => Agree(k)}
<1>1. /\ A[0] = 0 /\ \A k \in 0..n : A[k] \in Nat
      /\ \A k \in 0..n - 1 : A[k + 1] = A[k] * ByteBase + a[k + 1]
  BY NumberingSteps
<1>2. /\ C[0] = 0 /\ \A k \in 0..n : C[k] \in Nat
      /\ \A k \in 0..n - 1 : C[k + 1] = C[k] * ByteBase + b[k + 1]
  BY NumberingSteps
<1> HIDE DEF A, C
<1>3. 0 \in P
  BY <1>1, <1>2
<1>4. ASSUME NEW k \in Nat, k \in P PROVE k + 1 \in P
  <2> SUFFICES ASSUME k + 1 <= n PROVE Agree(k + 1)
    OBVIOUS
  <2>1. k \in 0..n - 1 /\ k \in 0..n /\ Agree(k)
    BY <1>4
  <2>2. a[k + 1] \in 0..ByteBase - 1 /\ b[k + 1] \in 0..ByteBase - 1
    BY DEF Bytes
  <2>3. A[k + 1] = A[k] * ByteBase + a[k + 1] /\ C[k + 1] = C[k] * ByteBase + b[k + 1]
        /\ A[k] \in Nat /\ C[k] \in Nat
    BY <1>1, <1>2, <2>1
  <2>4. A[k + 1] = C[k + 1] <=> A[k] = C[k] /\ a[k + 1] = b[k + 1]
    <3> DEFINE p == A[k]
               q == C[k]
               x == a[k + 1]
               y == b[k + 1]
    <3>1. p \in Nat /\ q \in Nat /\ x \in 0..ByteBase - 1 /\ y \in 0..ByteBase - 1
      BY <2>2, <2>3
    <3> HIDE DEF p, q, x, y
    <3>2. p * ByteBase + x = q * ByteBase + y <=> p = q /\ x = y
      BY <3>1, BasePositive, DigitsUnique
    <3> QED BY <2>3, <3>2 DEF p, q, x, y
  <2>5. 1..k + 1 = 1..k \cup {k + 1}
    OBVIOUS
  <2>6. (\A j \in 1..k + 1 : a[j] = b[j])
          <=> (\A j \in 1..k : a[j] = b[j]) /\ a[k + 1] = b[k + 1]
    BY <2>5
  <2> QED BY <2>1, <2>4, <2>6
<1>5. Nat \subseteq P
  <2> HIDE DEF P
  <2> QED BY <1>3, <1>4, Induction
<1>6. Agree(w)
  <2> HIDE DEF Agree
  <2> QED BY <1>5
<1> QED BY <1>6 DEF A, C

(* Without its last j bytes the number is that of the others.              *)
LEMMA FirstBytes ==
  ASSUME NEW n \in Nat, NEW a \in Bytes(n), NEW j \in 0..n
  PROVE  Numbering(a, n)[n] \div TwoTo[ByteBits * j] = Numbering(a, n)[n - j]
<1> DEFINE A == Numbering(a, n)
           T(k) == TwoTo[ByteBits * k]
           P == {k \in Nat : k <= n => A[n] \div T(k) = A[n - k]}
<1>1. /\ \A k \in 0..n : A[k] \in Nat
      /\ \A k \in 0..n - 1 : A[k + 1] = A[k] * ByteBase + a[k + 1]
  BY NumberingSteps
<1> HIDE DEF A
<1>2. \A k \in Nat : T(k) \in Nat \ {0} /\ T(k + 1) = ByteBase * T(k)
  <2> SUFFICES ASSUME NEW k \in Nat
               PROVE  T(k) \in Nat \ {0} /\ T(k + 1) = ByteBase * T(k)
    OBVIOUS
  <2> DEFINE m == ByteBits * k
  <2>1. m \in Nat /\ ByteBits \in Nat /\ ByteBits * (k + 1) = ByteBits + m
    BY BasePositive, SMT
  <2> HIDE DEF m
  <2>2. TwoTo[m] \in Nat \ {0}
    BY <2>1, TwoToSteps
  <2>3. TwoTo[ByteBits + m] = TwoTo[ByteBits] * TwoTo[m]
    BY <2>1, TwoToSum
  <2> QED BY <2>1, <2>2, <2>3 DEF ByteBase, m
<1>3. 0 \in P
  <2>1. T(0) = 1
    <3>1. ByteBits * 0 = 0
      BY BasePositive
    <3> QED BY <3>1, TwoToSteps
  <2>2. n \in 0..n /\ n - 0 = n
    OBVIOUS
  <2>3. A[n] \in Nat
    BY <1>1, <2>2
  <2>4. A[n] \div 1 = A[n]
    BY <2>3
  <2> QED BY <2>1, <2>2, <2>4
<1>4. ASSUME NEW k \in Nat, k \in P PROVE k + 1 \in P
  <2> SUFFICES ASSUME k + 1 <= n PROVE A[n] \div T(k + 1) = A[n - (k + 1)]
    OBVIOUS
  <2> DEFINE i == n - (k + 1)
  <2>1. i \in 0..n - 1 /\ i + 1 = n - k /\ i \in 0..n /\ n \in 0..n /\ i + 1 \in 1..n
    OBVIOUS
  <2>2. A[n] \div T(k) = A[i + 1]
    BY <1>4, <2>1
  <2>3. A[i + 1] = A[i] * ByteBase + a[i + 1] /\ A[i] \in Nat /\ A[n] \in Nat
        /\ A[i + 1] \in Nat
    BY <1>1, <2>1
  <2>4. a[i + 1] \in 0..ByteBase - 1
    BY <2>1 DEF Bytes
  <2> HIDE DEF i, T
  <2>5. A[i + 1] \div ByteBase = A[i]
    <3>1. A[i] * ByteBase \in Nat /\ ByteBase * A[i] = A[i] * ByteBase
      BY <2>3, BasePositive, SMT
    <3>2. ByteBase * A[i] <= A[i + 1] /\ A[i + 1] < ByteBase * A[i] + ByteBase
      BY <2>3, <2>4, <3>1, BasePositive
    <3> QED BY <2>3, <3>2, BasePositive, QuotientIsUnique
  <2>6. (A[n] \div T(k)) \div ByteBase = A[n] \div (ByteBase * T(k))
    <3> DEFINE x == A[n]
               t == T(k)
    <3>1. x \in Nat /\ t \in Nat \ {0}
      BY <1>2, <2>3
    <3> HIDE DEF x, t
    <3>2. (x \div t) \div ByteBase = x \div (ByteBase * t)
      BY <3>1, BasePositive, NestedDivision
    <3> QED BY <3>2 DEF x, t
  <2>7. T(k + 1) = ByteBase * T(k)
    BY <1>2
  <2> QED BY <2>2, <2>5, <2>6, <2>7 DEF i
<1>5. j \in P
  <2>1. Nat \subseteq P
    <3> HIDE DEF P
    <3> QED BY <1>3, <1>4, Induction
  <2> QED BY <2>1
<1> QED BY <1>5 DEF A

(* A factor changes no order.                                              *)
LEMMA Scaled ==
  ASSUME NEW x \in Int, NEW y \in Int, NEW d \in Nat \ {0}
  PROVE  x * d <= y * d <=> x <= y
<1>1. x <= y => x * d <= y * d
  BY SMT
<1>2. ASSUME y < x PROVE y * d < x * d
  <2>1. (y + 1) * d <= x * d
    BY <1>2, SMT
  <2>2. (y + 1) * d = y * d + d /\ y * d \in Int /\ x * d \in Int
    BY SMT
  <2> QED BY <2>1, <2>2
<1>3. y * d \in Int /\ x * d \in Int
  BY SMT
<1> QED BY <1>1, <1>2, <1>3

(* A block of s numbers lies in a block of d times as many just if its     *)
(* numbers, divided by the larger size, are those of the larger block.     *)
LEMMA BlockInside ==
  ASSUME NEW x \in Nat, NEW y \in Nat, NEW s \in Nat \ {0}, NEW d \in Nat \ {0}
  PROVE  LET first == (x \div s) * s
             from == (y \div (d * s)) * (d * s) IN
         from <= first /\ first + s <= from + d * s <=> x \div (d * s) = y \div (d * s)
<1> DEFINE ds == d * s
           q == x \div s
           m == y \div ds
           e == d * m
<1>1. ds \in Nat \ {0}
  BY SMT
<1>2. q \in Nat /\ x \div ds = q \div d
  BY Division, NestedDivision
<1>3. m \in Nat
  <2> HIDE DEF ds
  <2> QED BY <1>1, Division
<1> HIDE DEF q, m
<1>4. e \in Nat /\ m * ds = e * s
  BY <1>3, SMT
<1>5. /\ q * s + s = (q + 1) * s /\ e * s + ds = (e + d) * s
  BY <1>2, <1>4, SMT
<1>6. m * ds <= q * s <=> e <= q
  <2> HIDE DEF ds, e
  <2> QED BY <1>2, <1>4, Scaled
<1>7. q * s + s <= m * ds + ds <=> q + 1 <= e + d
  <2> HIDE DEF ds, e
  <2>1. (q + 1) * s <= (e + d) * s <=> q + 1 <= e + d
    <3>1. q + 1 \in Int /\ e + d \in Int
      BY <1>2, <1>4
    <3> QED BY <3>1, Scaled
  <2> QED BY <1>4, <1>5, <2>1
<1>8. e <= q /\ q + 1 <= e + d <=> q \div d = m
  <2>1. q \div d \in Nat /\ d * (q \div d) <= q /\ q < d * (q \div d) + d
    BY <1>2, Division
  <2>2. e <= q /\ q < e + d => q \div d = m
    BY <1>2, <1>3, QuotientIsUnique
  <2>3. q + 1 <= e + d <=> q < e + d
    <3> HIDE DEF e
    <3> QED BY <1>2, <1>4
  <2>4. q \div d = m => e <= q /\ q < e + d
    BY <2>1
  <2> HIDE DEF e
  <2> QED BY <2>2, <2>3, <2>4
<1>9. x \div ds = y \div ds <=> q \div d = m
  BY <1>2 DEF m
<1> QED BY <1>6, <1>7, <1>8, <1>9 DEF q, m, ds

(* The high bits of a number that is put after another                     *)
LEMMA HighBits ==
  ASSUME NEW v \in Nat, NEW m \in Nat \ {0}, NEW u \in Nat \ {0},
         NEW base \in Nat, base = m * u, NEW a \in 0..base - 1
  PROVE  /\ (v * base + a) \div u = v * m + (a \div u)
         /\ a \div u \in 0..m - 1
<1> DEFINE h == a \div u
<1>1. m * u \in Nat /\ a \in Nat
  BY SMT
<1>2. h \in Nat /\ u * h <= a /\ a < u * h + u
  BY <1>1, Division
<1> HIDE DEF h
<1>3. h < m
  <2> SUFFICES ASSUME m <= h PROVE FALSE
    BY <1>2
  <2>1. m * u <= h * u
    BY <1>2, SMT
  <2>2. h * u = u * h /\ u * h \in Int
    BY <1>2, SMT
  <2> QED BY <1>1, <1>2, <2>1, <2>2
<1> DEFINE x == v * base
           q == v * m
           r == q + h
<1>4. x \in Nat /\ q \in Nat /\ u * r = x + u * h /\ u * h \in Nat
  BY <1>2, SMT
<1> HIDE DEF x, q
<1>5. u * r <= x + a /\ x + a < u * r + u /\ x + a \in Nat /\ r \in Int
  BY <1>1, <1>2, <1>4
<1>6. (x + a) \div u = r
  <2> HIDE DEF r
  <2> QED BY <1>5, QuotientIsUnique
<1> QED BY <1>2, <1>3, <1>6 DEF x, q, h

(* Addresses agree in their first p bits just if the code finds that they  *)
(* do: in whole bytes, and in the high bits of the byte after.             *)
LEMMA SameBits ==
  ASSUME NEW n \in Nat \ {0}, NEW a \in Bytes(n), NEW b \in Bytes(n),
         NEW p \in 0..n * ByteBits
  PROVE  LET whole == p \div ByteBits
             rest == p % ByteBits
             unmasked == TwoTo[ByteBits - rest]
             size == TwoTo[n * ByteBits - p] IN
         Numbering(a, n)[n] \div size = Numbering(b, n)[n] \div size
           <=> /\ \A k \in 1..whole : a[k] = b[k]
               /\ rest > 0 => a[whole + 1] \div unmasked = b[whole + 1] \div unmasked
<1> DEFINE A == Numbering(a, n)
           C == Numbering(b, n)
           w == p \div ByteBits
           rest == p % ByteBits
           u == TwoTo[ByteBits - rest]
           m == TwoTo[rest]
           size == TwoTo[n * ByteBits - p]
<1>1. n * ByteBits \in Nat /\ p \in Nat /\ p <= n * ByteBits /\ ByteBits \in Nat \ {0}
  BY BasePositive, SMT
<1>2. w \in Nat /\ rest \in 0..ByteBits - 1 /\ p = ByteBits * w + rest
  <2>1. w \in Nat
    BY <1>1, Division
  <2> QED BY <1>1, <2>1, SMT
<1>3. ByteBits * w \in Nat /\ ByteBits * w = w * ByteBits
  BY <1>1, <1>2, SMT
<1> HIDE DEF w, rest
<1>4. w <= n
  <2>1. w * ByteBits <= n * ByteBits
    BY <1>1, <1>2, <1>3
  <2> QED BY <1>1, <1>2, <2>1, Scaled
<1>5. CASE rest = 0
  <2> DEFINE j == n - w
  <2>1. j \in 0..n /\ n - j = w /\ w \in 0..n
    BY <1>2, <1>4
  <2>2. n * ByteBits - p = ByteBits * j
    <3>1. ByteBits * (n - w) = n * ByteBits - ByteBits * w
      BY <1>1, <1>2, SMT
    <3> QED BY <1>1, <1>2, <1>3, <1>5, <3>1
  <2>3. A[n] \div size = A[w] /\ C[n] \div size = C[w]
    <3> HIDE DEF j
    <3> QED BY <2>1, <2>2, FirstBytes
  <2>4. A[w] = C[w] <=> \A k \in 1..w : a[k] = b[k]
    BY <2>1, SameBytes
  <2> HIDE DEF A, C, size
  <2>5. A[n] \div size = C[n] \div size <=> \A k \in 1..w : a[k] = b[k]
    BY <2>3, <2>4
  <2>6. ~(rest > 0)
    BY <1>5
  <2> QED BY <2>5, <2>6 DEF A, C, size, w, rest
<1>6. CASE rest > 0
  <2> DEFINE j == n - (w + 1)
             t == TwoTo[ByteBits * j]
  <2>1. w < n
    <3> SUFFICES ASSUME w = n PROVE FALSE
      BY <1>2, <1>4
    <3> QED BY <1>1, <1>2, <1>3, <1>6
  <2>2. j \in 0..n /\ n - j = w + 1 /\ w \in 0..n - 1 /\ w \in 0..n /\ w + 1 \in 1..n
    BY <1>2, <2>1
  <2>3. ByteBits - rest \in Nat /\ rest \in Nat /\ rest + (ByteBits - rest) = ByteBits
    BY <1>1, <1>2
  <2>4. ByteBits * j \in Nat /\ n * ByteBits - p = (ByteBits - rest) + ByteBits * j
    <3>1. ByteBits * (n - (w + 1)) = n * ByteBits - ByteBits * w - ByteBits
      BY <1>1, <1>2, SMT
    <3>2. ByteBits * j \in Nat
      BY <1>1, <2>2, SMT
    <3> QED BY <1>1, <1>2, <1>3, <3>1, <3>2
  <2>5. u \in Nat \ {0} /\ m \in Nat \ {0} /\ ByteBase = m * u
    BY <2>3, TwoToSteps, TwoToSum DEF ByteBase
  <2>6. t \in Nat \ {0} /\ size = u * t
    <3> DEFINE bj == ByteBits * j
    <3>1. bj \in Nat /\ n * ByteBits - p = (ByteBits - rest) + bj
      BY <2>4
    <3> HIDE DEF bj
    <3>2. TwoTo[bj] \in Nat \ {0} /\ TwoTo[(ByteBits - rest) + bj] = u * TwoTo[bj]
      BY <2>3, <3>1, TwoToSteps, TwoToSum
    <3> QED BY <3>1, <3>2 DEF bj
  <2>7. A[n] \div t = A[w + 1] /\ C[n] \div t = C[w + 1]
    <3> HIDE DEF j
    <3> QED BY <2>2, FirstBytes
  <2>8. /\ A[w] \in Nat /\ A[n] \in Nat /\ A[w + 1] = A[w] * ByteBase + a[w + 1]
        /\ C[w] \in Nat /\ C[n] \in Nat /\ C[w + 1] = C[w] * ByteBase + b[w + 1]
    BY <2>2, NumberingSteps
  <2>9. a[w + 1] \in 0..ByteBase - 1 /\ b[w + 1] \in 0..ByteBase - 1
    BY <2>2 DEF Bytes
  <2>10. A[w] = C[w] <=> \A k \in 1..w : a[k] = b[k]
    BY <2>2, SameBytes
  <2> HIDE DEF A, C, size, u, m, t
  <2>11. /\ A[n] \div size = A[w] * m + (a[w + 1] \div u)
         /\ C[n] \div size = C[w] * m + (b[w + 1] \div u)
         /\ a[w + 1] \div u \in 0..m - 1 /\ b[w + 1] \div u \in 0..m - 1
    <3> DEFINE N == A[n]
               M == C[n]
               v == A[w]
               z == C[w]
               x == a[w + 1]
               y == b[w + 1]
    <3>1. /\ N \in Nat /\ M \in Nat /\ v \in Nat /\ z \in Nat
          /\ x \in 0..ByteBase - 1 /\ y \in 0..ByteBase - 1
          /\ N \div t = v * ByteBase + x /\ M \div t = z * ByteBase + y
      BY <2>7, <2>8, <2>9
    <3> HIDE DEF N, M, v, z, x, y
    <3>2. (N \div t) \div u = N \div (u * t) /\ (M \div t) \div u = M \div (u * t)
      BY <2>5, <2>6, <3>1, NestedDivision
    <3>3. /\ (v * ByteBase + x) \div u = v * m + (x \div u) /\ x \div u \in 0..m - 1
          /\ (z * ByteBase + y) \div u = z * m + (y \div u) /\ y \div u \in 0..m - 1
      <4>1. m \in Nat \ {0} /\ u \in Nat \ {0} /\ ByteBase = m * u /\ ByteBase \in Nat
            /\ v \in Nat /\ z \in Nat /\ x \in 0..ByteBase - 1 /\ y \in 0..ByteBase - 1
        BY <2>5, <3>1, BasePositive
      <4>2. (v * ByteBase + x) \div u = v * m + (x \div u) /\ x \div u \in 0..m - 1
        BY <4>1, HighBits
      <4>3. (z * ByteBase + y) \div u = z * m + (y \div u) /\ y \div u \in 0..m - 1
        BY <4>1, HighBits
      <4> QED BY <4>2, <4>3
    <3>4. N \div size = v * m + (x \div u) /\ M \div size = z * m + (y \div u)
      <4>1. N \div size = N \div (u * t) /\ M \div size = M \div (u * t)
        BY <2>6, Zenon
      <4>2. /\ N \div (u * t) = (v * ByteBase + x) \div u
            /\ M \div (u * t) = (z * ByteBase + y) \div u
        BY <3>1, <3>2, Zenon
      <4> QED BY <3>3, <4>1, <4>2, Zenon
    <3> QED BY <3>3, <3>4 DEF N, M, v, z, x, y
  <2>12. A[n] \div size = C[n] \div size
           <=> A[w] = C[w] /\ a[w + 1] \div u = b[w + 1] \div u
    <3> DEFINE v == A[w]
               z == C[w]
               x == a[w + 1] \div u
               y == b[w + 1] \div u
    <3>1. v \in Nat /\ z \in Nat /\ x \in 0..m - 1 /\ y \in 0..m - 1
      BY <2>8, <2>11
    <3> HIDE DEF v, z, x, y
    <3>2. v * m + x = z * m + y <=> v = z /\ x = y
      BY <2>5, <3>1, DigitsUnique
    <3> QED BY <2>11, <3>2 DEF v, z, x, y
  <2>13. A[n] \div size = C[n] \div size
           <=> /\ \A k \in 1..w : a[k] = b[k]
               /\ rest > 0 => a[w + 1] \div u = b[w + 1] \div u
    BY <1>6, <2>10, <2>12
  <2> QED BY <2>13 DEF A, C, size, w, rest, u
<1> QED BY <1>2, <1>5, <1>6

\* What is narrowed is a range.
InRanges == \A ip \in receiver : IsRange(ip)

(* It stays one.                                                           *)
LEMMA AlwaysInRanges == RangeSpec => []InRanges
<1>1. RangeInit => InRanges
  BY SampledAssumption DEF RangeInit, InRanges
<1>2. InRanges /\ [Narrow]_receiver => InRanges'
  <2> SUFFICES ASSUME InRanges, Narrow PROVE InRanges'
    BY DEF InRanges
  <2>1. PICK ip \in receiver : ip.prefix < Bits(ip.v6)
                               /\ receiver' = {[ip EXCEPT !.prefix = @ + 1]}
    BY DEF Narrow
  <2> DEFINE next == [ip EXCEPT !.prefix = @ + 1]
  <2>2. IsRange(ip)
    BY DEF InRanges
  <2>3. Bits(ip.v6) \in Nat
    <3>1. BytesOf(ip.v6) \in Nat /\ ByteBits \in Nat
      BY SizeAssumption DEF BytesOf, Ipv6Bytes
    <3> QED BY <3>1, SMT DEF Bits
  <2>4. ip.prefix + 1 \in 0..Bits(ip.v6)
    BY <2>1, <2>2, <2>3 DEF IsRange
  <2>5. next = Ip(ip.v6, ip.addr, ip.prefix + 1)
    BY <2>2 DEF IsRange, Ip
  <2>6. /\ next.v6 = ip.v6 /\ next.addr = ip.addr /\ next.prefix = ip.prefix + 1
    BY <2>5 DEF Ip
  <2>7. IsRange(next)
    <3> HIDE DEF next
    <3> QED BY <2>2, <2>4, <2>5, <2>6 DEF IsRange
  <2> QED BY <2>1, <2>7 DEF InRanges
<1> QED BY <1>1, <1>2, PTL DEF RangeSpec

(* An address has bytes.                                                   *)
LEMMA BytesPositive ==
  ASSUME NEW v6 \in BOOLEAN
  PROVE  BytesOf(v6) \in Nat \ {0} /\ Bits(v6) \in Nat
<1>1. BytesOf(v6) \in Nat \ {0} /\ ByteBits \in Nat
  BY SizeAssumption DEF BytesOf, Ipv6Bytes
<1> QED BY <1>1, SMT DEF Bits

(* A range with a shorter prefix has more addresses.                       *)
LEMMA Larger ==
  ASSUME NEW i \in Nat, NEW j \in Nat, j < i
  PROVE  TwoTo[j] < TwoTo[i]
<1> DEFINE d == (i - j) - 1
           x == TwoTo[j]
           y == TwoTo[d]
<1>1. d \in Nat /\ j \in Nat /\ j + d \in Nat /\ i = (j + d) + 1
  OBVIOUS
<1> HIDE DEF d
<1>2. TwoTo[i] = 2 * TwoTo[j + d] /\ TwoTo[j + d] = x * y
  BY <1>1, TwoToSteps, TwoToSum
<1>3. x \in Nat \ {0} /\ y \in Nat \ {0}
  BY <1>1, TwoToSteps
<1> HIDE DEF x, y
<1>4. x * y \in Nat /\ x * y >= x
  BY <1>3, SMT
<1> QED BY <1>2, <1>3, <1>4 DEF x

(* Whatever the two ranges, the code's comparison is inclusion.            *)
LEMMA ContainsInclusion ==
  ASSUME NEW ip, IsRange(ip), NEW range, IsRange(range)
  PROVE  CidrContains(ip, range) <=>
           /\ ip.v6 = range.v6
           /\ FirstOf(range) <= FirstOf(ip)
           /\ FirstOf(ip) + SizeOf(ip) <= FirstOf(range) + SizeOf(range)
<1>1. CASE ip.v6 # range.v6
  BY <1>1 DEF CidrContains
<1>2. CASE ip.v6 = range.v6
  <2> DEFINE v6 == range.v6
             n == BytesOf(v6)
             a == ip.addr
             b == range.addr
             p == range.prefix
             i == Bits(v6) - ip.prefix
             j == Bits(v6) - p
             x == NumberOf(ip)
             y == NumberOf(range)
             s == SizeOf(ip)
             t == SizeOf(range)
  <2>1. /\ v6 \in BOOLEAN /\ a \in Bytes(n) /\ b \in Bytes(n)
        /\ ip.prefix \in 0..Bits(v6) /\ p \in 0..Bits(v6)
    BY <1>2 DEF IsRange, Bytes
  <2>2. n \in Nat \ {0} /\ Bits(v6) \in Nat /\ Bits(v6) = n * ByteBits
    BY <2>1, BytesPositive DEF Bits
  <2>3. i \in Nat /\ j \in Nat /\ s = TwoTo[i] /\ t = TwoTo[j]
    BY <1>2, <2>1, <2>2 DEF SizeOf
  <2>4. s \in Nat \ {0} /\ t \in Nat \ {0}
    BY <2>3, TwoToSteps
  <2>5. x = Numbering(a, n)[n] /\ y = Numbering(b, n)[n] /\ x \in Nat /\ y \in Nat
    <3>1. n \in 0..n
      BY <2>2
    <3> QED BY <1>2, <2>1, <2>2, <3>1, NumberingSteps DEF NumberOf
  <2>6. FirstOf(ip) = (x \div s) * s /\ FirstOf(range) = (y \div t) * t
    BY DEF FirstOf
  <2>7. CASE ip.prefix < p
    <3>1. t < s
      <4>1. j < i
        BY <2>1, <2>2, <2>7
      <4> HIDE DEF i, j
      <4> QED BY <2>3, <4>1, Larger
    <3>2. ~CidrContains(ip, range)
      BY <2>1, <2>2, <2>7 DEF CidrContains
    <3>3. FirstOf(ip) \in Nat /\ FirstOf(range) \in Nat
      <4> HIDE DEF x, y, s, t
      <4>1. x \div s \in Nat /\ y \div t \in Nat
        BY <2>4, <2>5, Division
      <4>2. (x \div s) * s \in Nat /\ (y \div t) * t \in Nat
        BY <2>4, <4>1, SMT
      <4> QED BY <2>6, <4>2
    <3> DEFINE from == FirstOf(range)
               first == FirstOf(ip)
    <3> HIDE DEF x, y, s, t, from, first
    <3>4. from \in Nat /\ first \in Nat
      BY <3>3 DEF from, first
    <3>5. ~(from <= first /\ first + s <= from + t)
      BY <2>4, <3>1, <3>4
    <3> QED BY <3>2, <3>5 DEF from, first, s, t
  <2>8. CASE p <= ip.prefix
    <3> DEFINE d == TwoTo[j - i]
               inside == /\ FirstOf(range) <= FirstOf(ip)
                         /\ FirstOf(ip) + s <= FirstOf(range) + t
               agree == /\ \A k \in 1..p \div ByteBits : a[k] = b[k]
                        /\ p % ByteBits > 0 =>
                             a[p \div ByteBits + 1] \div TwoTo[ByteBits - (p % ByteBits)]
                               = b[p \div ByteBits + 1] \div TwoTo[ByteBits - (p % ByteBits)]
    <3>1. j - i \in Nat /\ (j - i) + i = j
      BY <2>1, <2>2, <2>3, <2>8
    <3>2. d \in Nat \ {0} /\ t = d * s
      <4> DEFINE k == j - i
      <4>1. k \in Nat /\ i \in Nat /\ k + i = j /\ d = TwoTo[k]
        BY <2>3, <3>1
      <4> HIDE DEF i, j, k, d
      <4>2. TwoTo[k] \in Nat \ {0} /\ TwoTo[k + i] = TwoTo[k] * TwoTo[i]
        BY <4>1, TwoToSteps, TwoToSum
      <4> QED BY <2>3, <4>1, <4>2
    <3>3. inside <=> x \div t = y \div t
      <4> HIDE DEF x, y, s, t, d
      <4>1. (y \div (d * s)) * (d * s) <= (x \div s) * s
              /\ (x \div s) * s + s <= (y \div (d * s)) * (d * s) + d * s
              <=> x \div (d * s) = y \div (d * s)
        <5>1. x \in Nat /\ y \in Nat /\ s \in Nat \ {0} /\ d \in Nat \ {0}
          BY <2>4, <2>5, <3>2
        <5> QED BY <5>1, BlockInside
      <4>2. (y \div t) * t <= (x \div s) * s
              /\ (x \div s) * s + s <= (y \div t) * t + t
              <=> x \div t = y \div t
        BY <3>2, <4>1, Zenon
      <4> QED BY <2>6, <4>2
    <3>4. x \div t = y \div t <=> agree
      <4>1. t = TwoTo[n * ByteBits - p] /\ p \in 0..n * ByteBits
        BY <2>1, <2>2, <2>3
      <4>2. n \in Nat \ {0} /\ a \in Bytes(n) /\ b \in Bytes(n)
        BY <2>1, <2>2
      <4>3. x \div t = Numbering(a, n)[n] \div TwoTo[n * ByteBits - p]
            /\ y \div t = Numbering(b, n)[n] \div TwoTo[n * ByteBits - p]
        <5> HIDE DEF x, y, t, n, a, b, p
        <5> QED BY <2>5, <4>1, Zenon
      <4> HIDE DEF x, y, t, p, n, a, b
      <4>4. Numbering(a, n)[n] \div TwoTo[n * ByteBits - p]
              = Numbering(b, n)[n] \div TwoTo[n * ByteBits - p] <=> agree
        BY <4>1, <4>2, SameBits
      <4> QED BY <4>3, <4>4, Zenon
    <3>5. CidrContains(ip, range) <=> agree
      <4>1. ip.prefix >= range.prefix
        BY <2>1, <2>2, <2>8
      <4> QED BY <1>2, <4>1 DEF CidrContains
    <3>6. CidrContains(ip, range) <=> inside
      <4> HIDE DEF inside, agree, x, y, t
      <4> QED BY <3>3, <3>4, <3>5
    <3> QED BY <1>2, <3>6
  <2> QED BY <2>1, <2>2, <2>7, <2>8
<1> QED BY <1>1, <1>2

(* Whatever the number of bits in a byte and of bytes in an address, and   *)
(* whatever host bits a range was written with, a range is found to lie in *)
(* another just if each of its addresses does: nothing is lost at the byte *)
(* where a prefix ends (expr.c:1400-1439).                                 *)
THEOREM ContainmentIsInclusion == RangeSpec => []ContainsExact
<1>1. InRanges => ContainsExact
  BY ContainsInclusion, SampledAssumption DEF InRanges, ContainsExact
<1> QED BY <1>1, AlwaysInRanges, PTL
===============================================================================
