-------------------------------- MODULE Datetime --------------------------------
(***************************************************************************)
(* datetime and duration: the calendar, the instant a datetime literal     *)
(* stands for, and the methods.  Instants and durations are milliseconds   *)
(* in int64_t.                                                             *)
(*                                                                         *)
(* The text of a literal is a sequence of pieces [c, w, n]: a run of w     *)
(* digits of value n, where c is "digits", or the character c.             *)
(***************************************************************************)
EXTENDS Scan

CONSTANTS
  MinInt, MaxInt,                                            \* INT64_MIN, INT64_MAX
  HoursPerDay, MinutesPerHour, SecondsPerMinute, MsPerSecond \* 24, 60, 60, 1000

ASSUME IntAssumption == MaxInt \in Nat /\ MinInt = -MaxInt - 1
ASSUME ClockAssumption ==
  {HoursPerDay, MinutesPerHour, SecondsPerMinute, MsPerSecond} \subseteq Nat \ {0}

MsPerMinute == SecondsPerMinute * MsPerSecond
MsPerHour == MinutesPerHour * MsPerMinute
MsPerDay == HoursPerDay * MsPerHour

Datetime(ms) == [type |-> "DATETIME", n |-> ms]
Duration(ms) == [type |-> "DURATION", n |-> ms]
Long(n) == [type |-> "LONG", n |-> n]

InRange(n) == MinInt <= n /\ n <= MaxInt

-------------------------------------------------------------------------------
(* The calendar                                                            *)

IsLeap(y) == (y % 4 = 0 /\ y % 100 # 0) \/ y % 400 = 0

\* nxe_cedar_days_in_month
DaysInMonth(y, m) ==
  IF m = 2 /\ IsLeap(y) THEN 29
  ELSE <<31, 28, 31, 30, 31, 30, 31, 31, 30, 31, 30, 31>>[m]

\* Variant with a bug: the year begins in January.
DaysFromCivilJanuary(year, m, d) ==
  LET era == year \div 400
      yoe == year - era * 400
      doy == (153 * (IF m > 2 THEN m - 3 ELSE m + 9) + 2) \div 5 + d - 1
      doe == yoe * 365 + yoe \div 4 - yoe \div 100 + doy
  IN era * 146097 + doe - 719468

\* nxe_cedar_days_from_civil: a year begins in March; none of the divisions
\* truncates another way than \div, also in the March year -1.
DaysFromCivil(year, m, d) ==
  LET y == IF m <= 2 THEN year - 1 ELSE year
      era == y \div 400
      yoe == y - era * 400
      doy == (153 * (IF m > 2 THEN m - 3 ELSE m + 9) + 2) \div 5 + d - 1
      doe == yoe * 365 + yoe \div 4 - yoe \div 100 + doy
  IN era * 146097 + doe - 719468

\* The last expressions of nxe_cedar_make_datetime
Instant(f) ==
  (((DaysFromCivil(f.year, f.month, f.day) * HoursPerDay + f.hh) * MinutesPerHour + f.mm)
     * SecondsPerMinute + f.ss) * MsPerSecond + f.frac
  - f.offset_min * MsPerMinute

-------------------------------------------------------------------------------
(* Literals                                                                *)

D(w) == [c |-> "digits", w |-> w]
Mark(c) == [c |-> c, w |-> 0]

DateShape == <<D(4), Mark("-"), D(2), Mark("-"), D(2)>>
TimeShape == <<Mark("T"), D(2), Mark(":"), D(2), Mark(":"), D(2)>>
Fractions == {<<>>, <<Mark("."), D(3)>>}
Zones == {<<Mark("Z")>>, <<Mark("+"), D(4)>>, <<Mark("-"), D(4)>>}

ShapeOf(s) == [k \in DOMAIN s |-> [c |-> s[k].c, w |-> s[k].w]]
WellShaped(s) ==
  ShapeOf(s) \in {DateShape} \cup
                 {DateShape \o TimeShape \o f \o z : f \in Fractions, z \in Zones}

\* What the runs of digits say; a date alone is its midnight in UTC.
FieldsOf(s) ==
  LET timed == Len(s) > 5
      precise == timed /\ s[12].c = "."
      zone == s[Len(s)].n
      minutes == (zone \div 100) * MinutesPerHour + (zone % 100) IN
  [year |-> s[1].n, month |-> s[3].n, day |-> s[5].n,
   hh |-> IF timed THEN s[7].n ELSE 0, mm |-> IF timed THEN s[9].n ELSE 0,
   ss |-> IF timed THEN s[11].n ELSE 0, frac |-> IF precise THEN s[13].n ELSE 0,
   offset_hh |-> IF timed THEN zone \div 100 ELSE 0,
   offset_mm |-> IF timed THEN zone % 100 ELSE 0,
   offset_min |-> IF ~timed \/ s[Len(s)].c = "Z" THEN 0
                  ELSE IF s[Len(s) - 1].c = "-" THEN -minutes ELSE minutes]

InClock(f) ==
  /\ f.month \in 1..12 /\ f.day \in 1..DaysInMonth(f.year, f.month)
  /\ f.hh < HoursPerDay /\ f.mm < MinutesPerHour /\ f.ss < SecondsPerMinute
  /\ f.offset_hh < HoursPerDay /\ f.offset_mm < MinutesPerHour

\* nxe_cedar_make_datetime
MakeDatetime(s) ==
  IF WellShaped(s) /\ InClock(FieldsOf(s)) THEN Datetime(Instant(FieldsOf(s))) ELSE Error

-------------------------------------------------------------------------------
(* Methods                                                                 *)

\* What is left over by C's division
Remainder(a, b) == a - b * Quotient(a, b)

\* Variant with a bug: the remainder of an instant before 1970 stays negative.
SinceMidnightTruncated(ms) == Remainder(ms, MsPerDay)

SinceMidnight(ms) ==
  LET r == Remainder(ms, MsPerDay) IN IF r < 0 THEN r + MsPerDay ELSE r

\* What the subtraction of two int64_t gives when nothing checks it
Wrapped(n) == ((n - MinInt) % (MaxInt - MinInt + 1)) + MinInt

ToDate(ms) == Datetime(Wrapped(ms - SinceMidnight(ms)))
ToTime(ms) == Duration(SinceMidnight(ms))

ToUnit(d, unit) == Long(Quotient(d, unit))

\* Variant with a bug: the sum is not checked.
OffsetUnchecked(ms, d) == Datetime(Wrapped(ms + d))

Offset(ms, d) == IF InRange(ms + d) THEN Datetime(ms + d) ELSE Error

DurationSince(ms, other) == IF InRange(ms - other) THEN Duration(ms - other) ELSE Error

\* The methods of a datetime and of a duration, without and with an argument
DatetimeMethod(method, ms) ==
  CASE method = "toDate" -> ToDate(ms)
    [] method = "toTime" -> ToTime(ms)
    [] OTHER -> Error

DurationMethod(method, d) ==
  CASE method = "toMilliseconds" -> Long(d)
    [] method = "toSeconds" -> ToUnit(d, MsPerSecond)
    [] method = "toMinutes" -> ToUnit(d, MsPerMinute)
    [] method = "toHours"   -> ToUnit(d, MsPerHour)
    [] method = "toDays"    -> ToUnit(d, MsPerDay)
    [] OTHER -> Error

DatetimeMethodWith(method, ms, arg) ==
  CASE method = "offset" /\ arg.type = "DURATION" -> Offset(ms, arg.n)
    [] method = "durationSince" /\ arg.type = "DATETIME" -> DurationSince(ms, arg.n)
    [] OTHER -> Error
===============================================================================
