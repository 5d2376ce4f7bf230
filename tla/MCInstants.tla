------------------------------ MODULE MCInstants ------------------------------
(***************************************************************************)
(* The methods of datetime and duration on every pair of values of a small *)
(* int64_t, its ends included.                                             *)
(***************************************************************************)
EXTENDS Datetime

VARIABLES ms, other

PairInit == ms = 0 /\ other = 0

Beside(n) == {n - 1, n + 1} \cap (MinInt..MaxInt)
Move == ms' \in Beside(ms) /\ UNCHANGED other
MoveOther == other' \in Beside(other) /\ UNCHANGED ms

PairSpec == PairInit /\ [][Move \/ MoveOther]_<<ms, other>>

-------------------------------------------------------------------------------
(* durationSince and offset undo each other: the duration from one instant *)
(* to another leads there, and the instant that a duration leads to is     *)
(* that duration away; there is an error just where either is no int64_t   *)
(* (expr.c:1740-1785).                                                     *)
OffsetUndoes ==
  LET since == DatetimeMethodWith("durationSince", ms, Datetime(other))
      there == DatetimeMethodWith("offset", other, Duration(ms)) IN
  /\ since = Error <=> ms - other \notin MinInt..MaxInt
  /\ there = Error <=> other + ms \notin MinInt..MaxInt
  /\ since # Error => DatetimeMethodWith("offset", other, since) = Datetime(ms)
  /\ there # Error =>
       DatetimeMethodWith("durationSince", there.n, Datetime(other)) = Duration(ms)

Unit == [toSeconds |-> MsPerSecond, toMinutes |-> MsPerMinute, toHours |-> MsPerHour,
         toDays |-> MsPerDay]

(* A duration in whole units is what remains of it without the rest, the   *)
(* same before and after zero, and larger units are counted from smaller   *)
(* ones without a loss (expr.c:1524-1554).                                 *)
UnitsTruncate ==
  LET In(unit) == DurationMethod(unit, ms).n IN
  /\ \A unit \in DOMAIN Unit :
       LET rest == ms - In(unit) * Unit[unit] IN
       /\ -Unit[unit] < rest /\ rest < Unit[unit]
       /\ (ms >= 0 => rest >= 0) /\ (ms <= 0 => rest <= 0)
  /\ DurationMethod("toDays", In("toMilliseconds")) =
       ToUnit(In("toHours"), HoursPerDay)

DayStart(n) == n - (n % MsPerDay)

(* toDate is the midnight before, toTime what has passed since, before     *)
(* 1970 as well as after, and the two together are the instant again; for  *)
(* all instants but those whose midnight is before the first int64_t,      *)
(* where the subtraction of toDate overflows (expr.c:1496-1521).           *)
DateAndTime ==
  MinInt <= DayStart(ms) =>
    LET date == DatetimeMethod("toDate", ms)
        time == DatetimeMethod("toTime", ms) IN
    /\ date = Datetime(DayStart(ms))
    /\ DatetimeMethodWith("offset", date.n, time) = Datetime(ms)
===============================================================================
