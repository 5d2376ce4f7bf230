------------------------------ MODULE MCDatetime ------------------------------
(***************************************************************************)
(* A clock that ticks through the days around the places where calendars   *)
(* go wrong, and shows the time in every form a literal may have.  Days    *)
(* are short: three hours of two minutes of two seconds of two ms.         *)
(***************************************************************************)
EXTENDS Datetime

CONSTANT Days  \* how many days the clock runs

VARIABLES clock, ticks, start

Midnight(y, m, d) ==
  [year |-> y, month |-> m, day |-> d, hh |-> 0, mm |-> 0, ss |-> 0, frac |-> 0]

\* Where the clock starts, and the number of that day from 1970-01-01 on
Starts ==
  {<<Midnight(0, 1, 1), -719528>>, <<Midnight(0, 12, 30), -719164>>,
   <<Midnight(1900, 2, 27), -25510>>,
   <<Midnight(1967, 12, 30), -733>>, <<Midnight(1969, 12, 31), -1>>,
   <<Midnight(1999, 12, 30), 10955>>, <<Midnight(2000, 2, 27), 11014>>,
   <<Midnight(2100, 2, 27), 47539>>, <<Midnight(9998, 12, 30), 2932530>>}

\* The calendar, month by month, without its code
Lengths(y) ==
  <<31, IF y \in {0, 1968, 1972, 2000} THEN 29 ELSE 28, 31, 30, 31, 30, 31, 31, 30, 31, 30, 31>>

Tomorrow(f) ==
  IF f.day < Lengths(f.year)[f.month] THEN [f EXCEPT !.day = @ + 1]
  ELSE IF f.month < 12 THEN [f EXCEPT !.day = 1, !.month = @ + 1]
  ELSE [f EXCEPT !.day = 1, !.month = 1, !.year = @ + 1]

After(f) ==
  IF f.frac < MsPerSecond - 1 THEN [f EXCEPT !.frac = @ + 1]
  ELSE IF f.ss < SecondsPerMinute - 1 THEN [f EXCEPT !.frac = 0, !.ss = @ + 1]
  ELSE IF f.mm < MinutesPerHour - 1 THEN [f EXCEPT !.frac = 0, !.ss = 0, !.mm = @ + 1]
  ELSE IF f.hh < HoursPerDay - 1
  THEN [f EXCEPT !.frac = 0, !.ss = 0, !.mm = 0, !.hh = @ + 1]
  ELSE Tomorrow([f EXCEPT !.frac = 0, !.ss = 0, !.mm = 0, !.hh = 0])

ClockInit ==
  \E s \in Starts : clock = s[1] /\ start = s[2] * MsPerDay /\ ticks = start

Tick ==
  /\ ticks < start + Days * MsPerDay
  /\ clock' = After(clock) /\ ticks' = ticks + 1
  /\ UNCHANGED start

-------------------------------------------------------------------------------
N(w, n) == [c |-> "digits", w |-> w, n |-> n]
C(c) == [c |-> c, w |-> 0, n |-> 0]

DateText(f) == <<N(4, f.year), C("-"), N(2, f.month), C("-"), N(2, f.day)>>
TimeText(f) == <<C("T"), N(2, f.hh), C(":"), N(2, f.mm), C(":"), N(2, f.ss)>>
Text(f, zone) == DateText(f) \o TimeText(f) \o <<C("."), N(3, f.frac)>> \o zone

Zone == [zulu |-> <<C("Z")>>, east |-> <<C("+"), N(4, 101)>>, west |-> <<C("-"), N(4, 201)>>]
Ahead == [zulu |-> 0, east |-> MinutesPerHour + 1, west |-> -(2 * MinutesPerHour + 1)]

(* A literal is the instant its text shows, on a clock of its own zone: in *)
(* leap years and at the ends of centuries, before and after 1970, with    *)
(* and without a fraction or a time (expr.c:498-706).                      *)
LiteralExact ==
  /\ \A z \in DOMAIN Zone :
       MakeDatetime(Text(clock, Zone[z])) = Datetime(ticks - Ahead[z] * MsPerMinute)
  /\ clock.frac = 0 =>
       MakeDatetime(DateText(clock) \o TimeText(clock) \o Zone["zulu"]) = Datetime(ticks)
  /\ clock = Midnight(clock.year, clock.month, clock.day) =>
       MakeDatetime(DateText(clock)) = Datetime(ticks)

Edits(f) ==
  {[f EXCEPT !.month = 0], [f EXCEPT !.month = 13], [f EXCEPT !.day = 0],
   [f EXCEPT !.hh = HoursPerDay], [f EXCEPT !.mm = MinutesPerHour],
   [f EXCEPT !.ss = SecondsPerMinute]}
    \cup IF Tomorrow(f).day = 1 THEN {[f EXCEPT !.day = @ + 1]} ELSE {}

Dropped(s, k) == SubSeq(s, 1, k - 1) \o SubSeq(s, k + 1, Len(s))

(* A text that is one field past what a clock shows, or one run short,   *)
(* is refused: no two texts with the same zone and in the same form stand  *)
(* for one instant.                                                        *)
UnrealRefused ==
  /\ \A g \in Edits(clock) : MakeDatetime(Text(g, Zone["east"])) = Error
  /\ \A z \in {<<>>, <<C("+"), N(4, 300)>>, <<C("-"), N(4, 2)>>, <<C("Z"), C("Z")>>} :
       MakeDatetime(Text(clock, z)) = Error
  /\ LET s == Text(clock, Zone["west"]) IN
     \A k \in {k \in DOMAIN s : s[k].c = "digits"} : MakeDatetime(Dropped(s, k)) = Error
===============================================================================
