-------------------------------- MODULE Literals --------------------------------
(***************************************************************************)
(* What the texts of Long, decimal and duration literals stand for, as the *)
(* code reads them: digit by digit, in int64_t, each step checked before   *)
(* it is taken.  A text is a sequence of characters.  A number that may be *)
(* refused is a set of at most one number.                                 *)
(***************************************************************************)
EXTENDS Scan

CONSTANTS
  MinLong, MaxLong,  \* INT64_MIN, INT64_MAX
  UnitMs             \* the milliseconds of a day, hour, minute, second and one

ASSUME LongAssumption == MaxLong \in Nat /\ MaxLong >= 9999 /\ MinLong = -MaxLong - 1
ASSUME UnitAssumption == UnitMs \in [1..5 -> Nat \ {0}]

Valued(type, numbers) ==
  IF numbers = {} THEN Error ELSE [type |-> type, n |-> CHOOSE n \in numbers : TRUE]

Digits == <<"0", "1", "2", "3", "4", "5", "6", "7", "8", "9">>
DigitValue == [c \in Digit |-> (CHOOSE k \in 1..10 : Digits[k] = c) - 1]

\* __builtin_add_overflow and its like
Checked(numbers) == {n \in numbers : MinLong <= n /\ n <= MaxLong}

\* The loop of nxe_cedar_parse_long, nxe_cedar_make_decimal and
\* nxe_cedar_make_duration
Unsigned(s, max) ==
  LET val[k \in 0..Len(s)] ==
        IF k = 0 THEN {0}
        ELSE LET d == DigitValue[s[k]] IN
             {v * 10 + d : v \in {v \in val[k - 1] : v <= (max - d) \div 10}}
  IN val[Len(s)]

ParseLong(s) == Valued("LONG", Unsigned(s, MaxLong))

\* Variant with a bug: the magnitude is read first and negated then.
ParseNegLongNegated(s) == Valued("LONG", {-n : n \in Unsigned(s, MaxLong)})

\* nxe_cedar_parse_neg_long
ParseNegLong(s) ==
  LET val[k \in 0..Len(s)] ==
        IF k = 0 THEN {0}
        ELSE LET d == DigitValue[s[k]] IN
             {v * 10 - d : v \in {v \in val[k - 1] : v >= Quotient(MinLong + d, 10)}}
  IN Valued("LONG", val[Len(s)])

\* The digits from first on, the point and one to four digits, to the end
DecimalFrom(s, first, sign) ==
  LET dot == RunEnd(s, first, Digit)
      last == RunEnd(s, dot + 1, Digit)
      places == last - dot - 1
      frac == CHOOSE f \in Unsigned(SubSeq(s, dot + 1, last - 1), 9999) : TRUE
      scaled == Checked({i * sign * 10000 : i \in Unsigned(SubSeq(s, first, dot - 1), MaxLong)})
  IN IF first < dot /\ At(s, dot, {"."}) /\ places \in 1..4 /\ last = Len(s) + 1
     THEN Checked({i + sign * frac * 10 ^ (4 - places) : i \in scaled})
     ELSE {}

Negative(s) == At(s, 1, {"-"})

\* nxe_cedar_make_decimal
MakeDecimal(s) ==
  IF s = <<>> \/ s = <<"-">> THEN Error
  ELSE Valued("DECIMAL", IF Negative(s) THEN DecimalFrom(s, 2, -1) ELSE DecimalFrom(s, 1, 1))

\* The unit at p, if any: its place among the five, and where it ends
UnitAt(s, p) ==
  CASE At(s, p, {"d"}) -> {[stage |-> 1, end |-> p + 1]}
    [] At(s, p, {"h"}) -> {[stage |-> 2, end |-> p + 1]}
    [] At(s, p, {"m"}) -> IF At(s, p + 1, {"s"}) THEN {[stage |-> 5, end |-> p + 2]}
                          ELSE {[stage |-> 3, end |-> p + 1]}
    [] At(s, p, {"s"}) -> {[stage |-> 4, end |-> p + 1]}
    [] OTHER -> {}

Quantity(s, p) ==
  IF At(s, p, Digit) THEN Unsigned(SubSeq(s, p, RunEnd(s, p, Digit) - 1), MaxLong) ELSE {}

RECURSIVE QuantitiesFrom(_, _, _, _)

\* The loop of nxe_cedar_make_duration, from p on
QuantitiesFrom(s, p, stage, total) ==
  IF p > Len(s) THEN {total}
  ELSE UNION {QuantitiesFrom(s, g[1].end, g[1].stage + 1, total + g[2] * UnitMs[g[1].stage]) :
         g \in {<<u, n>> \in UnitAt(s, RunEnd(s, p, Digit)) \X Quantity(s, p) :
                  u.stage >= stage /\ total + n * UnitMs[u.stage] <= MaxLong}}

\* nxe_cedar_make_duration
MakeDuration(s) ==
  IF s = <<>> \/ s = <<"-">> THEN Error
  ELSE Valued("DURATION", IF Negative(s) THEN Checked({-n : n \in QuantitiesFrom(s, 2, 1, 0)})
                          ELSE QuantitiesFrom(s, 1, 1, 0))
===============================================================================
