------------------------------ MODULE MCExtension ------------------------------
(***************************************************************************)
(* The four extension types side by side: texts of every kind of literal   *)
(* but datetime, the clock that shows datetime literals, pairs of instants *)
(* or durations, and ranges of addresses.  A behaviour walks through one   *)
(* of the four and leaves the others where they are.                       *)
(***************************************************************************)
EXTENDS MCTexts, MCDatetime, MCInstants, MCRanges

MCMinInt == -64

\* Every IPv4 range, and the IPv6 ranges that differ from one in a single byte
MCSampled ==
  LET Written(v6, addrs) == {Ip(v6, a, p) : a \in addrs, p \in 0..Bits(v6)}
      ones == [k \in 1..Ipv6Bytes |-> 1] IN
  Written(FALSE, [1..Ipv4Bytes -> 0..ByteBase - 1]) \cup
  Written(TRUE, {[ones EXCEPT ![k] = b] : k \in 1..Ipv6Bytes, b \in 0..ByteBase - 1})

Parked == Midnight(0, 1, 1)

Init ==
  /\ kind \in DOMAIN Alphabet \cup {"clock", "pair", "range"} /\ text = <<>>
  /\ IF kind = "clock" THEN ClockInit ELSE clock = Parked /\ ticks = 0 /\ start = 0
  /\ PairInit
  /\ IF kind = "range" THEN RangeInit ELSE receiver = {}

Texts == Grow /\ UNCHANGED <<clock, ticks, start, ms, other, receiver>>
Clock == kind = "clock" /\ Tick /\ UNCHANGED <<kind, text, ms, other, receiver>>
Pairs ==
  /\ kind = "pair" /\ (Move \/ MoveOther)
  /\ UNCHANGED <<kind, text, clock, ticks, start, receiver>>
Narrowing == kind = "range" /\ Narrow /\ UNCHANGED <<kind, text, clock, ticks, start, ms, other>>

Next == Texts \/ Clock \/ Pairs \/ Narrowing

Spec == Init /\ [][Next]_<<kind, text, clock, ticks, start, ms, other, receiver>>

-------------------------------------------------------------------------------
(* Long, decimal and duration literals are the numbers their texts stand   *)
(* for, and nothing else is read as one (parser.c:255-307,                 *)
(* expr.c:402-497, 719-825).                                               *)
NumbersExact == DecimalExact /\ DurationExact /\ LongExact

(* A datetime literal is the instant a clock of its zone shows as it, and  *)
(* a text no clock shows is refused (expr.c:498-706).                      *)
DatetimeExact == kind = "clock" => LiteralExact /\ UnrealRefused
===============================================================================
