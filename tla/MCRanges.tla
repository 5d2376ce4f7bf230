-------------------------------- MODULE MCRanges --------------------------------
(***************************************************************************)
(* A range that is narrowed bit by bit, beside a sample of others: whether *)
(* it lies in each of them.                                                *)
(***************************************************************************)
EXTENDS IpRange

CONSTANT Sampled

VARIABLE receiver  \* one range, or none when there is none to narrow

BytesOf(v6) == IF v6 THEN Ipv6Bytes ELSE Ipv4Bytes
Bits(v6) == BytesOf(v6) * ByteBits

IsRange(ip) ==
  /\ ip.v6 \in BOOLEAN /\ ip = Ip(ip.v6, ip.addr, ip.prefix)
  /\ ip.addr \in [1..BytesOf(ip.v6) -> 0..ByteBase - 1] /\ ip.prefix \in 0..Bits(ip.v6)

ASSUME SampledAssumption == \A ip \in Sampled : IsRange(ip)

RangeInit == \E ip \in Sampled : receiver = {ip}

Narrow ==
  \E ip \in receiver :
    /\ ip.prefix < Bits(ip.v6)
    /\ receiver' = {[ip EXCEPT !.prefix = @ + 1]}

RangeSpec == RangeInit /\ [][Narrow]_receiver

-------------------------------------------------------------------------------
(* The addresses of a range have consecutive numbers.                      *)

\* The numbers that the first bytes of an address make, for each count of them
Numbering(addr, n) ==
  LET val[k \in 0..n] == IF k = 0 THEN 0 ELSE val[k - 1] * ByteBase + addr[k] IN val

NumberOf(ip) == Numbering(ip.addr, BytesOf(ip.v6))[BytesOf(ip.v6)]
SizeOf(ip) == TwoTo[Bits(ip.v6) - ip.prefix]
FirstOf(ip) == (NumberOf(ip) \div SizeOf(ip)) * SizeOf(ip)

(* isInRange is inclusion: of every address of the receiver in the range,  *)
(* whatever host bits either was written with, and across byte boundaries  *)
(* (expr.c:1400-1439).                                                     *)
ContainsExact ==
  \A ip \in receiver : \A range \in Sampled :
    CidrContains(ip, range) <=>
      /\ ip.v6 = range.v6
      /\ FirstOf(range) <= FirstOf(ip)
      /\ FirstOf(ip) + SizeOf(ip) <= FirstOf(range) + SizeOf(range)
================================================================================
