-------------------------------- MODULE IpRange --------------------------------
(***************************************************************************)
(* What is asked of an address or a range of addresses, and whether a      *)
(* range contains another.  An address is a sequence of bytes, a range the *)
(* addresses that agree with one in a number of its first bits.            *)
(***************************************************************************)
EXTENDS Scan

CONSTANTS
  ByteBits,       \* 8
  Ipv4Bytes,      \* 4
  Groups,         \* 8, each two bytes of an IPv6 address
  LoopbackByte, MulticastByte, MulticastBits  \* 127; 224 and 4

TwoTo[k \in Nat] == IF k = 0 THEN 1 ELSE 2 * TwoTo[k - 1]
ByteBase == TwoTo[ByteBits]
Ipv6Bytes == 2 * Groups

ASSUME SizeAssumption == {ByteBits, Ipv4Bytes, Groups} \subseteq Nat \ {0}
ASSUME WellKnownAssumption ==
  {LoopbackByte, MulticastByte} \subseteq 0..ByteBase - 1 /\ MulticastBits \in 1..ByteBits

Ip(v6, addr, prefix) == [type |-> "IP", v6 |-> v6, addr |-> addr, prefix |-> prefix]

\* Variant with a bug: the bits after the last whole byte are not compared.
CidrContainsBytes(obj, range) ==
  LET whole == range.prefix \div ByteBits IN
  /\ obj.v6 = range.v6 /\ obj.prefix >= range.prefix
  /\ \A k \in 1..whole : obj.addr[k] = range.addr[k]

\* nxe_cedar_ip_cidr_contains
CidrContains(obj, range) ==
  LET whole == range.prefix \div ByteBits
      rest == range.prefix % ByteBits
      unmasked == TwoTo[ByteBits - rest] IN
  /\ obj.v6 = range.v6 /\ obj.prefix >= range.prefix
  /\ \A k \in 1..whole : obj.addr[k] = range.addr[k]
  /\ rest > 0 => obj.addr[whole + 1] \div unmasked = range.addr[whole + 1] \div unmasked

\* The address whose first byte is b and whose last is c
Spread(n, b, c) == [k \in 1..n |-> IF k = 1 THEN b ELSE IF k = n THEN c ELSE 0]

Loopback(v6) ==
  IF v6 THEN Ip(TRUE, Spread(Ipv6Bytes, 0, 1), Ipv6Bytes * ByteBits)
  ELSE Ip(FALSE, Spread(Ipv4Bytes, LoopbackByte, 0), ByteBits)
Multicast(v6) ==
  IF v6 THEN Ip(TRUE, Spread(Ipv6Bytes, ByteBase - 1, 0), ByteBits)
  ELSE Ip(FALSE, Spread(Ipv4Bytes, MulticastByte, 0), MulticastBits)

\* The methods of an ip without an argument
Bool(b) == [type |-> "BOOL", b |-> b]
IpMethod(method, ip) ==
  CASE method = "isIpv4"      -> Bool(~ip.v6)
    [] method = "isIpv6"      -> Bool(ip.v6)
    [] method = "isLoopback"  -> Bool(CidrContains(ip, Loopback(ip.v6)))
    [] method = "isMulticast" -> Bool(CidrContains(ip, Multicast(ip.v6)))
    [] OTHER -> Error
===============================================================================
