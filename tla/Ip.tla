----------------------------------- MODULE Ip -----------------------------------
(***************************************************************************)
(* ip literals: reading IPv4 and IPv6.  A text is a sequence of            *)
(* characters, an address a sequence of bytes.                             *)
(***************************************************************************)
EXTENDS IpRange

CONSTANTS
  HexDigits,      \* 4, which fit a group
  HexValue,       \* the value of each hexadecimal digit
  MaxIpLength     \* 43

ASSUME LengthAssumption == {HexDigits, MaxIpLength} \subseteq Nat \ {0}

Hex == DOMAIN HexValue
HexBase == TwoTo[(2 * ByteBits) \div HexDigits]

NumberIn(s, base) ==
  LET val[k \in 0..Len(s)] == IF k = 0 THEN 0 ELSE val[k - 1] * base + HexValue[s[k]]
  IN val[Len(s)]

\* nxe_cedar_parse_bounded_dec, at p: no number, or one with where it ends
BoundedDec(s, p, max) ==
  LET end == RunEnd(s, p, Digit)
      n == NumberIn(SubSeq(s, p, end - 1), 10) IN
  IF At(s, p, Digit) /\ n <= max /\ (end > p + 1 => s[p] # "0")
  THEN {[n |-> n, end |-> end]} ELSE {}

\* What is read at p to the very end of the text
Whole(s, p, max) == {b.n : b \in {b \in BoundedDec(s, p, max) : b.end = Len(s) + 1}}

\* The ways to read bytes from p on: those so far, up to Ipv4Bytes of them
RECURSIVE BytesFrom(_, _, _)
BytesFrom(s, p, bytes) ==
  UNION {LET all == Append(bytes, b.n) IN
         IF Len(all) = Ipv4Bytes THEN {[addr |-> all, end |-> b.end]}
         ELSE IF At(s, b.end, {"."}) THEN BytesFrom(s, b.end + 1, all) ELSE {} :
         b \in BoundedDec(s, p, ByteBase - 1)}

\* nxe_cedar_parse_ipv4
ParseIpv4(s) ==
  UNION {IF a.end > Len(s) THEN {Ip(FALSE, a.addr, Ipv4Bytes * ByteBits)}
         ELSE IF s[a.end] = "/"
         THEN {Ip(FALSE, a.addr, n) : n \in Whole(s, a.end + 1, Ipv4Bytes * ByteBits)}
         ELSE {} : a \in BytesFrom(s, 1, <<>>)}

\* The value of gap_pos while no `::' was met
NoGap == Groups

RECURSIVE GroupsFrom(_, _, _, _)

\* The loop of nxe_cedar_parse_ipv6 over the address a, from p on
GroupsFrom(a, p, groups, gap) ==
  LET q == RunEnd(a, p, Hex)
      all == Append(groups, NumberIn(SubSeq(a, p, q - 1), HexBase)) IN
  IF p > Len(a) THEN {[groups |-> groups, gap |-> gap]}
  ELSE IF Len(groups) >= Groups \/ q - p \notin 1..HexDigits THEN {}
  ELSE IF q > Len(a) THEN {[groups |-> all, gap |-> gap]}
  ELSE IF a[q] # ":" \/ q = Len(a) THEN {}
  ELSE IF a[q + 1] # ":" THEN GroupsFrom(a, q + 1, all, gap)
  ELSE IF gap # NoGap THEN {}
  ELSE GroupsFrom(a, q + 2, all, Len(all))

\* Variant with a bug: a gap may stand for no group.
ExpandedEmpty(r) ==
  LET n == Len(r.groups) IN
  IF r.gap = NoGap THEN {g \in {r.groups} : n = Groups}
  ELSE IF n > Groups THEN {}
  ELSE {[i \in 1..Groups |-> IF i <= r.gap THEN r.groups[i]
                             ELSE IF i > r.gap + Groups - n THEN r.groups[i + n - Groups]
                             ELSE 0]}

\* The groups of an address, `::' written out
Expanded(r) ==
  LET n == Len(r.groups) IN
  IF r.gap = NoGap THEN {g \in {r.groups} : n = Groups}
  ELSE IF n >= Groups THEN {}
  ELSE {[i \in 1..Groups |-> IF i <= r.gap THEN r.groups[i]
                             ELSE IF i > r.gap + Groups - n THEN r.groups[i + n - Groups]
                             ELSE 0]}

InBytes(groups) ==
  [k \in 1..Ipv6Bytes |-> LET g == groups[(k + 1) \div 2] IN
     IF k % 2 = 1 THEN g \div ByteBase ELSE g % ByteBase]

\* nxe_cedar_parse_ipv6
ParseIpv6(s) ==
  LET slash == RunEnd(s, 1, {s[k] : k \in DOMAIN s} \ {"/"})
      a == SubSeq(s, 1, slash - 1)
      leading == At(a, 1, {":"}) /\ At(a, 2, {":"})
      read == IF leading THEN GroupsFrom(a, 3, <<>>, 0) ELSE GroupsFrom(a, 1, <<>>, NoGap)
      prefixes == IF slash > Len(s) THEN {Ipv6Bytes * ByteBits}
                  ELSE Whole(s, slash + 1, Ipv6Bytes * ByteBits) IN
  {Ip(TRUE, InBytes(g), n) : g \in UNION {Expanded(r) : r \in read}, n \in prefixes}

\* nxe_cedar_make_ip
MakeIp(s) ==
  LET ips == IF Len(s) \notin 1..MaxIpLength THEN {}
             ELSE IF \A k \in DOMAIN s : s[k] # ":" THEN ParseIpv4(s) ELSE ParseIpv6(s) IN
  IF ips = {} THEN Error ELSE CHOOSE ip \in ips : TRUE
===============================================================================
