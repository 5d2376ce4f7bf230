-------------------------------- MODULE MCTexts --------------------------------
(***************************************************************************)
(* All short texts over the characters that matter to a kind of literal,   *)
(* compared with the numbers or addresses that are written so.  An IPv4    *)
(* address has two bytes of two bits and an IPv6 address three groups of   *)
(* one digit.                                                              *)
(***************************************************************************)
EXTENDS Literals, Ip

CONSTANTS DecimalLength, DurationLength, LongLength, Ipv4Length, Ipv6Length

VARIABLES kind, text

Alphabet == [decimal |-> {"-", ".", "0", "1", "9"},
             duration |-> {"-", "1", "d", "h", "m", "s"},
             long |-> {"0", "1", "8", "9"},
             v4 |-> {"0", "1", "3", "4", ".", "/"},
             v6 |-> {"0", "1", "2", ":", "/"}]
Length == [decimal |-> DecimalLength, duration |-> DurationLength, long |-> LongLength,
           v4 |-> Ipv4Length, v6 |-> Ipv6Length]

Grow ==
  /\ kind \in DOMAIN Alphabet /\ Len(text) < Length[kind]
  /\ \E c \in Alphabet[kind] : text' = Append(text, c)
  /\ UNCHANGED kind

MCMinLong == -19999
MCUnitMs == <<1818, 606, 202, 101, 1>>
MCHexValue ==
  [c \in {"0", "1", "2", "3", "4"} |->
     CASE c = "0" -> 0 [] c = "1" -> 1 [] c = "2" -> 2 [] c = "3" -> 3 [] OTHER -> 4]

-------------------------------------------------------------------------------
(* The numbers that are written with digits of the alphabets, by length    *)
RECURSIVE Numbers(_, _)
Numbers(chars, n) ==
  IF n = 0 THEN {[s |-> <<>>, n |-> 0]}
  ELSE {[s |-> Append(x.s, c), n |-> x.n * 10 + DigitValue[c]] :
          x \in Numbers(chars, n - 1), c \in chars}

Between(chars, lo, hi) == UNION {Numbers(chars, n) : n \in lo..hi}
Signed(spellings) ==
  spellings \cup {[s |-> <<"-">> \o x.s, n |-> -x.n] : x \in spellings}

Wholes == {i \in Between({"0", "1", "9"}, 1, DecimalLength - 2) : i.n <= MaxLong}
Fracs == Between({"0", "1", "9"}, 1, 4)
DecimalSpellings ==
  Signed({[s |-> p[1].s \o <<".">> \o p[2].s,
           n |-> p[1].n * 10000 + p[2].n * 10 ^ (4 - Len(p[2].s))] :
            p \in {p \in Wholes \X Fracs : Len(p[1].s) + Len(p[2].s) < DecimalLength}})

Ones == Between({"1"}, 1, DurationLength - 1)
UnitName == <<<<"d">>, <<"h">>, <<"m">>, <<"s">>, <<"m", "s">>>>

\* Sums of quantities of the units from k on, each at most once
RECURSIVE Sums(_)
Sums(k) ==
  IF k = 6 THEN {[s |-> <<>>, n |-> 0]}
  ELSE Sums(k + 1) \cup
       {[s |-> q.s \o UnitName[k] \o rest.s, n |-> q.n * UnitMs[k] + rest.n] :
          <<q, rest>> \in {<<q, rest>> \in Ones \X Sums(k + 1) :
                             Len(q.s) + Len(UnitName[k]) + Len(rest.s) <= DurationLength}}

DurationSpellings == Signed({x \in Sums(1) : x.s # <<>>})

Fitting(spellings) == {x \in spellings : x.n \in MinLong..MaxLong}
Decimals == Fitting(DecimalSpellings)
\* One that is a duration, but of the lowest number, is refused.
Durations == Fitting(DurationSpellings) \ {x \in DurationSpellings : x.n = MinLong}
DecimalTexts == {x.s : x \in Decimals}
DurationTexts == {x.s : x \in Durations}

(* The answer to a text that spells a number is that number, and an error  *)
(* to any other text.                                                      *)
Reads(v, spellings, texts) ==
  IF text \in texts THEN v # Error /\ [s |-> text, n |-> v.n] \in spellings ELSE v = Error

(* A decimal literal is read exactly, to both ends of its range, the       *)
(* lowest value included, and everything else is refused; no step of the   *)
(* reading overflows unseen (expr.c:402-497).                              *)
DecimalExact == kind = "decimal" => Reads(MakeDecimal(text), Decimals, DecimalTexts)

(* A duration is the sum of its units, each at most once and in order; it  *)
(* is refused only if it is no duration, or if its magnitude is out of     *)
(* range, which makes the lowest int64_t no duration (expr.c:719-825).     *)
DurationExact == kind = "duration" => Reads(MakeDuration(text), Durations, DurationTexts)

(* A Long literal after a minus reaches one further than one without, and  *)
(* neither goes beyond (parser.c:255-307).                                 *)
LongExact ==
  kind = "long" =>
    LET n == (CHOOSE x \in Numbers({text[k] : k \in DOMAIN text}, Len(text)) : x.s = text).n
        Represented(m) == IF m \in MinLong..MaxLong THEN [type |-> "LONG", n |-> m] ELSE Error IN
    /\ ParseLong(text) = Represented(n)
    /\ ParseNegLong(text) = Represented(-n)

-------------------------------------------------------------------------------
(* What is written how.  A spelling is a text s and the n it stands for.   *)

HexNumber(c) == [s |-> <<c>>, n |-> HexValue[c]]
HexNumbers(cs) == {HexNumber(c) : c \in cs}

\* Every address that can be written, as groups or bytes
RECURSIVE Joined(_, _, _)
Joined(numbers, sep, n) ==
  IF n = 0 THEN {[s |-> <<>>, n |-> <<>>]}
  ELSE {[s |-> IF n = 1 THEN x.s ELSE rest.s \o <<sep>> \o x.s, n |-> Append(rest.n, x.n)] :
          rest \in Joined(numbers, sep, n - 1), x \in numbers}

Zeros(n) == [k \in 1..n |-> 0]

Ipv4Spellings == Joined(HexNumbers({"0", "1", "3"}), ".", Ipv4Bytes)
Ipv6Parts(n) == Joined(HexNumbers({"0", "1", "2"}), ":", n)
Ipv6Spellings ==
  Ipv6Parts(Groups) \cup
  UNION {{[s |-> l.s \o <<":", ":">> \o r.s, n |-> l.n \o Zeros(Groups - i - j) \o r.n] :
            l \in Ipv6Parts(i), r \in Ipv6Parts(j)} :
           <<i, j>> \in {<<i, j>> \in (0..Groups) \X (0..Groups) : i + j < Groups}}

\* No prefix, or one up to max that is written with these characters
Prefixes(cs, max) ==
  {[s |-> <<>>, n |-> max]} \cup
  {[s |-> <<"/">> \o p.s, n |-> p.n] :
     p \in {p \in HexNumbers(cs) \cup {[s |-> <<c, d>>, n |-> HexValue[c] * 10 + HexValue[d]] :
                                      c \in cs \ {"0"}, d \in cs} : p.n <= max}}

With(v6, spellings, prefixes) ==
  {[s |-> a.s \o p.s, ip |-> Ip(v6, IF v6 THEN InBytes(a.n) ELSE a.n, p.n)] :
     a \in spellings, p \in prefixes}

Spellings ==
  [v4 |-> With(FALSE, Ipv4Spellings, Prefixes({"0", "1", "3", "4"}, Ipv4Bytes * ByteBits)),
   v6 |-> With(TRUE, Ipv6Spellings, Prefixes({"0", "1", "2"}, Ipv6Bytes * ByteBits))]
SpelledTexts == [k \in DOMAIN Spellings |-> {x.s : x \in Spellings[k]}]

DoubleColon(s) == {k \in 1..Len(s) - 1 : s[k] = ":" /\ s[k + 1] = ":"}
Colons(s) == {k \in DOMAIN s : s[k] = ":"}

\* A `::' after all the groups there are
Superfluous(s) ==
  \E k \in DoubleColon(s) :
    /\ SubSeq(s, 1, k - 1) \in {x.s : x \in Ipv6Parts(Groups)}
    /\ k + 1 = Len(s) \/ s[k + 2] = "/"

-------------------------------------------------------------------------------

(* An address or range is read exactly, and nothing else is: every text    *)
(* with a gap, two, or none, at either end or inside, with a prefix or     *)
(* without (expr.c:139-390, 829-876).  A `::' after the last of all groups *)
(* is left out: the code takes it for no gap (expr.c:331, 346-352).        *)
IpExact ==
  kind \in DOMAIN Spellings /\ ~Superfluous(text) =>
    IF text \in SpelledTexts[kind] THEN [s |-> text, ip |-> MakeIp(text)] \in Spellings[kind]
    ELSE MakeIp(text) = Error
================================================================================
