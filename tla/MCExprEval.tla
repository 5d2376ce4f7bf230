------------------------------ MODULE MCExprEval ------------------------------
(***************************************************************************)
(* A small instance of ExprEval: every operator over a few operands that   *)
(* fit it and some that do not, and trees of two and three levels where    *)
(* the shape matters, in three contexts.                                   *)
(***************************************************************************)
EXTENDS ExprMeaning, Functions

\* Whatever has no elements and a literal, a context or a method gives
MCScalar ==
  [type : Numeric, n : Int] \cup [type : {"BOOL"}, b : BOOLEAN]
    \cup [type : {"STRING"}, s : STRING]
    \cup [type : {"IP"}, v6 : BOOLEAN, prefix : Nat, addr : Seq(Nat)]
    \cup [type : {"ENTITY"}, uid : [type : STRING, id : STRING], slot : Slot \cup {"none"}]
VE == INSTANCE ValueEquals WITH Scalar <- MCScalar, MaxHeight <- 5,
        MaxValueEqualsDepth <- 2, MaxElts <- 3

MCEquals(a, b) == VE!ValueEquals(a, b, 0)
MCMinLong == -4
MCLikeMatches(s, pattern) == s \in pattern

\* A day of two milliseconds, which Long's width of three bits holds
D == INSTANCE Datetime WITH MinInt <- MinLong, MaxInt <- MaxLong, HoursPerDay <- 1,
       MinutesPerHour <- 1, SecondsPerMinute <- 2, MsPerSecond <- 1
MsIn == [toMilliseconds |-> 1, toSeconds |-> 1, toMinutes |-> 2, toHours |-> 2, toDays |-> 2]

L == INSTANCE Literals WITH MinLong <- -10000, MaxLong <- 9999,
       UnitMs <- <<2, 2, 2, 1, 1>>

\* IPv4 addresses of two bytes of two bits
HexValue == [c \in {"0", "1", "2", "3"} |->
  CASE c = "0" -> 0 [] c = "1" -> 1 [] c = "2" -> 2 [] OTHER -> 3]
I == INSTANCE Ip WITH ByteBits <- 2, Ipv4Bytes <- 2, Groups <- 2, HexDigits <- 1,
       MaxIpLength <- 8, LoopbackByte <- 1, MulticastByte <- 2, MulticastBits <- 1

MCMakeExtension(fn, text) ==
  CASE fn = "ip"       -> I!MakeIp(text)
    [] fn = "decimal"  -> L!MakeDecimal(text)
    [] fn = "duration" -> L!MakeDuration(text)
    [] OTHER           -> D!MakeDatetime(text)
MCDatetimeMethod(method, ms) == D!DatetimeMethod(method, ms)
MCDatetimeMethodWith(method, ms, arg) == D!DatetimeMethodWith(method, ms, arg)
MCDurationMethod(method, d) == D!DurationMethod(method, d)
MCIpMethod(method, ip) == I!IpMethod(method, ip)
MCCidrContains(obj, range) == I!CidrContains(obj, range)

\* Addresses of one family that agree in as many bits as the range names
Bit(ip, k) == (ip.addr[(k - 1) \div 2 + 1] \div (IF k % 2 = 1 THEN 2 ELSE 1)) % 2
InRange(range, ip) ==
  /\ range.v6 = ip.v6 /\ range.prefix <= ip.prefix
  /\ \A k \in 1..range.prefix : Bit(range, k) = Bit(ip, k)
AddressIs(method, ip) ==
  Bool(CASE method = "isIpv4" -> ~ip.v6
         [] method = "isIpv6" -> ip.v6
         [] method = "isLoopback" -> IF ip.v6 THEN ip = I!Ip(TRUE, <<0, 0, 0, 1>>, 8)
                                     ELSE ip.addr[1] = 1 /\ ip.prefix >= 2
         [] OTHER -> ip.prefix >= (IF ip.v6 THEN 2 ELSE 1)
                     /\ ip.addr[1] \in IF ip.v6 THEN {3} ELSE {2, 3})

\* What the methods of the extension types give for what they take
As(type, n) == IF n \in MinLong..MaxLong THEN [type |-> type, n |-> n] ELSE Error
Truncated(n, unit) == IF n < 0 THEN -((-n) \div unit) ELSE n \div unit

MCExtensionMeaning(method, m) ==
  CASE method = "isInRange" -> Bool(InRange(m[2], m[1]))
    [] method = "toDate" -> As("DATETIME", m[1].n - (m[1].n % MsIn["toDays"]))
    [] method = "toTime" -> As("DURATION", m[1].n % MsIn["toDays"])
    [] method = "offset" -> As("DATETIME", m[1].n + m[2].n)
    [] method = "durationSince" -> As("DURATION", m[1].n - m[2].n)
    [] method \in DOMAIN MsIn -> As("LONG", Truncated(m[1].n, MsIn[method]))
    [] OTHER -> AddressIs(method, m[1])

MCSameAs(v, w) == VE!SameValue(v, w)

-------------------------------------------------------------------------------
(* Contexts                                                                *)

Uid(type, id) == [type |-> type, id |-> id]
Alice == Uid("User", "alice")   Read == Uid("Action", "read")
Doc == Uid("Doc", "d1")         Staff == Uid("Group", "staff")
Folder == Uid("Group", "top")

Attr(name, value) == [name |-> name, value |-> value]
Injected(uid) == Entity(uid, "none")

IpTexts ==
  {<<"1", ".", "0">>, <<"1", ".", "3", "/", "3">>, <<"2", ".", "3", "/", "1">>,
   <<"3", ".", "1">>, <<":", ":", "1">>, <<"3", ":", ":", "/", "2">>}

\* What the conditions below compare: scalars, sets of two, and sets in those
SetValue(elts) == [type |-> "SET", elts |-> elts]
Members == {Long(1), Bool(TRUE)} \cup {Injected(uid) : uid \in {Alice, Read, Doc, Staff}}
MCComparable ==
  Members \cup {Injected(Folder), [type |-> "RECORD", attrs |-> <<Attr("x", Long(1))>>]}
    \cup {[type |-> type, n |-> n] : type \in {"DATETIME", "DECIMAL", "DURATION"}, n \in 0..2}
    \cup {I!MakeIp(text) : text \in IpTexts}
    \cup {SetValue(<<>>)} \cup {SetValue(<<x>>) : x \in Members}
    \cup {SetValue(<<x, y>>) : x \in Members,
             y \in Members \cup {SetValue(<<Long(1)>>), SetValue(<<Injected(Read)>>)}}

MkContext(resource, resourceAttrs, resourceParents) ==
  [uid |-> [s \in Slot |-> CASE s = "principal" -> Alice
                             [] s = "action"    -> Read
                             [] s = "resource"  -> resource],
   parents |-> [s \in Slot |-> CASE s = "principal" -> <<Staff>>
                                 [] s = "action"    -> <<>>
                                 [] s = "resource"  -> resourceParents],
   attrs |-> [v \in Slot \cup {"context"} |->
     CASE v = "principal" -> <<Attr("x", Long(1)), Attr("owner", Injected(Folder))>>
       [] v = "action"    -> <<>>
       [] v = "resource"  -> resourceAttrs
       [] v = "context"   -> <<Attr("r", [type |-> "RECORD", attrs |->
                                            <<Attr("owner", Injected(Alice))>>])>>]]

MCContext ==
  {MkContext(Doc, <<Attr("owner", Injected(Alice))>>, <<Folder, Staff>>),
   \* the resource is the principal, told the same or other things
   MkContext(Alice, <<Attr("x", Long(1)), Attr("owner", Injected(Folder))>>, <<Staff>>),
   MkContext(Alice, <<>>, <<Folder>>)}

-------------------------------------------------------------------------------
(* Nodes                                                                   *)

Lit(v) == [op |-> "lit", kids |-> <<>>, val |-> v]
Var(v) == [op |-> "var", kids |-> <<>>, var |-> v]
Ref(uid) == [op |-> "entity_ref", kids |-> <<>>, uid |-> uid]
Binary(op, l, r) == [op |-> op, kids |-> <<l, r>>]
Unary(op, x) == [op |-> op, kids |-> <<x>>]
AttrOf(o, name) == [op |-> "attr", kids |-> <<o>>, name |-> name]
Has(o, name) == [op |-> "has", kids |-> <<o>>, name |-> name]
SetOf(s) == [op |-> "set", kids |-> s]
RecordOf(key, x) == [op |-> "record", kids |-> <<x>>, keys |-> <<key>>]
Is(o, type, rest) == [op |-> "is", kids |-> <<o>> \o rest, etype |-> type]
Method(method, args) == [op |-> "method", kids |-> args, method |-> method]
Ite(c, x, y) == [op |-> "ite", kids |-> <<c, x, y>>]

T == Lit(Bool(TRUE))    F == Lit(Bool(FALSE))   Bad == Lit(Error)
One == Lit(Long(1))     Least == Lit(Long(MinLong))
Day == Lit([type |-> "DURATION", n |-> 1])
Ext(fn, text) == [op |-> "ext", kids |-> <<>>, fn |-> fn, text |-> text]
Str == Lit([type |-> "STRING", s |-> "s"])

Truths == {T, F, Bad, One}
Vars == {Var("principal"), Var("action"), Var("resource")}
Refs == {Ref(Alice), Ref(Doc), Ref(Staff)}
Numbers == {One, Least, Day, T}

\* Entities that come out of a composite, and so without a tag
Buried == {AttrOf(RecordOf("owner", Var("principal")), "owner"),
           Ite(T, Var("principal"), Bad), AttrOf(Var("resource"), "owner"),
           AttrOf(AttrOf(Var("context"), "r"), "owner")}
Objects == Vars \cup {Var("context"), Ref(Alice), Ref(Staff), One,
                      AttrOf(Var("context"), "r"), RecordOf("x", One)} \cup Buried
Ips == {Ext("ip", text) : text \in IpTexts \cup {<<"1", ".">>}}
Decimals == {Ext("decimal", s) : s \in
               {<<"0", ".", "0", "0", "0", "1">>, <<"0", ".", "0">>,
                <<"-", "0", ".", "0", "0", "0", "3">>, <<"1">>}}
Durations == {Ext("duration", s) : s \in {<<"1", "d">>, <<"-", "3", "m", "s">>, <<"d">>}}
Date(day) == Ext("datetime",
  <<[c |-> "digits", w |-> 4, n |-> 1970], [c |-> "-", w |-> 0, n |-> 0],
    [c |-> "digits", w |-> 2, n |-> 1], [c |-> "-", w |-> 0, n |-> 0],
    [c |-> "digits", w |-> 2, n |-> day]>>)
Instants == {Date(1), Date(2), Date(32)} \cup
            {Lit([type |-> "DATETIME", n |-> n]) : n \in {-4, -3, 3}}
Sets == {SetOf(<<>>), SetOf(<<One>>), SetOf(<<One, One>>), SetOf(<<T, One>>),
         SetOf(<<One, Bad>>), SetOf(<<Ref(Staff), One>>), SetOf(<<Ref(Doc), Ref(Staff)>>),
         SetOf(<<Var("principal"), Var("action")>>)}
Nested == {SetOf(<<x, SetOf(<<y>>)>>) : x \in {One, Ref(Doc)}, y \in {One, Var("action")}}

Logic == {Binary(op, l, r) : op \in {"and", "or"}, l \in Truths, r \in Truths}
           \cup {Unary("not", x) : x \in Truths}
Arithmetic == {[op |-> "arith", fn |-> fn, kids |-> <<l, r>>] :
                 fn \in {"+", "-", "*"}, l \in Numbers, r \in Numbers}
                \cup {[op |-> "cmp", rel |-> rel, kids |-> <<l, r>>] :
                 rel \in {"<", "<=", ">", ">="}, l \in Numbers, r \in Numbers}
                \cup {Unary("neg", x) : x \in Numbers}
Hierarchy == {Binary("in", l, r) : l \in Vars \cup Refs \cup Buried \cup {One},
                                   r \in Refs \cup Sets \cup {Var("principal"), One}}
               \cup {Is(o, "User", rest) : o \in Vars \cup Refs \cup Buried \cup {One},
                       rest \in {<<>>, <<Ref(Staff)>>, <<Bad>>, <<SetOf(<<Ref(Staff)>>)>>}}
Access == {AttrOf(o, name) : o \in Objects, name \in {"x", "owner"}}
            \cup {Has(o, name) : o \in Objects, name \in {"x", "owner"}}
            \cup {Binary("and", Has(o, name), Binary("eq", AttrOf(o, name), One)) :
                    o \in Objects, name \in {"x", "owner"}}
Equalities == {Binary(op, l, r) : op \in {"eq", "ne"},
                 l \in Vars \cup {Ref(Alice), One} \cup Sets \cup Nested,
                 r \in Refs \cup {One, Day, RecordOf("x", One)} \cup Sets \cup Nested}
SetMethods == {Method(m, <<o, x>>) : m \in {"contains", "containsAll", "containsAny"},
              o \in Sets \cup Nested \cup {One},
              x \in {One, Ref(Doc), Bad} \cup Sets \cup Nested}
             \cup {Method("isEmpty", <<o>>) : o \in Sets \cup {One}}
\* Every method on receivers of every type, with and without an argument
ZeroArg == {"isEmpty", "toDate", "toTime", "toSeconds", "toDays", "toMilliseconds",
            "isIpv4", "isIpv6", "isLoopback", "isMulticast", "unknown"}
OneArg == {"contains", "containsAny", "isInRange", "offset", "durationSince", "lessThan",
           "lessThanOrEqual", "greaterThan", "greaterThanOrEqual", "isEmpty"}
Samples == {Ext("ip", <<"1", ".", "0">>), Ext("decimal", <<"0", ".", "0">>),
            Ext("duration", <<"1", "d">>), Date(1), One, SetOf(<<One>>)}
ExtensionMethods ==
  {Method(m, <<o>>) : m \in ZeroArg, o \in Ips \cup Durations \cup Instants \cup Samples}
    \cup {Method(m, <<o, x>>) : m \in OneArg, o \in Samples, x \in Samples}
    \cup {Method("isInRange", <<o, x>>) : o \in Ips, x \in Ips}
    \cup {Method(m, <<o, x>>) : m \in DOMAIN DecimalRelation, o \in Decimals, x \in Decimals}
    \cup {Method("offset", <<o, x>>) : o \in Instants, x \in Durations}
    \cup {Method("durationSince", <<o, x>>) : o \in Instants, x \in Instants}
    \cup {Binary("eq", o, x) : o \in Ips, x \in Ips \cup Samples}
    \cup {[op |-> "cmp", rel |-> "<=", kids |-> <<o, x>>] : o \in Samples, x \in Samples}
Conditionals == {Ite(c, x, y) : c \in Truths, x \in {Var("principal"), Bad, One},
                   y \in {Ref(Alice), Bad}}
Likes == {[op |-> "like", kids |-> <<x>>, pattern |-> p] :
            x \in {Str, One, Bad}, p \in {{}, {"s"}}}
\* Up to six levels, where the evaluator allows five
Towers == LET Up(x) == {Unary("not", x), Binary("or", x, Bad), Binary("and", T, x)}
              Up2 == UNION {Up(x) : x \in Up(T) \cup Up(F)} IN
          UNION {Up(x) : x \in UNION {Up(y) : y \in Up2}} \cup
          {Unary("not", Unary("not", x)) : x \in UNION {Up(y) : y \in Up2}}
Failures == {Binary(op, x, T) : op \in {"and", "or"},
               x \in {Binary("eq", SetOf(<<One>>), SetOf(<<One>>)),
                      Unary("not", Method("isEmpty", <<SetOf(<<One>>)>>))}}

Conditions == UNION {Truths, Vars, Refs, Buried, Sets, Nested, Logic, Arithmetic,
                     Hierarchy, Access, Equalities, SetMethods, ExtensionMethods,
                     Conditionals, Likes, Towers, Failures}

KidsOf(S) == UNION {{n.kids[k] : k \in DOMAIN n.kids} : n \in S}

RECURSIVE WithOperands(_, _)
WithOperands(S, levels) ==
  IF levels = 0 THEN S ELSE S \cup WithOperands(KidsOf(S), levels - 1)

MCNode == WithOperands(Conditions, 6)

\* The values given, and those in the values given
Given == {n.val : n \in {m \in MCNode : m.op = "lit"}}
           \cup {MCMakeExtension(n.fn, n.text) : n \in {m \in MCNode : m.op = "ext"}}
           \cup UNION {UNION {Range(Values(c.attrs[var])) : var \in DOMAIN c.attrs} :
                         c \in MCContext}
MCDatum == Given \cup UNION {Range(Contents(v)) : v \in Given}

-------------------------------------------------------------------------------
(* Properties                                                              *)

(* What the comment on the slots says of them (types.h:437-438): a slot is *)
(* stamped only on the value of principal, action or resource.  The code   *)
(* also stamps a literal that names one of the three (expr.c:1969-1981).   *)
StampedOnlyByVar ==
  \A n \in root, v \in answer :
    v.type = "ENTITY" /\ v.slot \in Slot => n.op = "var"
===============================================================================
