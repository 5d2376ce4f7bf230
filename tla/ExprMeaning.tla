------------------------------ MODULE ExprMeaning ------------------------------
(***************************************************************************)
(* What a condition means, without a stack, an order of evaluation or slot *)
(* tags: entities have attributes and ancestors by their identity, sets    *)
(* are searched by quantifiers, and an error spoils what needs its value.  *)
(* Nodes, values and contexts are those of ExprEval; here every entity has *)
(* the slot "none".                                                        *)
(***************************************************************************)
EXTENDS ExprEval

CONSTANTS
  SameAs(_, _),            \* equality of values
  Comparable,              \* values within the limits of nxe_cedar_value_equals
  ExtensionMeaning(_, _),  \* what the methods of extension types give
  MaxHeight                \* how many levels the tallest node has

Truth(b) == IF b THEN Bool(TRUE) ELSE Bool(FALSE)

Elements(s) == {s[k] : k \in DOMAIN s}

SlotsOf(uid, c) == {s \in DOMAIN c.uid : c.uid[s] = uid}

Ancestors(uid, c) == UNION {Elements(c.parents[s]) : s \in SlotsOf(uid, c)}

UidIn(uid, target, c) == target \in {uid} \cup Ancestors(uid, c)

(* The attributes of an object, as sets of [name, value]: no set if it is  *)
(* not a thing that has some.                                              *)
AttrSets(v, c) ==
  CASE v.type = "RECORD" -> {Elements(v.attrs)}
    [] v.type = "ENTITY" -> {Elements(c.attrs[s]) : s \in SlotsOf(v.uid, c)}
    [] OTHER -> {}

NamedValues(v, name, c) ==
  {a.value : a \in {a \in UNION AttrSets(v, c) : a.name = name}}

InMeaning(l, r, c) ==
  IF l.type # "ENTITY" THEN Error
  ELSE IF r.type = "ENTITY" THEN Truth(UidIn(l.uid, r.uid, c))
  ELSE IF r.type = "SET" /\ \A e \in Elements(r.elts) : e.type = "ENTITY"
       THEN Truth(\E e \in Elements(r.elts) : UidIn(l.uid, e.uid, c))
  ELSE Error

Represented(n) == IF MinLong <= n /\ n <= MaxLong THEN Long(n) ELSE Error

Ordering(rel, x, y) ==
  \/ x < y /\ rel \in {"<", "<="}
  \/ x > y /\ rel \in {">", ">="}
  \/ x = y /\ rel \in {"<=", ">="}

\* The type of a receiver without an argument, or with one
Alone(m, type) == Len(m) = 1 /\ m[1].type = type
Both(m, type, other) == Len(m) = 2 /\ m[1].type = type /\ m[2].type = other

(* The receivers and arguments that a method takes                         *)
Takes(method, m) ==
  CASE method = "isEmpty"  -> Alone(m, "SET")
    [] method = "contains" -> Len(m) = 2 /\ m[1].type = "SET"
    [] method \in {"containsAll", "containsAny"} -> Both(m, "SET", "SET")
    [] method \in {"isIpv4", "isIpv6", "isLoopback", "isMulticast"} -> Alone(m, "IP")
    [] method = "isInRange" -> Both(m, "IP", "IP")
    [] method \in {"lessThan", "lessThanOrEqual", "greaterThan", "greaterThanOrEqual"} ->
         Both(m, "DECIMAL", "DECIMAL")
    [] method \in {"toDate", "toTime"} -> Alone(m, "DATETIME")
    [] method = "offset" -> Both(m, "DATETIME", "DURATION")
    [] method = "durationSince" -> Both(m, "DATETIME", "DATETIME")
    [] method \in {"toMilliseconds", "toSeconds", "toMinutes", "toHours", "toDays"} ->
         Alone(m, "DURATION")
    [] OTHER -> FALSE

MethodMeaning(method, m) ==
  LET Has(v) == \E w \in Elements(m[1].elts) : SameAs(w, v) IN
  IF ~Takes(method, m) THEN Error
  ELSE CASE method = "isEmpty"     -> Truth(m[1].elts = <<>>)
         [] method = "contains"    -> Truth(Has(m[2]))
         [] method = "containsAll" -> Truth(\A v \in Elements(m[2].elts) : Has(v))
         [] method = "containsAny" -> Truth(\E v \in Elements(m[2].elts) : Has(v))
         [] method = "lessThan"           -> Truth(m[1].n < m[2].n)
         [] method = "lessThanOrEqual"    -> Truth(m[1].n <= m[2].n)
         [] method = "greaterThan"        -> Truth(m[1].n > m[2].n)
         [] method = "greaterThanOrEqual" -> Truth(m[1].n >= m[2].n)
         [] OTHER -> ExtensionMeaning(method, m)

AllOfType(m, type) == \A k \in DOMAIN m : m[k].type = type

(* What a node means that needs the values m of all its operands           *)
StrictMeaning(n, m, c) ==
  CASE n.op = "attr" ->
         LET values == NamedValues(m[1], n.name, c) IN
         IF values = {} THEN Error ELSE CHOOSE v \in values : TRUE
    [] n.op = "has"  ->
         IF AttrSets(m[1], c) = {} THEN Error ELSE Truth(NamedValues(m[1], n.name, c) # {})
    [] n.op = "set"  -> [type |-> "SET", elts |-> m]
    [] n.op = "record" -> [type |-> "RECORD", attrs |->
         [k \in DOMAIN m |-> [name |-> n.keys[k], value |-> m[k]]]]
    [] n.op = "eq" -> Truth(SameAs(m[1], m[2]))
    [] n.op = "ne" -> Truth(~SameAs(m[1], m[2]))
    [] n.op = "in" -> InMeaning(m[1], m[2], c)
    [] n.op = "not" -> IF AllOfType(m, "BOOL") THEN Truth(m[1] = Bool(FALSE)) ELSE Error
    [] n.op = "neg" -> IF AllOfType(m, "LONG") THEN Represented(-m[1].n) ELSE Error
    [] n.op = "arith" ->
         IF ~AllOfType(m, "LONG") THEN Error
         ELSE Represented(CASE n.fn = "+" -> m[1].n + m[2].n
                            [] n.fn = "-" -> m[1].n - m[2].n
                            [] n.fn = "*" -> m[1].n * m[2].n)
    [] n.op = "cmp" ->
         IF \E type \in {"LONG", "DATETIME", "DURATION"} : AllOfType(m, type)
         THEN Truth(Ordering(n.rel, m[1].n, m[2].n)) ELSE Error
    [] n.op = "like" ->
         IF AllOfType(m, "STRING") THEN Truth(LikeMatches(m[1].s, n.pattern)) ELSE Error
    [] n.op = "method" -> MethodMeaning(n.method, m)

(* What a node means when its operands mean m                              *)
Denotation(n, m, c) ==
  CASE n.op = "lit" -> n.val
    [] n.op = "ext" -> MakeExtension(n.fn, n.text)
    [] n.op = "entity_ref" -> Entity(n.uid, "none")
    [] n.op = "var" ->
         IF n.var = "context" THEN [type |-> "RECORD", attrs |-> c.attrs[n.var]]
         ELSE Entity(c.uid[n.var], "none")
    [] n.op = "and" ->
         IF m[1] = Bool(FALSE) \/ (m[1] = Bool(TRUE) /\ m[2] = Bool(FALSE)) THEN Bool(FALSE)
         ELSE IF AllOfType(m, "BOOL") THEN Bool(TRUE) ELSE Error
    [] n.op = "or" ->
         IF m[1] = Bool(TRUE) \/ (m[1] = Bool(FALSE) /\ m[2] = Bool(TRUE)) THEN Bool(TRUE)
         ELSE IF AllOfType(m, "BOOL") THEN Bool(FALSE) ELSE Error
    [] n.op = "ite" ->
         IF m[1] = Bool(TRUE) THEN m[2] ELSE IF m[1] = Bool(FALSE) THEN m[3] ELSE Error
    [] n.op = "is" ->
         IF m[1].type # "ENTITY" THEN Error
         ELSE IF m[1].uid.type # n.etype THEN Bool(FALSE)
         ELSE IF Len(n.kids) = 1 THEN Bool(TRUE) ELSE InMeaning(m[1], m[2], c)
    [] OTHER -> IF Error \in Elements(m) THEN Error ELSE StrictMeaning(n, m, c)

\* What each node means in a context
Meanings(c) ==
  LET means[n \in Node] ==
        Denotation(n, [k \in DOMAIN n.kids |-> means[n.kids[k]]], c) IN
  means

Meaning(n, c) == Meanings(c)[n]

OperandMeanings(n, c) == [k \in DOMAIN n.kids |-> Meaning(n.kids[k], c)]

-------------------------------------------------------------------------------
(* Which conditions the evaluator is meant for                             *)

(* The evaluator knows attributes and ancestors only of an entity named by *)
(* a keyword or a literal; this is a node that asks no others.             *)
AsksNamedEntities(n, c) ==
  LET v == Meaning(n.kids[1], c) IN
  n.op \in {"in", "is", "attr", "has"} =>
    \/ n.kids[1].op \in {"var", "entity_ref"}
    \/ v.type = "ENTITY" => SlotsOf(v.uid, c) = {}

\* The values that a node with operands m compares
Comparands(n, m) ==
  CASE n.op \in {"eq", "ne"} -> Elements(m)
    [] n.op = "method" /\ n.method = "contains" /\ Takes(n.method, m) ->
         Elements(m[1].elts) \cup {m[2]}
    [] n.op = "method" /\ n.method \in {"containsAll", "containsAny"} /\ Takes(n.method, m) ->
         Elements(m[1].elts) \cup Elements(m[2].elts)
    [] OTHER -> {}

\* The conditions that do so, and compare values within the limits, throughout
Covered(c) ==
  LET covered[n \in Node] ==
        /\ AsksNamedEntities(n, c)
        /\ Comparands(n, OperandMeanings(n, c)) \subseteq Comparable \cup {Error}
        /\ \A k \in DOMAIN n.kids : covered[n.kids[k]] IN
  covered

(* One identity, one entity: the arrays of slots that share it agree.      *)
Consistent(c) ==
  \A s, t \in DOMAIN c.uid : c.uid[s] = c.uid[t] =>
    c.attrs[s] = c.attrs[t] /\ c.parents[s] = c.parents[t]

-------------------------------------------------------------------------------

\* The nodes of at most so many levels
OfHeight[h \in Nat] ==
  IF h = 0 THEN {}
  ELSE LET lower == OfHeight[h - 1] IN
       {n \in Node : \A k \in DOMAIN n.kids : n.kids[k] \in lower}

\* Trees are finite: the parser's limits bound their height.
ASSUME HeightAssumption == MaxHeight \in Nat /\ OfHeight[MaxHeight] = Node

\* A value with any slot tag it may carry
Tagged(v) ==
  IF v.type = "ENTITY" THEN {Entity(v.uid, s) : s \in Slot \cup {"none"}} ELSE {v}

\* Within its limits nxe_cedar_value_equals decides whether values are the
\* same, whatever tags they carry.
ASSUME SameAssumption ==
  \A v, w \in Comparable :
    /\ SameAs(v, w) <=> SameAs(w, v)
    /\ \A a \in Tagged(v), b \in Tagged(w) :
         Equals(a, b) = IF SameAs(v, w) THEN "yes" ELSE "no"

\* The methods of the extension types give what they mean, and an error for
\* a receiver or an argument that they do not take.
ASSUME ExtensionAssumption ==
  \A method \in Methods :
    /\ \A n \in MinLong..MaxLong :
         LET instant == [type |-> "DATETIME", n |-> n] IN
         /\ AskDatetime(method, n) = MethodMeaning(method, <<instant>>)
         /\ AskDuration(method, n) = MethodMeaning(method, <<[type |-> "DURATION", n |-> n]>>)
         /\ \A v \in [type : {"DATETIME", "DURATION"}, n : MinLong..MaxLong] :
              AskDatetimeWith(method, n, v) = MethodMeaning(method, <<instant, v>>)
    /\ \A v \in Addresses : AskIp(method, v) = MethodMeaning(method, <<v>>)
    /\ \A v, w \in Addresses :
         Bool(InIpRange(v, w)) = MethodMeaning("isInRange", <<v, w>>)

(* The stack machine computes what the condition means: nothing depends    *)
(* on the order of evaluation beyond the short circuits, on slot tags or   *)
(* on which of the code's paths an access takes, in a context that tells   *)
(* no two things of one entity.                                            *)
AnswerMeans ==
  \A n \in root, v \in answer :
    fault = "none" /\ Consistent(ctx) /\ Covered(ctx)[n]
      => ClearSlot(v) = Meaning(n, ctx)
================================================================================
