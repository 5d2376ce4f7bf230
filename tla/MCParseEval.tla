------------------------------ MODULE MCParseEval ------------------------------
(***************************************************************************)
(* A small instance of ParseEval: texts as tall as the parser's limits     *)
(* allow, by every kind of nesting, and one too tall for the evaluator.    *)
(***************************************************************************)
EXTENDS ParseEval

\* The values without elements in the texts below
MCScalar ==
  [type : {"LONG"}, n : Int] \cup [type : {"BOOL"}, b : BOOLEAN]
    \cup [type : {"STRING"}, s : STRING]
VE == INSTANCE ValueEquals WITH Scalar <- MCScalar, MaxHeight <- 4,
        MaxValueEqualsDepth <- 32, MaxElts <- 256
MCEquals(a, b) == VE!ValueEquals(a, b, 0)
MCLikeMatches(s, pattern) == s = pattern
MCMinLong == -4

\* No text here has a literal of an extension type.
MCError == [type |-> "ERROR"]
MCMakeExtension(fn, literal) == MCError
MCMethod(method, obj) == MCError
MCMethodWith(method, obj, arg) == MCError
MCCidrContains(obj, range) == FALSE

K(w) == [t |-> w, v |-> w]
One == [t |-> "number", v |-> 1]
X == [t |-> "ident", v |-> "x"]
Words(s) == [k \in DOMAIN s |-> K(s[k])]

PolicyOf(e) ==
  Words(<<"permit", "(", "principal", ",", "action", ",", "resource", ")", "when", "{">>)
    \o e \o Words(<<"}", ";">>)

\* An operand and n operators over it
Repeat(n, s, operand) ==
  [k \in 1..n * (Len(s) + 1) + 1 |->
     LET m == (k - 1) % (Len(s) + 1) IN IF m = 0 THEN operand ELSE s[m]]
ChainOf(n, op) == Repeat(n, <<K(op)>>, K("true"))

\* e within n pairs of brackets
Within(n, open, e, close) ==
  [k \in 1..2 * n + Len(e) |->
     IF k <= n THEN open ELSE IF k <= n + Len(e) THEN e[k - n] ELSE close]

\* The chains of one level of nesting: a && b < c + d * e, and so on
Mixed(e) ==
  {ChainOf(2, "||") \o <<K("||")>> \o e, e \o <<K("&&")>> \o e \o <<K("&&")>> \o e,
   e \o Words(<<"+">>) \o e \o Words(<<"-">>) \o e,
   <<One>> \o Words(<<"*">>) \o e \o Words(<<"*">>) \o e,
   <<One, K("<")>> \o e, e \o Words(<<".">>) \o <<X>>, <<K("!")>> \o e,
   <<K("if")>> \o e \o <<K("then")>> \o e \o <<K("else")>> \o e,
   e \o Words(<<"==">>) \o e \o Words(<<"||", "true">>),
   Within(1, K("["), e, K("]")), Within(1, K("("), e, K(")")),
   <<K("{"), X, K(":")>> \o e \o <<K("}")>>,
   e \o <<K("."), X, K("(")>> \o e \o <<K(")")>> }

\* As tall as one level of nesting can be over e
Tall(e) ==
  e \o <<K("."), X>> \o Words(<<"*", "true", "*", "true", "+", "true", "+", "true", "<", "true",
                              "&&", "true", "&&", "true", "||", "true", "||", "true">>)
\* 22 levels, and a chain past its limit that would be taller
Extremes == {PolicyOf(Tall(Within(1, K("["), Tall(<<K("true")>>), K("]")))), PolicyOf(ChainOf(24, "||"))}

MCSmallText == Extremes \cup {PolicyOf(e) : e \in Mixed(<<K("true")>>) \cup Mixed(<<One>>)}
   \cup {PolicyOf(x) : x \in UNION {Mixed(Within(1, K("("), y, K(")"))) :
                                    y \in Mixed(<<K("true")>>) \cup Mixed(<<One>>)}}
MCSmallToken == UNION {{s[k] : k \in DOMAIN s} : s \in MCSmallText}

\* Half as many operators in a row as a chain may have
MCDeepText == {PolicyOf(ChainOf(MaxBinopChain \div 2, "&&"))}
MCLargeToken == UNION {{s[k] : k \in DOMAIN s} : s \in MCDeepText}

MCSlot == {"principal", "action", "resource"}
Uid(name) == [type |-> <<name>>, id |-> name]
MCContext ==
  {[uid |-> [s \in MCSlot |-> Uid(s)], parents |-> [s \in MCSlot |-> <<>>],
    attrs |-> [s \in MCSlot \cup {"context"} |-> <<>>]]}
===============================================================================
