---------------------------- MODULE MCValueEquals ----------------------------
(***************************************************************************)
(* Two values, each grown an element or a level at a time, compared at     *)
(* every step.  `budget' bounds the growth of both together.               *)
(***************************************************************************)
EXTENDS ValueEquals

CONSTANT Budget   \* steps of growth

VARIABLES a, b, budget

vars == <<a, b, budget>>

MCScalar == {[type |-> "LONG", n |-> 1], [type |-> "LONG", n |-> 2],
             [type |-> "BOOL", b |-> TRUE]}

Set(s) == [type |-> "SET", elts |-> s]
Record(s) == [type |-> "RECORD", attrs |-> s]

Attr(name, v) == [name |-> name, value |-> v]

(* A level around v, or more elements or one more attribute in it: sets    *)
(* may repeat an element, records may not repeat a name.                   *)
Grown(v) ==
  {Set(<<v>>), Record(<<Attr("x", v)>>), Record(<<Attr("y", v)>>)}
  \cup (IF v.type # "SET" THEN {}
        ELSE {Set(Append(v.elts, w)) : w \in Scalar}
             \cup {Set(<<v.elts[k]>> \o v.elts) : k \in DOMAIN v.elts}
             \cup {Set(v.elts \o v.elts)})
  \cup (IF v.type # "RECORD" \/ Len(v.attrs) # 1 THEN {}
        ELSE LET other == IF v.attrs[1].name = "x" THEN "y" ELSE "x" IN
             {Record(Append(v.attrs, Attr(other, w))) : w \in Scalar})

Init == a \in Scalar /\ b \in Scalar /\ budget = Budget

GrowA == budget > 0 /\ budget' = budget - 1 /\ a' \in Grown(a) \cap Value /\ UNCHANGED b
GrowB == budget > 0 /\ budget' = budget - 1 /\ b' \in Grown(b) \cap Value /\ UNCHANGED a

Next == GrowA \/ GrowB

Spec == Init /\ [][Next]_vars

(* Whatever the comparison answers is right: a first-fit pairing of two    *)
(* sets succeeds exactly when some one-to-one pairing of equal elements    *)
(* exists, and the order of elements and attributes never shows            *)
(* (FEATURES.md:72, expr.c:960-998).                                       *)
AnswersRight ==
  LET r == ValueEquals(a, b, 0) IN r # "error" => r = Answer(SameValue(a, b))

(* `==' is total on values within the limits: it errs only when both       *)
(* sides are nested deeper or hold more than those (types.h:387-401).      *)
TotalWithinLimits ==
  WithinLimits(a) \/ WithinLimits(b) => ValueEquals(a, b, 0) # "error"

(* Exchanging the sides never turns equal into unequal; it can only turn   *)
(* an answer into an error, beyond the limits.                             *)
SidesExchange ==
  LET r == ValueEquals(a, b, 0)  s == ValueEquals(b, a, 0) IN
  r = s \/ "error" \in {r, s}
==============================================================================
