------------------------------ MODULE ValueEquals ------------------------------
(***************************************************************************)
(* nxe_cedar_value_equals, with the three results of the C function as     *)
(* "yes", "no" and "error" (NGX_ERROR), and what it is meant to compute.   *)
(* Values are as in ExprEval.  A recursive call is the comparison with one *)
(* level less left below it, a function of pairs of values.                *)
(***************************************************************************)
EXTENDS Naturals, Sequences

CONSTANTS
  Scalar,               \* the values without elements
  MaxHeight,            \* levels of elements a value may have
  MaxValueEqualsDepth,  \* NXE_CEDAR_MAX_VALUE_EQUALS_DEPTH
  MaxElts               \* NXE_CEDAR_VALUE_EQUALS_MAX_ELTS

\* An error is not stored (expr.c:920-926).
ASSUME ScalarAssumption == \A v \in Scalar : v.type \notin {"SET", "RECORD", "ERROR"}

ASSUME LimitsAssumption ==
  MaxHeight \in Nat /\ MaxValueEqualsDepth \in Nat /\ MaxElts \in Nat

\* Sets and records of V: a record has a name only once.
Collections(V) ==
  [type : {"SET"}, elts : Seq(V)]
    \cup [type : {"RECORD"}, attrs :
            {s \in Seq([name : STRING, value : V]) :
               \A k, l \in DOMAIN s : s[k].name = s[l].name => k = l}]

\* The values of no more than so many levels
OfHeight[height \in Nat] ==
  IF height = 0 THEN Scalar ELSE Scalar \cup Collections(OfHeight[height - 1])

Value == OfHeight[MaxHeight]

Answer(b) == IF b THEN "yes" ELSE "no"

Least(S) == CHOOSE k \in S : \A l \in S : k <= l

\* What distinguishes two values of a type without elements
Identity(v) ==
  CASE v.type = "STRING" -> v.s
    [] v.type = "BOOL"   -> v.b
    [] v.type = "ENTITY" -> v.uid
    [] v.type = "IP"     -> <<v.v6, v.prefix, v.addr>>
    [] OTHER             -> v.n

\* An element of a set passes by those that differ, an attribute of a record
\* by those of another name.
Outcome(a, b, i, j, r) ==
  IF a.type = "RECORD"
  THEN IF a.attrs[i].name = b.attrs[j].name THEN r ELSE "pass"
  ELSE IF r = "no" THEN "pass" ELSE r

\* Variant with a bug: an element of b may answer for several of a.
NextUnmatched(outcome, acc) ==
  LET hits == {j \in DOMAIN outcome : outcome[j] # "pass"} IN
  IF acc.result # "yes" THEN acc
  ELSE IF hits = {} THEN [acc EXCEPT !.result = "no"]
  ELSE [acc EXCEPT !.result = outcome[Least(hits)]]

\* What a holds next takes the first that is free in b and does not pass.
NextItem(outcome, acc) ==
  LET hits == {j \in DOMAIN outcome \ acc.matched : outcome[j] # "pass"} IN
  IF acc.result # "yes" THEN acc
  ELSE IF hits = {} THEN [acc EXCEPT !.result = "no"]
  ELSE [result  |-> outcome[Least(hits)],
        matched |-> acc.matched \cup {Least(hits)}]

Started == [result |-> "yes", matched |-> {}]

\* The loop over what a holds, with the outcomes of comparing it with b's
Pairing(outcomes) ==
  LET acc[k \in 0..Len(outcomes)] ==
        IF k = 0 THEN Started ELSE NextItem(outcomes[k], acc[k - 1]) IN
  acc

Paired(outcomes) == Pairing(outcomes)[Len(outcomes)].result

\* Variant with a bug: the last level allowed is refused.
TooDeepEarly(depth) == depth >= MaxValueEqualsDepth

TooDeep(depth) == depth > MaxValueEqualsDepth

Items(v) == CASE v.type = "SET"    -> v.elts
              [] v.type = "RECORD" -> [k \in DOMAIN v.attrs |-> v.attrs[k].value]
              [] OTHER             -> <<>>

\* One call, with what its recursive calls answer
Compared(answers, a, b) ==
  IF "ERROR" \in {a.type, b.type} THEN "error"
  ELSE IF a.type # b.type THEN "no"
  ELSE IF a.type \notin {"SET", "RECORD"} THEN Answer(Identity(a) = Identity(b))
  ELSE IF Len(Items(a)) # Len(Items(b)) THEN "no"
  ELSE IF Len(Items(a)) > MaxElts THEN "error"
  ELSE Paired([i \in DOMAIN Items(a) |-> [j \in DOMAIN Items(b) |->
                 Outcome(a, b, i, j, answers[i][j])]])

\* The calls that have so many levels left
EqualsWithin[left \in Nat] ==
  [p \in Value \X Value |->
     IF TooDeep(MaxValueEqualsDepth + 1 - left) THEN "error"
     ELSE Compared([i \in DOMAIN Items(p[1]) |-> [j \in DOMAIN Items(p[2]) |->
                      EqualsWithin[left - 1][<<Items(p[1])[i], Items(p[2])[j]>>]]], p[1], p[2])]

ValueEquals(a, b, depth) ==
  IF TooDeep(depth) THEN "error" ELSE EqualsWithin[MaxValueEqualsDepth + 1 - depth][<<a, b>>]

-------------------------------------------------------------------------------
(* What it is meant to compute: sets compare as collections, elements      *)
(* paired one to one in some order, records as functions of their names.   *)

SameElts(same, s, t) ==
  /\ Len(s) = Len(t)
  /\ \E f \in [DOMAIN s -> DOMAIN t] :
       /\ \A k, l \in DOMAIN s : f[k] = f[l] => k = l
       /\ \A k \in DOMAIN s : same[k][f[k]]

SameAttrs(same, s, t) ==
  /\ {s[k].name : k \in DOMAIN s} = {t[l].name : l \in DOMAIN t}
  /\ \A k \in DOMAIN s, l \in DOMAIN t : s[k].name = t[l].name => same[k][l]

Alike(same, a, b) ==
  /\ a.type = b.type
  /\ CASE a.type = "SET"    -> SameElts(same, a.elts, b.elts)
       [] a.type = "RECORD" -> SameAttrs(same, a.attrs, b.attrs)
       [] OTHER             -> Identity(a) = Identity(b)

\* Equal, and of no more than so many levels
Same[levels \in Nat] ==
  [p \in Value \X Value |->
     /\ levels > 0
     /\ Alike([k \in DOMAIN Items(p[1]) |-> [l \in DOMAIN Items(p[2]) |->
                 Same[levels - 1][<<Items(p[1])[k], Items(p[2])[l]>>]]], p[1], p[2])]

SameValue(a, b) == Same[MaxHeight + 1][<<a, b>>]

\* No more levels than so many below it, and no level too large
Limited[levels \in Nat] ==
  [v \in Value |->
     /\ Len(Items(v)) <= MaxElts
     /\ \A k \in DOMAIN Items(v) : levels > 0 /\ Limited[levels - 1][Items(v)[k]]]

WithinLimits(v) == Limited[MaxValueEqualsDepth][v]
==============================================================================
