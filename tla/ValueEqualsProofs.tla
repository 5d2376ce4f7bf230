-------------------------- MODULE ValueEqualsProofs --------------------------
(***************************************************************************)
(* Proofs that the comparison of values is right, total within its limits, *)
(* and the same from both sides, for any scalars, heights and limits.      *)
(***************************************************************************)
EXTENDS MCValueEquals, Induction, FiniteSetTheorems, SequenceTheorems

Results == {"yes", "no", "error"}

-------------------------------------------------------------------------------
(* Values by levels                                                        *)

(* The recursive definition of the levels has a solution, so it is one.    *)
Begun(n, g) ==
  g = [h \in 0..n |-> IF h = 0 THEN Scalar ELSE Scalar \cup Collections(g[h - 1])]

LEMMA BegunSteps ==
  ASSUME NEW n \in Nat, NEW g, Begun(n, g), NEW h \in 0..n
  PROVE  g[h] = IF h = 0 THEN Scalar ELSE Scalar \cup Collections(g[h - 1])
<1> DEFINE V(k) == IF k = 0 THEN Scalar ELSE Scalar \cup Collections(g[k - 1])
           e == [k \in 0..n |-> V(k)]
<1>1. g = e
  BY DEF Begun
<1>2. e[h] = V(h)
  <2> HIDE DEF V
  <2> QED OBVIOUS
<1>3. g[h] = V(h)
  <2> HIDE DEF V, e
  <2> QED BY <1>1, <1>2
<1> QED BY <1>3

LEMMA LevelsBegin == \A n \in Nat : \E g : Begun(n, g)
<1> DEFINE P == {n \in Nat : \E g : Begun(n, g)}
<1>1. 0 \in P
  <2>1. Begun(0, [h \in 0..0 |-> Scalar])
    BY DEF Begun
  <2> QED BY <2>1
<1>2. ASSUME NEW n \in Nat, n \in P PROVE n + 1 \in P
  <2>1. PICK g : Begun(n, g)
    BY <1>2
  <2> DEFINE e == [h \in 0..n + 1 |->
                     IF h = 0 THEN Scalar ELSE Scalar \cup Collections(g[h - 1])]
  <2>2. ASSUME NEW h \in 0..n PROVE g[h] = e[h]
    <3>1. g[h] = IF h = 0 THEN Scalar ELSE Scalar \cup Collections(g[h - 1])
      BY <2>1, BegunSteps
    <3> QED BY <3>1
  <2>3. \A h \in 0..n + 1 : h # 0 => h - 1 \in 0..n
    OBVIOUS
  <2>4. Begun(n + 1, e)
    BY <2>2, <2>3 DEF Begun
  <2> QED BY <2>4
<1> HIDE DEF P
<1>3. Nat \subseteq P
  BY <1>1, <1>2, Induction
<1> QED BY <1>3 DEF P

LEMMA LevelsAgree ==
  ASSUME NEW m \in Nat, NEW n \in Nat, NEW g, NEW e, Begun(m, g), Begun(n, e)
  PROVE  \A h \in Nat : h <= m /\ h <= n => g[h] = e[h]
<1> DEFINE P == {h \in Nat : h <= m /\ h <= n => g[h] = e[h]}
<1>1. 0 \in P
  BY DEF Begun
<1>2. ASSUME NEW h \in Nat, h \in P PROVE h + 1 \in P
  <2> SUFFICES ASSUME h + 1 <= m, h + 1 <= n PROVE g[h + 1] = e[h + 1]
    OBVIOUS
  <2>1. g[h] = e[h]
    BY <1>2
  <2>2. h + 1 \in 0..m /\ h + 1 \in 0..n /\ h + 1 # 0 /\ (h + 1) - 1 = h
    OBVIOUS
  <2>3. g[h + 1] = Scalar \cup Collections(g[h])
    <3>1. \A k \in 0..m : g[k] = IF k = 0 THEN Scalar ELSE Scalar \cup Collections(g[k - 1])
      BY BegunSteps
    <3> QED BY <2>2, <3>1
  <2>4. e[h + 1] = Scalar \cup Collections(e[h])
    <3>1. \A k \in 0..n : e[k] = IF k = 0 THEN Scalar ELSE Scalar \cup Collections(e[k - 1])
      BY BegunSteps
    <3> QED BY <2>2, <3>1
  <2> QED BY <2>1, <2>3, <2>4
<1> HIDE DEF P
<1>3. Nat \subseteq P
  BY <1>1, <1>2, Induction
<1> QED BY <1>3 DEF P

LEMMA LevelSteps ==
  /\ OfHeight[0] = Scalar
  /\ \A h \in Nat : OfHeight[h + 1] = Scalar \cup Collections(OfHeight[h])
<1> DEFINE part(n) == CHOOSE g : Begun(n, g)
           f == [n \in Nat |-> part(n)[n]]
           body(g) == [h \in Nat |->
                         IF h = 0 THEN Scalar ELSE Scalar \cup Collections(g[h - 1])]
<1>1. \A n \in Nat : Begun(n, part(n))
  BY LevelsBegin
<1> HIDE DEF part
<1>2. ASSUME NEW h \in Nat PROVE f[h] = body(f)[h]
  <2>1. CASE h = 0
    <3>1. part(0)[0] = Scalar
      BY <1>1 DEF Begun
    <3> QED BY <2>1, <3>1
  <2>2. CASE h # 0
    <3>1. h - 1 \in Nat /\ h - 1 <= h /\ h - 1 <= h - 1
      BY <2>2
    <3>2. part(h)[h] = Scalar \cup Collections(part(h)[h - 1])
      BY <1>1, <2>2, <3>1 DEF Begun
    <3>3. part(h)[h - 1] = part(h - 1)[h - 1]
      BY <1>1, <3>1, LevelsAgree
    <3> QED BY <2>2, <3>1, <3>2, <3>3
  <2> QED BY <2>1, <2>2
<1>3. f = body(f)
  <2>1. body(f) = [h \in Nat |-> body(f)[h]] /\ f = [h \in Nat |-> f[h]]
    OBVIOUS
  <2> HIDE DEF f, body
  <2> QED BY <1>2, <2>1
<1>4. OfHeight = body(OfHeight)
  <2> HIDE DEF f
  <2> QED BY <1>3 DEF OfHeight
<1>5. OfHeight[0] = Scalar
  BY <1>4
<1>6. ASSUME NEW h \in Nat PROVE OfHeight[h + 1] = Scalar \cup Collections(OfHeight[h])
  <2>1. h + 1 \in Nat /\ h + 1 # 0 /\ (h + 1) - 1 = h
    OBVIOUS
  <2> HIDE DEF f
  <2> QED BY <1>4, <2>1
<1> QED BY <1>5, <1>6

LEMMA SeqFacts ==
  ASSUME NEW S, NEW s \in Seq(S)
  PROVE  /\ Len(s) \in Nat /\ DOMAIN s = 1..Len(s)
         /\ \A k \in 1..Len(s) : s[k] \in S
OBVIOUS

(* What a set or a record over V holds is a sequence over V.               *)
LEMMA CollectionFacts ==
  ASSUME NEW V, NEW v \in Collections(V)
  PROVE  /\ v.type \in {"SET", "RECORD"} /\ Items(v) \in Seq(V)
         /\ v.type = "SET" => v.elts = Items(v)
         /\ v.type = "RECORD" =>
              /\ v.attrs \in Seq([name : STRING, value : V])
              /\ DOMAIN v.attrs = DOMAIN Items(v) /\ Len(v.attrs) = Len(Items(v))
              /\ \A k \in DOMAIN v.attrs : Items(v)[k] = v.attrs[k].value
              /\ \A k, l \in DOMAIN v.attrs : v.attrs[k].name = v.attrs[l].name => k = l
<1> DEFINE A == [name : STRING, value : V]
<1>1. CASE v \in [type : {"SET"}, elts : Seq(V)]
  BY <1>1 DEF Items
<1>2. CASE v \notin [type : {"SET"}, elts : Seq(V)]
  <2>1. /\ v.type = "RECORD" /\ v.attrs \in Seq(A)
        /\ \A k, l \in DOMAIN v.attrs : v.attrs[k].name = v.attrs[l].name => k = l
    BY <1>2 DEF Collections
  <2>2. Items(v) = [k \in DOMAIN v.attrs |-> v.attrs[k].value]
    BY <2>1 DEF Items
  <2>3. Len(v.attrs) \in Nat /\ DOMAIN v.attrs = 1..Len(v.attrs)
        /\ \A k \in 1..Len(v.attrs) : v.attrs[k] \in A
    <3> HIDE DEF A
    <3> QED BY <2>1, SeqFacts
  <2>4. \A k \in 1..Len(v.attrs) : v.attrs[k].value \in V
    BY <2>3
  <2>5. Items(v) \in [1..Len(v.attrs) -> V]
    BY <2>2, <2>3, <2>4
  <2>6. Items(v) \in Seq(V)
    BY <2>3, <2>5
  <2>7. Len(Items(v)) = Len(v.attrs) /\ DOMAIN Items(v) = DOMAIN v.attrs
    BY <2>3, <2>5, <2>6
  <2> QED BY <2>1, <2>2, <2>6, <2>7
<1> QED BY <1>1, <1>2

LEMMA CollectionsWiden ==
  ASSUME NEW V, NEW W, V \subseteq W
  PROVE  Collections(V) \subseteq Collections(W)
<1> SUFFICES ASSUME NEW v \in Collections(V) PROVE v \in Collections(W)
  OBVIOUS
<1>1. CASE v \in [type : {"SET"}, elts : Seq(V)]
  <2>1. v = [type |-> "SET", elts |-> v.elts] /\ v.elts \in Seq(V)
    BY <1>1
  <2>2. v.elts \in Seq(W)
    BY <2>1
  <2> QED BY <2>1, <2>2 DEF Collections
<1>2. CASE v \notin [type : {"SET"}, elts : Seq(V)]
  <2> DEFINE A == [name : STRING, value : V]
             B == [name : STRING, value : W]
             Unique(s) == \A k, l \in DOMAIN s : s[k].name = s[l].name => k = l
  <2>1. v \in [type : {"RECORD"}, attrs : {s \in Seq(A) : Unique(s)}]
    BY <1>2 DEF Collections
  <2>2. v = [type |-> "RECORD", attrs |-> v.attrs] /\ v.attrs \in Seq(A) /\ Unique(v.attrs)
    BY <2>1
  <2>3. A \subseteq B
    OBVIOUS
  <2>4. v.attrs \in Seq(B)
    <3> HIDE DEF A, B
    <3> QED BY <2>2, <2>3
  <2>5. v \in [type : {"RECORD"}, attrs : {s \in Seq(B) : Unique(s)}]
    <3> HIDE DEF A, B, Unique
    <3> QED BY <2>2, <2>4
  <2> QED BY <2>5 DEF Collections
<1> QED BY <1>1, <1>2

(* Each level has the values of the one below.                             *)
LEMMA LevelsGrow ==
  ASSUME NEW m \in Nat, NEW n \in Nat, m <= n
  PROVE  OfHeight[m] \subseteq OfHeight[n]
<1> DEFINE P == {h \in Nat : OfHeight[h] \subseteq OfHeight[h + 1]}
           Q == {h \in Nat : m <= h => OfHeight[m] \subseteq OfHeight[h]}
<1>1. 0 \in P
  <2>1. 0 + 1 = 1 /\ OfHeight[0 + 1] = Scalar \cup Collections(OfHeight[0])
    BY LevelSteps
  <2> QED BY <2>1, LevelSteps
<1>2. ASSUME NEW h \in Nat, h \in P PROVE h + 1 \in P
  <2>1. Collections(OfHeight[h]) \subseteq Collections(OfHeight[h + 1])
    BY <1>2, CollectionsWiden
  <2>2. OfHeight[h + 1] = Scalar \cup Collections(OfHeight[h])
        /\ OfHeight[(h + 1) + 1] = Scalar \cup Collections(OfHeight[h + 1])
    BY LevelSteps
  <2>3. OfHeight[h + 1] \subseteq OfHeight[(h + 1) + 1]
    BY <2>1, <2>2
  <2> QED BY <2>3
<1>3. Nat \subseteq P
  <2> HIDE DEF P
  <2> QED BY <1>1, <1>2, Induction
<1>4. 0 \in Q
  OBVIOUS
<1>5. ASSUME NEW h \in Nat, h \in Q PROVE h + 1 \in Q
  <2> SUFFICES ASSUME m <= h + 1 PROVE OfHeight[m] \subseteq OfHeight[h + 1]
    OBVIOUS
  <2>1. OfHeight[h] \subseteq OfHeight[h + 1]
    BY <1>3
  <2>2. CASE m <= h
    BY <1>5, <2>1, <2>2
  <2>3. CASE ~(m <= h)
    <3>1. m = h + 1
      BY <2>3
    <3> QED BY <3>1
  <2> QED BY <2>2, <2>3
<1>6. Nat \subseteq Q
  <2> HIDE DEF Q
  <2> QED BY <1>4, <1>5, Induction
<1> QED BY <1>6

(* What a value holds is one level lower; scalars hold nothing.            *)
LEMMA ItemsLower ==
  /\ \A v \in OfHeight[0] : Items(v) = <<>>
  /\ \A h \in Nat : \A v \in OfHeight[h + 1] : Items(v) \in Seq(OfHeight[h])
<1>1. \A v \in Scalar : Items(v) = <<>>
  BY ScalarAssumption DEF Items
<1>2. ASSUME NEW h \in Nat, NEW v \in OfHeight[h + 1] PROVE Items(v) \in Seq(OfHeight[h])
  <2>1. v \in Scalar \/ v \in Collections(OfHeight[h])
    BY LevelSteps
  <2>2. <<>> \in Seq(OfHeight[h])
    OBVIOUS
  <2> QED BY <1>1, <2>1, <2>2, CollectionFacts
<1> QED BY <1>1, <1>2, LevelSteps

(* The lists of what two values hold                                       *)
Size(v) == Len(Items(v))
At(v, k) == Items(v)[k]

LEMMA ValueFacts ==
  ASSUME NEW v \in Value
  PROVE  /\ v.type # "ERROR"
         /\ Items(v) \in Seq(Value) /\ Size(v) \in Nat /\ DOMAIN Items(v) = 1..Size(v)
         /\ \A k \in 1..Size(v) : At(v, k) \in Value
         /\ v.type \notin {"SET", "RECORD"} => Size(v) = 0
         /\ v.type = "SET" => v.elts = Items(v)
         /\ v.type = "RECORD" =>
              /\ DOMAIN v.attrs = 1..Size(v) /\ Len(v.attrs) = Size(v)
              /\ \A k, l \in 1..Size(v) : v.attrs[k].name = v.attrs[l].name => k = l
<1>1. CASE v \in Scalar
  <2>1. v.type \notin {"SET", "RECORD", "ERROR"} /\ Items(v) = <<>>
    BY <1>1, ScalarAssumption DEF Items
  <2> QED BY <2>1 DEF Size, At
<1>2. CASE v \notin Scalar
  <2>1. MaxHeight # 0
    BY <1>2, LevelSteps DEF Value
  <2>2. MaxHeight - 1 \in Nat /\ (MaxHeight - 1) + 1 = MaxHeight /\ MaxHeight - 1 <= MaxHeight
    BY <2>1, LimitsAssumption
  <2> DEFINE V == OfHeight[MaxHeight - 1]
  <2>3. v \in Collections(V) /\ V \subseteq Value
    BY <1>2, <2>2, LevelSteps, LevelsGrow, LimitsAssumption DEF Value
  <2>4. v \in Collections(Value)
    BY <2>3, CollectionsWiden
  <2> HIDE DEF V
  <2>5. Items(v) \in Seq(Value) /\ Size(v) \in Nat /\ DOMAIN Items(v) = 1..Size(v)
    BY <2>4, CollectionFacts, SeqFacts DEF Size
  <2>6. \A k \in 1..Size(v) : At(v, k) \in Value
    BY <2>5 DEF At
  <2> QED BY <2>4, <2>5, <2>6, CollectionFacts DEF Size
<1> QED BY <1>1, <1>2

-------------------------------------------------------------------------------
(* The loop over what a value holds                                        *)

Row(m) == [1..m -> Results \cup {"pass"}]
Progress(m) == [result : Results, matched : SUBSET (1..m)]

LEMMA LeastIn ==
  ASSUME NEW S, S \subseteq Nat, S # {}
  PROVE  Least(S) \in S
<1>1. \E k \in S : \A l \in S : k <= l
  BY LeastNumber
<1> QED BY <1>1 DEF Least

(* An item takes one that is free and does not pass, if there is one.      *)
LEMMA NextItemFacts ==
  ASSUME NEW m \in Nat, NEW row \in Row(m), NEW acc \in Progress(m)
  PROVE  /\ NextItem(row, acc) \in Progress(m)
         /\ acc.result # "yes" => NextItem(row, acc) = acc
         /\ acc.result = "yes" =>
              \/ /\ \A j \in 1..m \ acc.matched : row[j] = "pass"
                 /\ NextItem(row, acc).result = "no"
              \/ \E j \in 1..m \ acc.matched :
                   /\ row[j] # "pass"
                   /\ NextItem(row, acc).result = row[j]
                   /\ NextItem(row, acc).matched = acc.matched \cup {j}
<1> DEFINE hits == {j \in DOMAIN row \ acc.matched : row[j] # "pass"}
<1>1. DOMAIN row = 1..m
  BY DEF Row
<1>2. CASE acc.result # "yes"
  BY <1>2 DEF NextItem
<1>3. CASE acc.result = "yes" /\ hits = {}
  <2>1. NextItem(row, acc) = [acc EXCEPT !.result = "no"]
    BY <1>3 DEF NextItem
  <2>2. NextItem(row, acc) \in Progress(m) /\ NextItem(row, acc).result = "no"
    BY <2>1 DEF Progress, Results
  <2> QED BY <1>1, <1>3, <2>2
<1>4. CASE acc.result = "yes" /\ hits # {}
  <2> DEFINE j == Least(hits)
  <2>1. hits \subseteq Nat /\ hits # {}
    BY <1>1, <1>4
  <2>2. j \in hits
    <3> HIDE DEF hits
    <3> QED BY <2>1, LeastIn
  <2>3. NextItem(row, acc) = [result |-> row[j], matched |-> acc.matched \cup {j}]
    BY <1>4 DEF NextItem
  <2>4. j \in 1..m \ acc.matched /\ row[j] # "pass"
    BY <1>1, <2>2
  <2>5. row[j] \in Results
    BY <2>4 DEF Row
  <2> HIDE DEF j
  <2>6. NextItem(row, acc) \in Progress(m)
    BY <2>3, <2>4, <2>5 DEF Progress
  <2> QED BY <1>4, <2>3, <2>4, <2>6
<1> QED BY <1>2, <1>3, <1>4

LEMMA StartedFacts == \A m \in Nat : Started \in Progress(m)
BY DEF Started, Progress, Results

(* The recursive definition of the loop has a solution, so it is one.      *)
LEMMA PairingSteps ==
  ASSUME NEW m \in Nat, NEW outcomes \in Seq(Row(m))
  PROVE  /\ Pairing(outcomes) \in [0..Len(outcomes) -> Progress(m)]
         /\ Pairing(outcomes)[0] = Started
         /\ \A k \in 1..Len(outcomes) :
              Pairing(outcomes)[k] = NextItem(outcomes[k], Pairing(outcomes)[k - 1])
<1> DEFINE n == Len(outcomes)
           S == Progress(m)
           step == [k \in Nat |-> [acc \in S |->
                      IF k + 1 \in 1..n THEN NextItem(outcomes[k + 1], acc) ELSE acc]]
           body(f) == [k \in 0..n |->
                         IF k = 0 THEN Started ELSE NextItem(outcomes[k], f[k - 1])]
<1>1. n \in Nat /\ \A k \in 1..n : outcomes[k] \in Row(m)
  BY SeqFacts
<1> HIDE DEF n
<1>2. step \in [Nat -> [S -> S]]
  <2>1. ASSUME NEW k \in Nat, NEW acc \in S
        PROVE  (IF k + 1 \in 1..n THEN NextItem(outcomes[k + 1], acc) ELSE acc) \in S
    BY <1>1, NextItemFacts
  <2> HIDE DEF S
  <2> QED BY <2>1
<1>3. Started \in S
  BY StartedFacts
<1>4. PICK g : Iterates(g, S, Started, step)
  <2> HIDE DEF S, step
  <2> QED BY <1>2, <1>3, Recursion
<1>5. /\ \A k \in 0..n : g[k] \in S
      /\ g[0] = Started
      /\ \A k \in 1..n : g[k] = NextItem(outcomes[k], g[k - 1])
  <2>1. g \in [Nat -> S] /\ g[0] = Started /\ \A k \in Nat : g[k + 1] = step[k][g[k]]
    BY <1>4 DEF Iterates
  <2>2. ASSUME NEW k \in 1..n PROVE g[k] = NextItem(outcomes[k], g[k - 1])
    <3>1. k - 1 \in Nat /\ (k - 1) + 1 = k /\ k \in 1..n
      BY <1>1
    <3>2. g[k] = step[k - 1][g[k - 1]] /\ g[k - 1] \in S
      BY <2>1, <3>1
    <3> HIDE DEF S
    <3> QED BY <3>1, <3>2
  <2>3. \A k \in 0..n : k \in Nat
    BY <1>1
  <2> QED BY <2>1, <2>2, <2>3
<1> DEFINE f == [k \in 0..n |-> g[k]]
<1>6. f = body(f)
  <2>1. ASSUME NEW k \in 0..n PROVE f[k] = body(f)[k]
    <3>1. CASE k = 0
      BY <1>5, <3>1
    <3>2. CASE k # 0
      <4>1. k \in 1..n /\ k - 1 \in 0..n
        BY <1>1, <3>2
      <4> QED BY <1>5, <3>2, <4>1
    <3> QED BY <3>1, <3>2
  <2>2. f = [k \in 0..n |-> f[k]] /\ body(f) = [k \in 0..n |-> body(f)[k]]
    OBVIOUS
  <2> HIDE DEF f, body
  <2> QED BY <2>1, <2>2
<1>7. Pairing(outcomes) = CHOOSE h : h = body(h)
  BY DEF Pairing, n
<1>8. Pairing(outcomes) = body(Pairing(outcomes))
  <2> HIDE DEF f, body
  <2> QED BY <1>6, <1>7
<1> DEFINE a1 == Pairing(outcomes)
<1>9. a1[0] = Started /\ \A k \in 1..n : a1[k] = NextItem(outcomes[k], a1[k - 1])
  <2>1. 0 \in 0..n /\ \A k \in 1..n : k \in 0..n /\ k # 0
    BY <1>1
  <2>2. \A k \in 0..n : a1[k] = IF k = 0 THEN Started ELSE NextItem(outcomes[k], a1[k - 1])
    <3> HIDE DEF a1
    <3> QED BY <1>8 DEF a1
  <2> HIDE DEF a1
  <2> QED BY <2>1, <2>2
<1>10. \A k \in 0..n : a1[k] \in S
  <2> DEFINE P == {k \in Nat : k <= n => a1[k] \in S}
  <2>1. 0 \in P
    BY <1>3, <1>9
  <2>2. ASSUME NEW k \in Nat, k \in P PROVE k + 1 \in P
    <3> SUFFICES ASSUME k + 1 <= n PROVE a1[k + 1] \in S
      OBVIOUS
    <3>1. k + 1 \in 1..n /\ (k + 1) - 1 = k /\ k <= n
      BY <1>1
    <3> HIDE DEF a1, S
    <3>2. a1[k] \in S
      BY <2>2, <3>1
    <3>3. a1[k + 1] = NextItem(outcomes[k + 1], a1[k])
      BY <1>9, <3>1
    <3> QED BY <1>1, <3>1, <3>2, <3>3, NextItemFacts DEF S
  <2>3. Nat \subseteq P
    <3> HIDE DEF P
    <3> QED BY <2>1, <2>2, Induction
  <2> QED BY <1>1, <2>3
<1>11. a1 \in [0..n -> S]
  <2>1. a1 = [k \in 0..n |-> a1[k]]
    <3>1. DOMAIN body(a1) = 0..n /\ body(a1) = [k \in 0..n |-> body(a1)[k]]
      OBVIOUS
    <3> HIDE DEF a1, body
    <3> QED BY <1>8, <3>1 DEF a1
  <2> HIDE DEF a1, S
  <2> QED BY <1>10, <2>1
<1> QED BY <1>9, <1>11 DEF n

-------------------------------------------------------------------------------
(* First fit finds a pairing if there is one                               *)

\* The first k are each paired with one of their own, and those are taken.
Pairs(f, k, m, taken) ==
  /\ f \in [1..k -> 1..m]
  /\ \A i, j \in 1..k : f[i] = f[j] => i = j
  /\ taken = {f[i] : i \in 1..k}

(* One more pair                                                           *)
LEMMA PairsExtend ==
  ASSUME NEW k \in Nat, NEW m \in Nat, NEW taken, NEW f, Pairs(f, k, m, taken),
         NEW j \in 1..m, j \notin taken,
         NEW g, g = [i \in 1..k + 1 |-> IF i = k + 1 THEN j ELSE f[i]]
  PROVE  /\ Pairs(g, k + 1, m, taken \cup {j})
         /\ \A i \in 1..k : g[i] = f[i]
         /\ g[k + 1] = j
<1>1. /\ f \in [1..k -> 1..m] /\ taken = {f[i] : i \in 1..k}
      /\ \A i, l \in 1..k : f[i] = f[l] => i = l
  BY DEF Pairs
<1>2. \A i \in 1..k + 1 : i = k + 1 \/ i \in 1..k
  OBVIOUS
<1>3. k + 1 \in 1..k + 1 /\ \A i \in 1..k : i \in 1..k + 1 /\ i # k + 1
  OBVIOUS
<1>4. g[k + 1] = j /\ \A i \in 1..k : g[i] = f[i]
  BY <1>3
<1>5. g \in [1..k + 1 -> 1..m]
  BY <1>1, <1>2
<1>6. \A i \in 1..k : f[i] # j
  BY <1>1
<1>7. ASSUME NEW i \in 1..k + 1, NEW l \in 1..k + 1, g[i] = g[l] PROVE i = l
  BY <1>1, <1>2, <1>4, <1>6, <1>7
<1>8. taken \cup {j} = {g[i] : i \in 1..k + 1}
  <2>1. ASSUME NEW x \in taken \cup {j} PROVE \E i \in 1..k + 1 : x = g[i]
    BY <1>1, <1>3, <1>4
  <2>2. ASSUME NEW i \in 1..k + 1 PROVE g[i] \in taken \cup {j}
    BY <1>1, <1>2, <1>4
  <2> QED BY <2>1, <2>2
<1> QED BY <1>4, <1>5, <1>7, <1>8 DEF Pairs

(* Whatever two have in common they have all in common.                    *)
Blocks(same, n) ==
  \A i, j, k, l \in 1..n : same[i][j] /\ same[k][j] /\ same[k][l] => same[i][l]

(* Once the k-th finds none of its own among the free, all that equal it   *)
(* are taken by others that equal them too, so there are too few: however  *)
(* the choices before were made, no pairing exists.                        *)
LEMMA NoneLeft ==
  ASSUME NEW n \in Nat, NEW k \in 1..n, NEW same, Blocks(same, n),
         NEW f, NEW taken, Pairs(f, k - 1, n, taken),
         \A i \in 1..k - 1 : same[i][f[i]],
         \A j \in 1..n \ taken : ~same[k][j],
         NEW g, NEW all, Pairs(g, n, n, all), \A i \in 1..n : same[i][g[i]]
  PROVE  FALSE
<1> DEFINE C == {i \in 1..n : same[i][g[k]]}
           h == [i \in C |-> CHOOSE l \in 1..k - 1 : f[l] = g[i]]
<1>1. /\ k - 1 \in Nat /\ \A i \in 1..k - 1 : i \in 1..n /\ i # k
      /\ f \in [1..k - 1 -> 1..n] /\ g \in [1..n -> 1..n]
      /\ taken = {f[i] : i \in 1..k - 1}
      /\ \A i, j \in 1..n : g[i] = g[j] => i = j
  BY DEF Pairs
<1>2. k \in C /\ C \subseteq 1..n
  OBVIOUS
<1>3. ASSUME NEW i \in C PROVE h[i] \in 1..k - 1 /\ f[h[i]] = g[i] /\ h[i] \in C \ {k}
  <2>1. same[k][g[k]] /\ same[i][g[k]] /\ same[i][g[i]] /\ i \in 1..n
    OBVIOUS
  <2>2. g[k] \in 1..n /\ g[i] \in 1..n
    BY <1>1, <2>1
  <2>3. same[k][g[i]]
    BY <2>1, <2>2 DEF Blocks
  <2>4. \E l \in 1..k - 1 : f[l] = g[i]
    BY <1>1, <2>2, <2>3
  <2> DEFINE l == CHOOSE l \in 1..k - 1 : f[l] = g[i]
  <2>5. l \in 1..k - 1 /\ f[l] = g[i]
    BY <2>4
  <2>6. h[i] = l
    OBVIOUS
  <2> HIDE DEF l
  <2>7. l \in 1..n /\ l # k /\ same[l][g[i]]
    BY <1>1, <2>5
  <2>8. same[l][g[k]]
    BY <2>1, <2>2, <2>3, <2>7 DEF Blocks
  <2> QED BY <2>5, <2>6, <2>7, <2>8
<1>4. h \in [C -> C \ {k}]
  <2>1. h = [i \in C |-> h[i]]
    OBVIOUS
  <2> HIDE DEF h, C
  <2> QED BY <1>3, <2>1
<1>5. IsFiniteSet(C)
  <2>1. IsFiniteSet(1..n)
    BY FS_Interval
  <2> HIDE DEF C
  <2> QED BY <1>2, <2>1, FS_Subset
<1>6. IsFiniteSet(C \ {k}) /\ Cardinality(C \ {k}) = Cardinality(C) - 1
      /\ Cardinality(C) \in Nat
  <2> HIDE DEF C
  <2> QED BY <1>2, <1>5, FS_RemoveElement, FS_CardinalityType
<1>7. Cardinality(C \ {k}) < Cardinality(C)
  <2> HIDE DEF C
  <2> QED BY <1>6
<1>8. PICK i \in C, j \in C : i # j /\ h[i] = h[j]
  <2> HIDE DEF C, h
  <2> QED BY <1>4, <1>5, <1>6, <1>7, FS_PigeonHole
<1>9. g[i] = g[j]
  <2>1. f[h[i]] = g[i] /\ f[h[j]] = g[j]
    BY <1>3
  <2> HIDE DEF C, h
  <2> QED BY <1>8, <2>1
<1> QED BY <1>1, <1>2, <1>8, <1>9

(* As many as there are leave none free.                                   *)
LEMMA NoneFree ==
  ASSUME NEW n \in Nat, NEW f, NEW taken, Pairs(f, n, n, taken)
  PROVE  taken = 1..n
<1>1. /\ f \in [1..n -> 1..n] /\ taken = {f[i] : i \in 1..n}
      /\ \A i, j \in 1..n : f[i] = f[j] => i = j
  BY DEF Pairs
<1> SUFFICES ASSUME NEW j \in 1..n, j \notin taken PROVE FALSE
  BY <1>1
<1> DEFINE N == 1..n
<1>2. f \in [N -> N \ {j}]
  <2>1. \A i \in N : f[i] # j /\ f[i] \in N
    BY <1>1
  <2>2. f = [i \in N |-> f[i]]
    BY <1>1
  <2> HIDE DEF N
  <2> QED BY <2>1, <2>2
<1>3. IsFiniteSet(N) /\ Cardinality(N) \in Nat
  BY FS_Interval, FS_CardinalityType
<1>4. IsFiniteSet(N \ {j}) /\ Cardinality(N \ {j}) = Cardinality(N) - 1
  <2>1. j \in N
    OBVIOUS
  <2> HIDE DEF N
  <2> QED BY <1>3, <2>1, FS_RemoveElement
<1>5. Cardinality(N \ {j}) < Cardinality(N)
  <2> HIDE DEF N
  <2> QED BY <1>3, <1>4
<1>6. PICK x \in N, y \in N : x # y /\ f[x] = f[y]
  <2> HIDE DEF N
  <2> QED BY <1>2, <1>3, <1>4, <1>5, FS_PigeonHole
<1> QED BY <1>1, <1>6

\* All n of a set are paired with equal ones.
AllPaired(same, n) ==
  \E f, taken : Pairs(f, n, n, taken) /\ \A i \in 1..n : same[i][f[i]]

(* The loop over a set is right.                                           *)
LEMMA SetLoop ==
  ASSUME NEW n \in Nat, NEW same, Blocks(same, n),
         NEW outcomes \in Seq(Row(n)), Len(outcomes) = n,
         \A i, j \in 1..n :
           outcomes[i][j] \in {"error", IF same[i][j] THEN "yes" ELSE "pass"}
  PROVE  /\ Paired(outcomes) \in Results
         /\ Paired(outcomes) = "yes" => AllPaired(same, n)
         /\ Paired(outcomes) = "no" => ~AllPaired(same, n)
<1> DEFINE acc == Pairing(outcomes)
           Sofar(k) ==
             /\ acc[k].result = "yes" =>
                  \E f : Pairs(f, k, n, acc[k].matched) /\ \A i \in 1..k : same[i][f[i]]
             /\ acc[k].result = "no" => ~AllPaired(same, n)
           P == {k \in Nat : k <= n => Sofar(k)}
<1>1. /\ \A k \in 0..n : acc[k] \in Progress(n)
      /\ acc[0] = Started
      /\ \A k \in 1..n : acc[k] = NextItem(outcomes[k], acc[k - 1])
      /\ \A k \in 1..n : outcomes[k] \in Row(n)
  BY PairingSteps, SeqFacts
<1> HIDE DEF acc
<1>2. 0 \in P
  <2>1. acc[0].result = "yes" /\ acc[0].matched = {}
    BY <1>1 DEF Started
  <2> DEFINE f == [i \in 1..0 |-> i]
  <2>2. Pairs(f, 0, n, {}) /\ \A i \in 1..0 : same[i][f[i]]
    BY DEF Pairs
  <2> HIDE DEF f
  <2>3. Sofar(0)
    BY <2>1, <2>2
  <2> HIDE DEF Sofar
  <2> QED BY <2>3
<1>3. ASSUME NEW k \in Nat, k \in P PROVE k + 1 \in P
  <2> SUFFICES ASSUME k + 1 <= n PROVE Sofar(k + 1)
    OBVIOUS
  <2>1. k \in 0..n /\ k + 1 \in 0..n /\ k + 1 \in 1..n /\ (k + 1) - 1 = k /\ Sofar(k)
    BY <1>3
  <2> DEFINE row == outcomes[k + 1]
             old == acc[k]
             new == acc[k + 1]
  <2>2. old \in Progress(n) /\ row \in Row(n) /\ new = NextItem(row, old)
    BY <1>1, <2>1
  <2> HIDE DEF row, old, new
  <2>3. CASE old.result # "yes"
    <3>1. new = old
      BY <2>2, <2>3, NextItemFacts
    <3> QED BY <2>1, <2>3, <3>1 DEF old, new
  <2>4. CASE old.result = "yes"
    <3>1. PICK f : Pairs(f, k, n, old.matched) /\ \A i \in 1..k : same[i][f[i]]
      BY <2>1, <2>4 DEF old
    <3>2. CASE /\ \A j \in 1..n \ old.matched : row[j] = "pass"
               /\ new.result = "no"
      <4>1. \A j \in 1..n \ old.matched : ~same[k + 1][j]
        BY <2>1, <3>2 DEF row
      <4>2. ~AllPaired(same, n)
        <5> SUFFICES ASSUME NEW g, NEW all, Pairs(g, n, n, all), \A i \in 1..n : same[i][g[i]]
                     PROVE  FALSE
          BY DEF AllPaired
        <5>1. Pairs(f, (k + 1) - 1, n, old.matched) /\ \A i \in 1..(k + 1) - 1 : same[i][f[i]]
          BY <2>1, <3>1
        <5> QED BY <2>1, <4>1, <5>1, NoneLeft
      <4> QED BY <3>2, <4>2 DEF new
    <3>3. ASSUME NEW j \in 1..n \ old.matched, row[j] # "pass",
                 new.result = row[j], new.matched = old.matched \cup {j}
          PROVE  Sofar(k + 1)
      <4>1. row[j] = "error" \/ (row[j] = "yes" /\ same[k + 1][j])
        BY <2>1, <3>3 DEF row
      <4>2. CASE row[j] = "error"
        BY <3>3, <4>2 DEF new
      <4>3. CASE row[j] = "yes" /\ same[k + 1][j]
        <5> DEFINE g == [i \in 1..k + 1 |-> IF i = k + 1 THEN j ELSE f[i]]
        <5>1. /\ Pairs(g, k + 1, n, new.matched)
              /\ \A i \in 1..k : g[i] = f[i]
              /\ g[k + 1] = j
          BY <3>1, <3>3, PairsExtend
        <5>2. \A i \in 1..k + 1 : i \in 1..k \/ i = k + 1
          OBVIOUS
        <5> HIDE DEF g
        <5>3. \A i \in 1..k + 1 : same[i][g[i]]
          BY <3>1, <4>3, <5>1, <5>2
        <5> QED BY <3>3, <4>3, <5>1, <5>3 DEF new
      <4> QED BY <4>1, <4>2, <4>3
    <3> QED BY <2>2, <2>4, <3>2, <3>3, NextItemFacts
  <2> QED BY <2>3, <2>4
<1>4. Nat \subseteq P
  <2> HIDE DEF P
  <2> QED BY <1>2, <1>3, Induction
<1>5. Sofar(n)
  BY <1>4
<1>6. Paired(outcomes) = acc[n].result
  BY DEF Paired, acc
<1>7. n \in 0..n /\ acc[n].result \in Results
  BY <1>1 DEF Progress
<1> QED BY <1>5, <1>6, <1>7 DEF AllPaired

\* The names are the same ones, and what has one name is the same.
Matching(A, B, same, n) ==
  /\ \A i \in 1..n : \E j \in 1..n : A[i] = B[j]
  /\ \A j \in 1..n : \E i \in 1..n : A[i] = B[j]
  /\ \A i, j \in 1..n : A[i] = B[j] => same[i][j]

\* What is compared under one name answers, what has another passes.
ByName(outcomes, A, B, same, n) ==
  \A i, j \in 1..n :
    outcomes[i][j] \in IF A[i] = B[j]
                       THEN {"error", IF same[i][j] THEN "yes" ELSE "no"}
                       ELSE {"pass"}

\* The first k are each paired with one of the same name, which is the same.
Named(A, B, same, f, k) == \A i \in 1..k : A[i] = B[f[i]] /\ same[i][f[i]]

(* The loop over a record is right.                                        *)
LEMMA RecordLoop ==
  ASSUME NEW n \in Nat, NEW same, NEW A, NEW B,
         \A i, j \in 1..n : A[i] = A[j] => i = j,
         \A i, j \in 1..n : B[i] = B[j] => i = j,
         NEW outcomes \in Seq(Row(n)), Len(outcomes) = n, ByName(outcomes, A, B, same, n)
  PROVE  /\ Paired(outcomes) \in Results
         /\ Paired(outcomes) = "yes" => Matching(A, B, same, n)
         /\ Paired(outcomes) = "no" => ~Matching(A, B, same, n)
<1> DEFINE acc == Pairing(outcomes)
           Sofar(k) ==
             /\ acc[k].result = "yes" =>
                  \E f : Pairs(f, k, n, acc[k].matched) /\ Named(A, B, same, f, k)
             /\ acc[k].result = "no" => ~Matching(A, B, same, n)
           P == {k \in Nat : k <= n => Sofar(k)}
<1>1. /\ \A k \in 0..n : acc[k] \in Progress(n)
      /\ acc[0] = Started
      /\ \A k \in 1..n : acc[k] = NextItem(outcomes[k], acc[k - 1])
      /\ \A k \in 1..n : outcomes[k] \in Row(n)
  BY PairingSteps, SeqFacts
<1> HIDE DEF acc
<1>2. 0 \in P
  <2>1. acc[0].result = "yes" /\ acc[0].matched = {}
    BY <1>1 DEF Started
  <2> DEFINE f == [i \in 1..0 |-> i]
  <2>2. Pairs(f, 0, n, {}) /\ Named(A, B, same, f, 0)
    BY DEF Pairs, Named
  <2> HIDE DEF f
  <2>3. Sofar(0)
    BY <2>1, <2>2
  <2> HIDE DEF Sofar
  <2> QED BY <2>3
<1>3. ASSUME NEW k \in Nat, k \in P PROVE k + 1 \in P
  <2> SUFFICES ASSUME k + 1 <= n PROVE Sofar(k + 1)
    OBVIOUS
  <2>1. k \in 0..n /\ k + 1 \in 0..n /\ k + 1 \in 1..n /\ (k + 1) - 1 = k /\ Sofar(k)
    BY <1>3
  <2> DEFINE row == outcomes[k + 1]
             old == acc[k]
             new == acc[k + 1]
  <2>2. old \in Progress(n) /\ row \in Row(n) /\ new = NextItem(row, old)
    BY <1>1, <2>1
  <2> HIDE DEF row, old, new
  <2>3. CASE old.result # "yes"
    <3>1. new = old
      BY <2>2, <2>3, NextItemFacts
    <3> QED BY <2>1, <2>3, <3>1 DEF old, new
  <2>4. CASE old.result = "yes"
    <3>1. PICK f : Pairs(f, k, n, old.matched) /\ Named(A, B, same, f, k)
      BY <2>1, <2>4 DEF old
    <3>2. f \in [1..k -> 1..n] /\ old.matched = {f[i] : i \in 1..k}
      BY <3>1 DEF Pairs
    <3>3. CASE /\ \A j \in 1..n \ old.matched : row[j] = "pass"
               /\ new.result = "no"
      <4>1. ASSUME NEW j \in 1..n PROVE A[k + 1] # B[j]
        <5>1. CASE j \in old.matched
          <6>1. PICK i \in 1..k : j = f[i]
            BY <3>2, <5>1
          <6>2. A[i] = B[j]
            BY <3>1, <6>1 DEF Named
          <6>3. i \in 1..n /\ i # k + 1
            BY <2>1
          <6> QED BY <2>1, <6>2, <6>3
        <5>2. CASE j \notin old.matched
          <6>1. row[j] = "pass"
            BY <3>3, <5>2
          <6>2. row[j] \in IF A[k + 1] = B[j]
                           THEN {"error", IF same[k + 1][j] THEN "yes" ELSE "no"}
                           ELSE {"pass"}
            BY <2>1 DEF row, ByName
          <6> QED BY <6>1, <6>2
        <5> QED BY <5>1, <5>2
      <4>2. ~Matching(A, B, same, n)
        BY <2>1, <4>1 DEF Matching
      <4> QED BY <3>3, <4>2 DEF new
    <3>4. ASSUME NEW j \in 1..n \ old.matched, row[j] # "pass",
                 new.result = row[j], new.matched = old.matched \cup {j}
          PROVE  Sofar(k + 1)
      <4>1. /\ A[k + 1] = B[j]
            /\ \/ row[j] = "error"
               \/ row[j] = "yes" /\ same[k + 1][j]
               \/ row[j] = "no" /\ ~same[k + 1][j]
        <5>1. row[j] \in IF A[k + 1] = B[j]
                         THEN {"error", IF same[k + 1][j] THEN "yes" ELSE "no"}
                         ELSE {"pass"}
          BY <2>1 DEF row, ByName
        <5> QED BY <3>4, <5>1
      <4>2. CASE row[j] = "error"
        BY <3>4, <4>2 DEF new
      <4>3. CASE row[j] = "yes" /\ same[k + 1][j]
        <5> DEFINE g == [i \in 1..k + 1 |-> IF i = k + 1 THEN j ELSE f[i]]
        <5>1. /\ Pairs(g, k + 1, n, new.matched)
              /\ \A i \in 1..k : g[i] = f[i]
              /\ g[k + 1] = j
          <6>1. j \in 1..n /\ j \notin old.matched
            OBVIOUS
          <6>2. g = [i \in 1..k + 1 |-> IF i = k + 1 THEN j ELSE f[i]]
            OBVIOUS
          <6> HIDE DEF g
          <6>3. /\ Pairs(g, k + 1, n, old.matched \cup {j})
                /\ \A i \in 1..k : g[i] = f[i]
                /\ g[k + 1] = j
            BY <3>1, <6>1, <6>2, PairsExtend
          <6> QED BY <3>4, <6>3
        <5>2. \A i \in 1..k + 1 : i \in 1..k \/ i = k + 1
          OBVIOUS
        <5> HIDE DEF g
        <5>3. Named(A, B, same, g, k + 1)
          BY <3>1, <4>1, <4>3, <5>1, <5>2 DEF Named
        <5> QED BY <3>4, <4>3, <5>1, <5>3 DEF new
      <4>4. CASE row[j] = "no" /\ ~same[k + 1][j]
        <5>1. ~Matching(A, B, same, n)
          BY <2>1, <4>1, <4>4 DEF Matching
        <5> QED BY <3>4, <4>4, <5>1 DEF new
      <4> QED BY <4>1, <4>2, <4>3, <4>4
    <3> QED BY <2>2, <2>4, <3>3, <3>4, NextItemFacts
  <2> QED BY <2>3, <2>4
<1>4. Nat \subseteq P
  <2> HIDE DEF P
  <2> QED BY <1>2, <1>3, Induction
<1>5. Sofar(n)
  BY <1>4
<1>6. Paired(outcomes) = acc[n].result
  BY DEF Paired, acc
<1>7. n \in 0..n /\ acc[n].result \in Results
  BY <1>1 DEF Progress
<1>8. ASSUME acc[n].result = "yes" PROVE Matching(A, B, same, n)
  <2>1. PICK f : Pairs(f, n, n, acc[n].matched) /\ Named(A, B, same, f, n)
    BY <1>5, <1>8
  <2>2. f \in [1..n -> 1..n] /\ {f[i] : i \in 1..n} = 1..n
    <3>1. acc[n].matched = 1..n
      BY <2>1, NoneFree
    <3> QED BY <2>1, <3>1 DEF Pairs
  <2>3. \A i \in 1..n : f[i] \in 1..n /\ A[i] = B[f[i]] /\ same[i][f[i]]
    BY <2>1, <2>2 DEF Named
  <2>4. \A j \in 1..n : \E i \in 1..n : j = f[i]
    BY <2>2
  <2>5. ASSUME NEW j \in 1..n PROVE \E i \in 1..n : A[i] = B[j]
    <3>1. PICK i \in 1..n : j = f[i]
      BY <2>4
    <3>2. A[i] = B[j]
      BY <2>3, <3>1
    <3> QED BY <3>2
  <2>6. \A i \in 1..n : \E j \in 1..n : A[i] = B[j]
    BY <2>3
  <2>7. ASSUME NEW i \in 1..n, NEW j \in 1..n, A[i] = B[j] PROVE same[i][j]
    <3>1. f[i] \in 1..n /\ B[f[i]] = B[j]
      BY <2>3, <2>7
    <3>2. f[i] = j
      BY <3>1
    <3> QED BY <2>3, <3>2
  <2> QED BY <2>5, <2>6, <2>7 DEF Matching
<1> QED BY <1>5, <1>6, <1>7, <1>8

-------------------------------------------------------------------------------
(* One call                                                                *)

\* The outcomes a call pairs the items of x and y by
Outcomes(answers, x, y) ==
  [i \in DOMAIN Items(x) |-> [j \in DOMAIN Items(y) |->
     Outcome(x, y, i, j, answers[i][j])]]

\* What the calls below answer
Answered(answers, x, y) ==
  \A i \in 1..Size(x), j \in 1..Size(y) : answers[i][j] \in Results

LEMMA OutcomesFacts ==
  ASSUME NEW x \in Value, NEW y \in Value, Size(x) = Size(y),
         NEW answers, Answered(answers, x, y)
  PROVE  /\ Outcomes(answers, x, y) \in Seq(Row(Size(x)))
         /\ Len(Outcomes(answers, x, y)) = Size(x)
         /\ \A i, j \in 1..Size(x) :
              Outcomes(answers, x, y)[i][j] = Outcome(x, y, i, j, answers[i][j])
         /\ Paired(Outcomes(answers, x, y)) \in Results
<1> DEFINE n == Size(x)
           O == Outcomes(answers, x, y)
           row(i) == [j \in 1..n |-> Outcome(x, y, i, j, answers[i][j])]
<1>1. n \in Nat /\ n = Size(y) /\ DOMAIN Items(x) = 1..n /\ DOMAIN Items(y) = 1..n
  BY ValueFacts
<1>2. O = [i \in 1..n |-> row(i)]
  BY <1>1 DEF Outcomes
<1>3. ASSUME NEW i \in 1..n PROVE row(i) \in Row(n)
  <2>1. ASSUME NEW j \in 1..n PROVE Outcome(x, y, i, j, answers[i][j]) \in Results \cup {"pass"}
    <3>1. answers[i][j] \in Results
      BY <1>1 DEF Answered
    <3> QED BY <3>1 DEF Outcome, Results
  <2> QED BY <2>1 DEF Row
<1>4. \A i, j \in 1..n : row(i)[j] = Outcome(x, y, i, j, answers[i][j])
  OBVIOUS
<1> HIDE DEF n, O, row
<1>5. O \in [1..n -> Row(n)] /\ \A i \in 1..n : O[i] = row(i)
  BY <1>2, <1>3
<1>6. O \in Seq(Row(n)) /\ Len(O) = n
  BY <1>1, <1>5
<1>7. Paired(O) \in Results
  <2>1. Pairing(O)[n] \in Progress(n)
    <3>1. n \in 0..n
      BY <1>1
    <3> QED BY <1>1, <1>6, <3>1, PairingSteps
  <2> QED BY <1>6, <2>1 DEF Paired, Progress
<1> QED BY <1>4, <1>5, <1>6, <1>7 DEF n, O

LEMMA ComparedFacts ==
  ASSUME NEW x \in Value, NEW y \in Value, NEW answers, Answered(answers, x, y)
  PROVE  /\ Compared(answers, x, y) \in Results
         /\ x.type # y.type => Compared(answers, x, y) = "no"
         /\ x.type = y.type /\ x.type \notin {"SET", "RECORD"} =>
              Compared(answers, x, y) = Answer(Identity(x) = Identity(y))
         /\ x.type = y.type /\ x.type \in {"SET", "RECORD"} =>
              IF Size(x) # Size(y) THEN Compared(answers, x, y) = "no"
              ELSE \/ Size(x) > MaxElts /\ Compared(answers, x, y) = "error"
                   \/ ~(Size(x) > MaxElts)
                      /\ Compared(answers, x, y) = Paired(Outcomes(answers, x, y))
<1>1. x.type # "ERROR" /\ y.type # "ERROR"
  BY ValueFacts
<1>2. Compared(answers, x, y) =
        IF x.type # y.type THEN "no"
        ELSE IF x.type \notin {"SET", "RECORD"} THEN Answer(Identity(x) = Identity(y))
        ELSE IF Size(x) # Size(y) THEN "no"
        ELSE IF Size(x) > MaxElts THEN "error"
        ELSE Paired(Outcomes(answers, x, y))
  BY <1>1 DEF Compared, Outcomes, Size
<1>3. Answer(Identity(x) = Identity(y)) \in Results
  BY DEF Answer, Results
<1>4. Size(x) = Size(y) => Paired(Outcomes(answers, x, y)) \in Results
  BY OutcomesFacts
<1>5. {"no", "error"} \subseteq Results
  BY DEF Results
<1> QED BY <1>2, <1>3, <1>4, <1>5

-------------------------------------------------------------------------------
(* The three functions by levels                                           *)

\* What g says of the items of a pair of values
Below(g, x, y) ==
  [i \in DOMAIN Items(x) |-> [j \in DOMAIN Items(y) |-> g[<<Items(x)[i], Items(y)[j]>>]]]

LEMMA BelowFacts ==
  ASSUME NEW x \in Value, NEW y \in Value, NEW g
  PROVE  \A i \in 1..Size(x), j \in 1..Size(y) :
           Below(g, x, y)[i][j] = g[<<At(x, i), At(y, j)>>]
<1>1. DOMAIN Items(x) = 1..Size(x) /\ DOMAIN Items(y) = 1..Size(y)
  BY ValueFacts
<1> QED BY <1>1 DEF Below, At

LEMMA BelowAnswers ==
  ASSUME NEW x \in Value, NEW y \in Value, NEW g \in [Value \X Value -> Results]
  PROVE  Answered(Below(g, x, y), x, y)
<1> SUFFICES ASSUME NEW i \in 1..Size(x), NEW j \in 1..Size(y)
             PROVE  Below(g, x, y)[i][j] \in Results
  BY DEF Answered
<1>1. At(x, i) \in Value /\ At(y, j) \in Value
  BY ValueFacts
<1>2. <<At(x, i), At(y, j)>> \in Value \X Value
  BY <1>1
<1> QED BY <1>2, BelowFacts

EqualsStep(g) == [p \in Value \X Value |-> Compared(Below(g, p[1], p[2]), p[1], p[2])]

LEMMA EqualsSteps ==
  /\ \A n \in Nat : EqualsWithin[n] \in [Value \X Value -> Results]
  /\ \A x, y \in Value : EqualsWithin[0][<<x, y>>] = "error"
  /\ \A n \in Nat : \A x, y \in Value :
       EqualsWithin[n + 1][<<x, y>>] = Compared(Below(EqualsWithin[n], x, y), x, y)
<1> DEFINE S == [Value \X Value -> Results]
           first == [p \in Value \X Value |-> "error"]
           step == [n \in Nat |-> [g \in S |-> EqualsStep(g)]]
           body(g) ==
             [left \in Nat |->
               [p \in Value \X Value |->
                 IF TooDeep(MaxValueEqualsDepth + 1 - left) THEN "error"
                 ELSE Compared([i \in DOMAIN Items(p[1]) |-> [j \in DOMAIN Items(p[2]) |->
                        g[left - 1][<<Items(p[1])[i], Items(p[2])[j]>>]]], p[1], p[2])]]
<1>1. first \in S
  BY DEF Results
<1>2. ASSUME NEW g \in S PROVE EqualsStep(g) \in S
  <2>1. ASSUME NEW p \in Value \X Value
        PROVE  Compared(Below(g, p[1], p[2]), p[1], p[2]) \in Results
    <3>1. p[1] \in Value /\ p[2] \in Value
      OBVIOUS
    <3> QED BY <3>1, BelowAnswers, ComparedFacts
  <2> QED BY <2>1 DEF EqualsStep
<1>3. ASSUME NEW g PROVE body(g)[0] = first
  <2>1. TooDeep(MaxValueEqualsDepth + 1 - 0)
    BY LimitsAssumption DEF TooDeep
  <2> QED BY <2>1
<1>4. ASSUME NEW g, NEW n \in Nat PROVE body(g)[n + 1] = EqualsStep(g[n])
  <2>1. ~TooDeep(MaxValueEqualsDepth + 1 - (n + 1)) /\ n + 1 \in Nat /\ (n + 1) - 1 = n
    BY LimitsAssumption DEF TooDeep
  <2> QED BY <2>1 DEF EqualsStep, Below
<1>5. ASSUME NEW g PROVE body(g) = [left \in Nat |-> body(g)[left]]
  OBVIOUS
<1>6. step \in [Nat -> [S -> S]]
  <2> HIDE DEF S
  <2> QED BY <1>2
<1>7. PICK f : Iterates(f, S, first, step)
  <2> HIDE DEF S, first, step
  <2> QED BY <1>1, <1>6, Recursion
<1>8. f \in [Nat -> S] /\ f[0] = first /\ \A n \in Nat : f[n + 1] = EqualsStep(f[n])
  <2>1. f \in [Nat -> S] /\ f[0] = first /\ \A n \in Nat : f[n + 1] = step[n][f[n]]
    BY <1>7 DEF Iterates
  <2> HIDE DEF S, first
  <2> QED BY <2>1
<1> HIDE DEF S, first, step, body
<1>9. ASSUME NEW left \in Nat PROVE f[left] = body(f)[left]
  <2>1. CASE left = 0
    BY <1>3, <1>8, <2>1
  <2>2. CASE left # 0
    <3>1. left - 1 \in Nat /\ (left - 1) + 1 = left
      BY <2>2
    <3> QED BY <1>4, <1>8, <3>1
  <2> QED BY <2>1, <2>2
<1>10. f = body(f)
  BY <1>5, <1>8, <1>9
<1>11. EqualsWithin = body(EqualsWithin)
  <2>1. \E g : g = body(g)
    BY <1>10
  <2> USE DEF body
  <2> QED BY <2>1, Zenon DEF EqualsWithin
<1>12. EqualsWithin[0] = first
  BY <1>3, <1>11
<1>13. \A n \in Nat : EqualsWithin[n + 1] = EqualsStep(EqualsWithin[n])
  BY <1>4, <1>11
<1>14. \A n \in Nat : EqualsWithin[n] \in S
  <2> DEFINE P == {n \in Nat : EqualsWithin[n] \in S}
  <2>1. 0 \in P /\ \A n \in Nat : n \in P => n + 1 \in P
    BY <1>1, <1>2, <1>12, <1>13
  <2> HIDE DEF P
  <2>2. Nat \subseteq P
    BY <2>1, Induction
  <2> QED BY <2>2 DEF P
<1>15. ASSUME NEW x \in Value, NEW y \in Value
       PROVE  /\ EqualsWithin[0][<<x, y>>] = "error"
              /\ \A n \in Nat : EqualsWithin[n + 1][<<x, y>>] =
                                Compared(Below(EqualsWithin[n], x, y), x, y)
  <2>1. <<x, y>> \in Value \X Value
    OBVIOUS
  <2> QED BY <1>12, <1>13, <2>1 DEF first, EqualsStep
<1> QED BY <1>14, <1>15 DEF S

SameStep(g) == [p \in Value \X Value |-> Alike(Below(g, p[1], p[2]), p[1], p[2])]

LEMMA SameSteps ==
  /\ \A n \in Nat : Same[n] \in [Value \X Value -> BOOLEAN]
  /\ \A x, y \in Value : ~Same[0][<<x, y>>]
  /\ \A n \in Nat : \A x, y \in Value :
       Same[n + 1][<<x, y>>] <=> Alike(Below(Same[n], x, y), x, y)
<1> DEFINE S == [Value \X Value -> BOOLEAN]
           first == [p \in Value \X Value |-> FALSE]
           step == [n \in Nat |-> [g \in S |-> SameStep(g)]]
           body(g) ==
             [levels \in Nat |->
               [p \in Value \X Value |->
                 /\ levels > 0
                 /\ Alike([k \in DOMAIN Items(p[1]) |-> [l \in DOMAIN Items(p[2]) |->
                      g[levels - 1][<<Items(p[1])[k], Items(p[2])[l]>>]]], p[1], p[2])]]
<1>1. first \in S
  OBVIOUS
<1>2. ASSUME NEW g PROVE SameStep(g) \in S
  <2>1. ASSUME NEW p \in Value \X Value
        PROVE  Alike(Below(g, p[1], p[2]), p[1], p[2]) \in BOOLEAN
    BY DEF Alike
  <2> QED BY <2>1 DEF SameStep
<1>3. ASSUME NEW g PROVE body(g)[0] = first
  <2>1. ~(0 > 0)
    OBVIOUS
  <2> QED BY <2>1
<1>4. ASSUME NEW g, NEW n \in Nat PROVE body(g)[n + 1] = SameStep(g[n])
  <2>1. n + 1 > 0 /\ n + 1 \in Nat /\ (n + 1) - 1 = n
    OBVIOUS
  <2>2. body(g)[n + 1] =
          [p \in Value \X Value |-> n + 1 > 0 /\ Alike(Below(g[n], p[1], p[2]), p[1], p[2])]
    BY <2>1 DEF Below
  <2>3. ASSUME NEW p \in Value \X Value
        PROVE  (n + 1 > 0 /\ Alike(Below(g[n], p[1], p[2]), p[1], p[2]))
                 = Alike(Below(g[n], p[1], p[2]), p[1], p[2])
    BY <2>1 DEF Alike
  <2> HIDE DEF body
  <2> QED BY <2>2, <2>3 DEF SameStep
<1>5. ASSUME NEW g PROVE body(g) = [levels \in Nat |-> body(g)[levels]]
  OBVIOUS
<1>6. step \in [Nat -> [S -> S]]
  <2> HIDE DEF S
  <2> QED BY <1>2
<1>7. PICK f : Iterates(f, S, first, step)
  <2> HIDE DEF S, first, step
  <2> QED BY <1>1, <1>6, Recursion
<1>8. f \in [Nat -> S] /\ f[0] = first /\ \A n \in Nat : f[n + 1] = SameStep(f[n])
  <2>1. f \in [Nat -> S] /\ f[0] = first /\ \A n \in Nat : f[n + 1] = step[n][f[n]]
    BY <1>7 DEF Iterates
  <2> HIDE DEF S, first
  <2> QED BY <2>1
<1> HIDE DEF S, first, step, body
<1>9. ASSUME NEW levels \in Nat PROVE f[levels] = body(f)[levels]
  <2>1. CASE levels = 0
    BY <1>3, <1>8, <2>1
  <2>2. CASE levels # 0
    <3>1. levels - 1 \in Nat /\ (levels - 1) + 1 = levels
      BY <2>2
    <3> QED BY <1>4, <1>8, <3>1
  <2> QED BY <2>1, <2>2
<1>10. f = body(f)
  BY <1>5, <1>8, <1>9
<1>11. Same = body(Same)
  <2>1. \E g : g = body(g)
    BY <1>10
  <2> USE DEF body
  <2> QED BY <2>1, Zenon DEF Same
<1>12. Same[0] = first
  BY <1>3, <1>11
<1>13. \A n \in Nat : Same[n + 1] = SameStep(Same[n])
  BY <1>4, <1>11
<1>14. ASSUME NEW n \in Nat PROVE Same[n] \in S
  <2>1. CASE n = 0
    BY <1>1, <1>12, <2>1
  <2>2. CASE n # 0
    <3>1. n - 1 \in Nat /\ (n - 1) + 1 = n
      BY <2>2
    <3> QED BY <1>2, <1>13, <3>1
  <2> QED BY <2>1, <2>2
<1>15. ASSUME NEW x \in Value, NEW y \in Value
       PROVE  /\ ~Same[0][<<x, y>>]
              /\ \A n \in Nat :
                   Same[n + 1][<<x, y>>] = Alike(Below(Same[n], x, y), x, y)
  <2>1. <<x, y>> \in Value \X Value
    OBVIOUS
  <2>2. ~Same[0][<<x, y>>]
    BY <1>12, <2>1 DEF first
  <2>3. ASSUME NEW g PROVE SameStep(g)[<<x, y>>] = Alike(Below(g, x, y), x, y)
    BY <2>1 DEF SameStep
  <2> QED BY <1>13, <2>2, <2>3
<1> QED BY <1>14, <1>15 DEF S

LimitedStep(g) ==
  [v \in Value |-> Len(Items(v)) <= MaxElts /\ \A k \in DOMAIN Items(v) : g[Items(v)[k]]]

LEMMA LimitedSteps ==
  /\ \A v \in Value : Limited[0][v] => Size(v) = 0
  /\ \A n \in Nat : \A v \in Value :
       Limited[n + 1][v] =>
         Size(v) <= MaxElts /\ \A k \in 1..Size(v) : Limited[n][At(v, k)]
<1> DEFINE S == [Value -> BOOLEAN]
           none == [v \in Value |-> Len(Items(v)) <= MaxElts /\ DOMAIN Items(v) = {}]
           step == [n \in Nat |-> [g \in S |-> LimitedStep(g)]]
           body(g) ==
             [levels \in Nat |->
               [v \in Value |->
                 /\ Len(Items(v)) <= MaxElts
                 /\ \A k \in DOMAIN Items(v) : levels > 0 /\ g[levels - 1][Items(v)[k]]]]
<1>1. none \in S
  OBVIOUS
<1>2. ASSUME NEW g PROVE LimitedStep(g) \in S
  BY DEF LimitedStep
<1>3. ASSUME NEW g PROVE body(g)[0] = none
  <2>1. ~(0 > 0)
    OBVIOUS
  <2>2. ASSUME NEW v \in Value
        PROVE  (/\ Len(Items(v)) <= MaxElts
                /\ \A k \in DOMAIN Items(v) : 0 > 0 /\ g[0 - 1][Items(v)[k]])
                 = (Len(Items(v)) <= MaxElts /\ DOMAIN Items(v) = {})
    BY <2>1
  <2> QED BY <2>2
<1>4. ASSUME NEW g, NEW n \in Nat PROVE body(g)[n + 1] = LimitedStep(g[n])
  <2>1. n + 1 > 0 /\ n + 1 \in Nat /\ (n + 1) - 1 = n
    OBVIOUS
  <2>2. ASSUME NEW v \in Value
        PROVE  (/\ Len(Items(v)) <= MaxElts
                /\ \A k \in DOMAIN Items(v) : n + 1 > 0 /\ g[(n + 1) - 1][Items(v)[k]])
                 = (Len(Items(v)) <= MaxElts /\ \A k \in DOMAIN Items(v) : g[n][Items(v)[k]])
    BY <2>1
  <2> QED BY <2>1, <2>2 DEF LimitedStep
<1>5. ASSUME NEW g PROVE body(g) = [levels \in Nat |-> body(g)[levels]]
  OBVIOUS
<1>6. step \in [Nat -> [S -> S]]
  <2> HIDE DEF S
  <2> QED BY <1>2
<1>7. PICK f : Iterates(f, S, none, step)
  <2> HIDE DEF S, none, step
  <2> QED BY <1>1, <1>6, Recursion
<1>8. f \in [Nat -> S] /\ f[0] = none /\ \A n \in Nat : f[n + 1] = LimitedStep(f[n])
  <2>1. f \in [Nat -> S] /\ f[0] = none /\ \A n \in Nat : f[n + 1] = step[n][f[n]]
    BY <1>7 DEF Iterates
  <2> HIDE DEF S, none
  <2> QED BY <2>1
<1> HIDE DEF S, none, step, body
<1>9. ASSUME NEW levels \in Nat PROVE f[levels] = body(f)[levels]
  <2>1. CASE levels = 0
    BY <1>3, <1>8, <2>1
  <2>2. CASE levels # 0
    <3>1. levels - 1 \in Nat /\ (levels - 1) + 1 = levels
      BY <2>2
    <3> QED BY <1>4, <1>8, <3>1
  <2> QED BY <2>1, <2>2
<1>10. f = body(f)
  BY <1>5, <1>8, <1>9
<1>11. Limited = body(Limited)
  <2>1. \E g : g = body(g)
    BY <1>10
  <2> USE DEF body
  <2> QED BY <2>1, Zenon DEF Limited
<1>12. Limited[0] = none
  BY <1>3, <1>11
<1>13. \A n \in Nat : Limited[n + 1] = LimitedStep(Limited[n])
  BY <1>4, <1>11
<1>14. ASSUME NEW v \in Value
       PROVE  /\ Limited[0][v] => Size(v) = 0
              /\ \A n \in Nat : Limited[n + 1][v] =>
                   Size(v) <= MaxElts /\ \A k \in 1..Size(v) : Limited[n][At(v, k)]
  <2>1. DOMAIN Items(v) = 1..Size(v) /\ Size(v) \in Nat
    BY ValueFacts
  <2>2. Limited[0][v] => Size(v) = 0
    <3>1. Limited[0][v] => 1..Size(v) = {}
      BY <1>12, <2>1 DEF none
    <3>2. 1..Size(v) = {} => ~(1 <= Size(v))
      BY <2>1
    <3> QED BY <2>1, <3>1, <3>2
  <2>3. ASSUME NEW n \in Nat, Limited[n + 1][v]
        PROVE  Size(v) <= MaxElts /\ \A k \in 1..Size(v) : Limited[n][At(v, k)]
    <3>1. LimitedStep(Limited[n])[v]
      BY <1>13, <2>3
    <3> QED BY <2>1, <3>1 DEF LimitedStep, Size, At
  <2> QED BY <2>2, <2>3
<1> QED BY <1>14

-------------------------------------------------------------------------------
(* Sameness is symmetric and transitive                                    *)

\* Each of n has its own partner in the other.
Partners(f, n) ==
  f \in [1..n -> 1..n] /\ \A i, j \in 1..n : f[i] = f[j] => i = j

\* What sameness of a level says of two values, in terms of the level below
SameSets(g, x, y) ==
  /\ Size(x) = Size(y)
  /\ \E f : Partners(f, Size(x))
            /\ \A i \in 1..Size(x) : g[<<At(x, i), At(y, f[i])>>]

SameRecords(g, x, y) ==
  /\ \A i \in 1..Size(x) : \E j \in 1..Size(y) : x.attrs[i].name = y.attrs[j].name
  /\ \A j \in 1..Size(y) : \E i \in 1..Size(x) : x.attrs[i].name = y.attrs[j].name
  /\ \A i \in 1..Size(x), j \in 1..Size(y) :
       x.attrs[i].name = y.attrs[j].name => g[<<At(x, i), At(y, j)>>]

SameBy(g, x, y) ==
  /\ x.type = y.type
  /\ x.type \notin {"SET", "RECORD"} => Identity(x) = Identity(y)
  /\ x.type = "SET" => SameSets(g, x, y)
  /\ x.type = "RECORD" => SameRecords(g, x, y)

LEMMA AlikeMeans ==
  ASSUME NEW x \in Value, NEW y \in Value, NEW g
  PROVE  Alike(Below(g, x, y), x, y) <=> SameBy(g, x, y)
<1> DEFINE m == Size(x)
           n == Size(y)
<1>1. /\ m \in Nat /\ n \in Nat
      /\ \A i \in 1..m, j \in 1..n : Below(g, x, y)[i][j] = g[<<At(x, i), At(y, j)>>]
  BY ValueFacts, BelowFacts
<1> HIDE DEF m, n
<1>2. CASE x.type = y.type /\ x.type = "SET"
  <2>1. x.elts = Items(x) /\ y.elts = Items(y)
        /\ DOMAIN x.elts = 1..m /\ DOMAIN y.elts = 1..n /\ Len(x.elts) = m /\ Len(y.elts) = n
    BY <1>2, ValueFacts DEF Size, m, n
  <2>2. SameElts(Below(g, x, y), x.elts, y.elts) <=> SameSets(g, x, y)
    <3> DEFINE own(f) == f \in [1..m -> 1..n] /\ \A i, j \in 1..m : f[i] = f[j] => i = j
               F(f) == own(f) /\ \A i \in 1..m : Below(g, x, y)[i][f[i]]
               G(f) == own(f) /\ \A i \in 1..m : g[<<At(x, i), At(y, f[i])>>]
    <3>1. SameElts(Below(g, x, y), x.elts, y.elts) <=> m = n /\ \E f : F(f)
      BY <2>1 DEF SameElts
    <3>2. SameSets(g, x, y) <=> m = n /\ \E f : G(f)
      BY DEF SameSets, Partners, m, n
    <3>3. ASSUME NEW f PROVE F(f) <=> G(f)
      <4> SUFFICES ASSUME f \in [1..m -> 1..n], NEW i \in 1..m
                   PROVE  Below(g, x, y)[i][f[i]] = g[<<At(x, i), At(y, f[i])>>]
        OBVIOUS
      <4> QED BY <1>1
    <3> HIDE DEF F, G
    <3> QED BY <3>1, <3>2, <3>3
  <2> QED BY <1>2, <2>2 DEF Alike, SameBy
<1>3. CASE x.type = y.type /\ x.type = "RECORD"
  <2>1. DOMAIN x.attrs = 1..m /\ DOMAIN y.attrs = 1..n
    BY <1>3, ValueFacts DEF m, n
  <2> DEFINE L == {x.attrs[i].name : i \in 1..m}
             R == {y.attrs[j].name : j \in 1..n}
  <2>2. SameAttrs(Below(g, x, y), x.attrs, y.attrs) <=>
          /\ L = R
          /\ \A i \in 1..m, j \in 1..n :
               x.attrs[i].name = y.attrs[j].name => g[<<At(x, i), At(y, j)>>]
    BY <1>1, <2>1 DEF SameAttrs
  <2>3. (L = R) <=>
          /\ \A i \in 1..m : \E j \in 1..n : x.attrs[i].name = y.attrs[j].name
          /\ \A j \in 1..n : \E i \in 1..m : x.attrs[i].name = y.attrs[j].name
    OBVIOUS
  <2> HIDE DEF L, R
  <2>4. SameAttrs(Below(g, x, y), x.attrs, y.attrs) <=> SameRecords(g, x, y)
    BY <2>2, <2>3 DEF SameRecords, m, n
  <2> QED BY <1>3, <2>4 DEF Alike, SameBy
<1>4. CASE x.type = y.type /\ x.type \notin {"SET", "RECORD"}
  BY <1>4 DEF Alike, SameBy
<1>5. CASE x.type # y.type
  BY <1>5 DEF Alike, SameBy
<1> QED BY <1>2, <1>3, <1>4, <1>5

LEMMA SameUnfolds ==
  \A n \in Nat : \A x, y \in Value : Same[n + 1][<<x, y>>] <=> SameBy(Same[n], x, y)
<1> SUFFICES ASSUME NEW n \in Nat, NEW x \in Value, NEW y \in Value
             PROVE  Same[n + 1][<<x, y>>] <=> SameBy(Same[n], x, y)
  OBVIOUS
<1>1. Same[n + 1][<<x, y>>] <=> Alike(Below(Same[n], x, y), x, y)
  BY SameSteps
<1> QED BY <1>1, AlikeMeans

(* Partners leave nobody without one.                                      *)
LEMMA PartnersCover ==
  ASSUME NEW n \in Nat, NEW f, Partners(f, n)
  PROVE  \A j \in 1..n : \E i \in 1..n : f[i] = j
<1> DEFINE taken == {f[i] : i \in 1..n}
<1>1. Pairs(f, n, n, taken)
  BY DEF Pairs, Partners
<1>2. taken = 1..n
  <2> HIDE DEF taken
  <2> QED BY <1>1, NoneFree
<1> QED BY <1>2

LEMMA SameSymmetric ==
  \A n \in Nat : \A x, y \in Value : Same[n][<<x, y>>] => Same[n][<<y, x>>]
<1> DEFINE P == {n \in Nat : \A x, y \in Value : Same[n][<<x, y>>] => Same[n][<<y, x>>]}
<1>1. 0 \in P
  BY SameSteps
<1>2. ASSUME NEW n \in Nat, n \in P PROVE n + 1 \in P
  <2> SUFFICES ASSUME NEW x \in Value, NEW y \in Value, SameBy(Same[n], x, y)
               PROVE  SameBy(Same[n], y, x)
    BY SameUnfolds
  <2>1. \A u, v \in Value : Same[n][<<u, v>>] => Same[n][<<v, u>>]
    BY <1>2
  <2>2. /\ Size(x) \in Nat /\ Size(y) \in Nat
        /\ \A i \in 1..Size(x) : At(x, i) \in Value
        /\ \A j \in 1..Size(y) : At(y, j) \in Value
    BY ValueFacts
  <2> HIDE DEF P
  <2>3. ASSUME x.type = "SET", SameSets(Same[n], x, y) PROVE SameSets(Same[n], y, x)
    <3> DEFINE m == Size(x)
    <3>1. PICK f : Partners(f, m) /\ \A i \in 1..m : Same[n][<<At(x, i), At(y, f[i])>>]
      BY <2>3 DEF SameSets
    <3>2. m = Size(y) /\ m \in Nat
      BY <2>2, <2>3 DEF SameSets
    <3> HIDE DEF m
    <3> DEFINE h == [j \in 1..m |-> CHOOSE i \in 1..m : f[i] = j]
    <3>3. \A j \in 1..m : h[j] \in 1..m /\ f[h[j]] = j
      BY <3>1, <3>2, PartnersCover
    <3>4. Partners(h, m)
      <4>1. h = [j \in 1..m |-> h[j]]
        OBVIOUS
      <4> HIDE DEF h
      <4>2. \A i, j \in 1..m : h[i] = h[j] => i = j
        BY <3>3
      <4> QED BY <3>3, <4>1, <4>2 DEF Partners
    <3> HIDE DEF h
    <3>5. ASSUME NEW j \in 1..m PROVE Same[n][<<At(y, j), At(x, h[j])>>]
      <4>1. h[j] \in 1..m /\ f[h[j]] = j
        BY <3>3
      <4>2. Same[n][<<At(x, h[j]), At(y, j)>>]
        BY <3>1, <4>1
      <4>3. At(x, h[j]) \in Value /\ At(y, j) \in Value
        BY <2>2, <3>2, <4>1 DEF m
      <4> QED BY <2>1, <4>2, <4>3
    <3> QED BY <3>2, <3>4, <3>5 DEF SameSets, m
  <2>4. ASSUME SameRecords(Same[n], x, y) PROVE SameRecords(Same[n], y, x)
    BY <2>1, <2>2, <2>4 DEF SameRecords
  <2> QED BY <2>3, <2>4 DEF SameBy
<1>3. Nat \subseteq P
  <2> HIDE DEF P
  <2> QED BY <1>1, <1>2, Induction
<1> QED BY <1>3

LEMMA SameTransitive ==
  \A n \in Nat : \A x, y, z \in Value :
    Same[n][<<x, y>>] /\ Same[n][<<y, z>>] => Same[n][<<x, z>>]
<1> DEFINE P == {n \in Nat : \A x, y, z \in Value :
                   Same[n][<<x, y>>] /\ Same[n][<<y, z>>] => Same[n][<<x, z>>]}
<1>1. 0 \in P
  BY SameSteps
<1>2. ASSUME NEW n \in Nat, n \in P PROVE n + 1 \in P
  <2> SUFFICES ASSUME NEW x \in Value, NEW y \in Value, NEW z \in Value,
                      SameBy(Same[n], x, y), SameBy(Same[n], y, z)
               PROVE  SameBy(Same[n], x, z)
    BY SameUnfolds
  <2>1. \A u, v, w \in Value :
          Same[n][<<u, v>>] /\ Same[n][<<v, w>>] => Same[n][<<u, w>>]
    BY <1>2
  <2>2. /\ \A i \in 1..Size(x) : At(x, i) \in Value
        /\ \A j \in 1..Size(y) : At(y, j) \in Value
        /\ \A k \in 1..Size(z) : At(z, k) \in Value
    BY ValueFacts
  <2> HIDE DEF P
  <2>3. ASSUME SameSets(Same[n], x, y), SameSets(Same[n], y, z)
        PROVE  SameSets(Same[n], x, z)
    <3> DEFINE m == Size(x)
    <3>1. PICK f : Partners(f, m) /\ \A i \in 1..m : Same[n][<<At(x, i), At(y, f[i])>>]
      BY <2>3 DEF SameSets
    <3>2. m = Size(y) /\ m = Size(z)
      BY <2>3 DEF SameSets
    <3>3. PICK h : Partners(h, m) /\ \A j \in 1..m : Same[n][<<At(y, j), At(z, h[j])>>]
      BY <2>3, <3>2 DEF SameSets
    <3> HIDE DEF m
    <3> DEFINE e == [i \in 1..m |-> h[f[i]]]
    <3>4. Partners(e, m)
      BY <3>1, <3>3 DEF Partners
    <3>5. ASSUME NEW i \in 1..m PROVE Same[n][<<At(x, i), At(z, e[i])>>]
      <4>1. f[i] \in 1..m /\ h[f[i]] \in 1..m /\ e[i] = h[f[i]]
        BY <3>1, <3>3 DEF Partners
      <4>2. Same[n][<<At(x, i), At(y, f[i])>>] /\ Same[n][<<At(y, f[i]), At(z, e[i])>>]
        BY <3>1, <3>3, <4>1
      <4>3. At(x, i) \in Value /\ At(y, f[i]) \in Value /\ At(z, e[i]) \in Value
        BY <2>2, <3>2, <4>1 DEF m
      <4> HIDE DEF e
      <4> QED BY <2>1, <4>2, <4>3
    <3> HIDE DEF e
    <3> QED BY <3>2, <3>4, <3>5 DEF SameSets, m
  <2>4. ASSUME SameRecords(Same[n], x, y), SameRecords(Same[n], y, z)
        PROVE  SameRecords(Same[n], x, z)
    <3>1. ASSUME NEW i \in 1..Size(x), NEW k \in 1..Size(z),
                 x.attrs[i].name = z.attrs[k].name
          PROVE  Same[n][<<At(x, i), At(z, k)>>]
      <4>1. PICK j \in 1..Size(y) : x.attrs[i].name = y.attrs[j].name
        BY <2>4 DEF SameRecords
      <4>2. Same[n][<<At(x, i), At(y, j)>>] /\ Same[n][<<At(y, j), At(z, k)>>]
        BY <2>4, <3>1, <4>1 DEF SameRecords
      <4> QED BY <2>1, <2>2, <4>2
    <3>2. \A i \in 1..Size(x) : \E k \in 1..Size(z) : x.attrs[i].name = z.attrs[k].name
      BY <2>4 DEF SameRecords
    <3>3. \A k \in 1..Size(z) : \E i \in 1..Size(x) : x.attrs[i].name = z.attrs[k].name
      BY <2>4 DEF SameRecords
    <3> QED BY <3>1, <3>2, <3>3 DEF SameRecords
  <2> QED BY <2>3, <2>4 DEF SameBy
<1>3. Nat \subseteq P
  <2> HIDE DEF P
  <2> QED BY <1>1, <1>2, Induction
<1> QED BY <1>3

(* More levels than a value has say nothing more of it.                    *)
LEMMA SameStable ==
  \A m \in Nat : \A x \in OfHeight[m] : \A y \in Value, h \in Nat :
    x \in Value /\ m <= h => (Same[h + 1][<<x, y>>] <=> Same[(h + 1) + 1][<<x, y>>])
<1> DEFINE Stays(m, x) == \A y \in Value, h \in Nat :
             m <= h => (Same[h + 1][<<x, y>>] <=> Same[(h + 1) + 1][<<x, y>>])
           P == {m \in Nat : \A x \in OfHeight[m] : x \in Value => Stays(m, x)}
<1>1. 0 \in P
  <2> SUFFICES ASSUME NEW x \in OfHeight[0], x \in Value, NEW y \in Value, NEW h \in Nat
               PROVE  Same[h + 1][<<x, y>>] <=> Same[(h + 1) + 1][<<x, y>>]
    OBVIOUS
  <2>1. x.type \notin {"SET", "RECORD"}
    BY LevelSteps, ScalarAssumption
  <2>2. h + 1 \in Nat
    OBVIOUS
  <2>3. \A n \in Nat : Same[n + 1][<<x, y>>] <=> SameBy(Same[n], x, y)
    BY SameUnfolds
  <2> QED BY <2>1, <2>2, <2>3 DEF SameBy
<1>2. ASSUME NEW m \in Nat, m \in P PROVE m + 1 \in P
  <2> SUFFICES ASSUME NEW x \in OfHeight[m + 1], x \in Value, NEW y \in Value,
                      NEW h \in Nat, m + 1 <= h
               PROVE  Same[h + 1][<<x, y>>] <=> Same[(h + 1) + 1][<<x, y>>]
    OBVIOUS
  <2>1. Items(x) \in Seq(OfHeight[m]) /\ DOMAIN Items(x) = 1..Size(x)
    BY ItemsLower, ValueFacts
  <2>2. \A i \in 1..Size(x) : At(x, i) \in OfHeight[m] /\ At(x, i) \in Value
    <3>1. \A i \in 1..Size(x) : Items(x)[i] \in OfHeight[m]
      BY <2>1, SeqFacts
    <3> QED BY <3>1, ValueFacts DEF At
  <2>3. \A j \in 1..Size(y) : At(y, j) \in Value
    BY ValueFacts
  <2>4. h - 1 \in Nat /\ (h - 1) + 1 = h /\ m <= h - 1 /\ h + 1 \in Nat
    OBVIOUS
  <2>5. ASSUME NEW i \in 1..Size(x), NEW j \in 1..Size(y)
        PROVE  Same[h][<<At(x, i), At(y, j)>>] <=> Same[h + 1][<<At(x, i), At(y, j)>>]
    <3>1. Stays(m, At(x, i))
      <4> HIDE DEF Stays
      <4> QED BY <1>2, <2>2
    <3>2. \A k \in Nat : m <= k =>
            (Same[k + 1][<<At(x, i), At(y, j)>>] <=> Same[(k + 1) + 1][<<At(x, i), At(y, j)>>])
      BY <2>3, <3>1
    <3> HIDE DEF Stays, P
    <3> QED BY <2>4, <3>2
  <2> HIDE DEF Stays, P
  <2>6. Size(x) = Size(y) => (SameSets(Same[h], x, y) <=> SameSets(Same[h + 1], x, y))
    <3> DEFINE n == Size(x)
               F(f) == Partners(f, n) /\ \A i \in 1..n : Same[h][<<At(x, i), At(y, f[i])>>]
               G(f) == Partners(f, n) /\ \A i \in 1..n : Same[h + 1][<<At(x, i), At(y, f[i])>>]
    <3> SUFFICES ASSUME n = Size(y)
                 PROVE  SameSets(Same[h], x, y) <=> SameSets(Same[h + 1], x, y)
      OBVIOUS
    <3>1. SameSets(Same[h], x, y) <=> \E f : F(f)
      BY DEF SameSets
    <3>2. SameSets(Same[h + 1], x, y) <=> \E f : G(f)
      BY DEF SameSets
    <3>3. ASSUME NEW f PROVE F(f) <=> G(f)
      <4> SUFFICES ASSUME Partners(f, n), NEW i \in 1..n
                   PROVE  Same[h][<<At(x, i), At(y, f[i])>>]
                            <=> Same[h + 1][<<At(x, i), At(y, f[i])>>]
        OBVIOUS
      <4>1. f[i] \in 1..Size(y)
        BY DEF Partners
      <4> QED BY <2>5, <4>1
    <3> HIDE DEF F, G
    <3> QED BY <3>1, <3>2, <3>3
  <2>7. SameRecords(Same[h], x, y) <=> SameRecords(Same[h + 1], x, y)
    BY <2>5 DEF SameRecords
  <2>8. SameBy(Same[h], x, y) <=> SameBy(Same[h + 1], x, y)
    BY <2>6, <2>7 DEF SameBy, SameSets
  <2> QED BY <2>4, <2>8, SameUnfolds
<1>3. Nat \subseteq P
  <2> HIDE DEF P
  <2> QED BY <1>1, <1>2, Induction
<1> QED BY <1>3

\* The levels that suffice for every value
Whole == Same[MaxHeight + 1]

LEMMA WholeUnfolds ==
  \A x, y \in Value : Whole[<<x, y>>] <=> SameBy(Whole, x, y)
<1> SUFFICES ASSUME NEW x \in Value, NEW y \in Value
             PROVE  Whole[<<x, y>>] <=> SameBy(Whole, x, y)
  OBVIOUS
<1>1. MaxHeight \in Nat /\ MaxHeight + 1 \in Nat /\ MaxHeight <= MaxHeight
  BY LimitsAssumption
<1>2. x \in OfHeight[MaxHeight]
  BY DEF Value
<1>3. Same[MaxHeight + 1][<<x, y>>] <=> Same[(MaxHeight + 1) + 1][<<x, y>>]
  BY <1>1, <1>2, SameStable
<1>4. Same[(MaxHeight + 1) + 1][<<x, y>>] <=> SameBy(Same[MaxHeight + 1], x, y)
  BY <1>1, SameUnfolds
<1> QED BY <1>3, <1>4 DEF Whole

LEMMA WholeAgrees ==
  /\ \A x, y \in Value : Whole[<<x, y>>] \in BOOLEAN
  /\ \A x, y \in Value : Whole[<<x, y>>] => Whole[<<y, x>>]
  /\ \A x, y, z \in Value : Whole[<<x, y>>] /\ Whole[<<y, z>>] => Whole[<<x, z>>]
<1>1. MaxHeight + 1 \in Nat
  BY LimitsAssumption
<1>2. Whole \in [Value \X Value -> BOOLEAN]
  BY <1>1, SameSteps DEF Whole
<1> QED BY <1>1, <1>2, SameSymmetric, SameTransitive DEF Whole

LEMMA WholeBlocks ==
  ASSUME NEW x \in Value, NEW y \in Value, Size(x) = Size(y)
  PROVE  Blocks(Below(Whole, x, y), Size(x))
<1> DEFINE n == Size(x)
<1>1. /\ \A i \in 1..n : At(x, i) \in Value /\ At(y, i) \in Value
      /\ \A i, j \in 1..n : Below(Whole, x, y)[i][j] = Whole[<<At(x, i), At(y, j)>>]
  BY ValueFacts, BelowFacts
<1> HIDE DEF n
<1>2. ASSUME NEW i \in 1..n, NEW j \in 1..n, NEW k \in 1..n, NEW l \in 1..n,
             Whole[<<At(x, i), At(y, j)>>], Whole[<<At(x, k), At(y, j)>>],
             Whole[<<At(x, k), At(y, l)>>]
      PROVE  Whole[<<At(x, i), At(y, l)>>]
  <2>1. Whole[<<At(y, j), At(x, k)>>]
    BY <1>1, <1>2, WholeAgrees
  <2>2. Whole[<<At(x, i), At(x, k)>>]
    BY <1>1, <1>2, <2>1, WholeAgrees
  <2> QED BY <1>1, <1>2, <2>2, WholeAgrees
<1> QED BY <1>1, <1>2 DEF Blocks, n

-------------------------------------------------------------------------------
(* The answers                                                             *)

(* Different names in different places: there are no more of them on one   *)
(* side than on the other.                                                 *)
LEMMA NoMore ==
  ASSUME NEW m \in Nat, NEW n \in Nat, NEW f \in [1..m -> 1..n],
         \A i, j \in 1..m : f[i] = f[j] => i = j
  PROVE  m <= n
<1> SUFFICES ASSUME n < m PROVE FALSE
  OBVIOUS
<1> DEFINE M == 1..m
           N == 1..n
<1>1. /\ IsFiniteSet(M) /\ Cardinality(M) = m
      /\ IsFiniteSet(N) /\ Cardinality(N) = n
  BY FS_Interval
<1>2. \E i, j \in M : i # j /\ f[i] = f[j]
  <2>1. f \in [M -> N] /\ Cardinality(N) < Cardinality(M)
    BY <1>1
  <2> HIDE DEF M, N
  <2> QED BY <1>1, <2>1, FS_PigeonHole
<1> QED BY <1>2

LEMMA RecordsAsLong ==
  ASSUME NEW x \in Value, NEW y \in Value, x.type = "RECORD", y.type = "RECORD",
         NEW g, SameRecords(g, x, y)
  PROVE  Size(x) = Size(y)
<1> DEFINE m == Size(x)
           n == Size(y)
           f == [i \in 1..m |-> CHOOSE j \in 1..n : x.attrs[i].name = y.attrs[j].name]
           h == [j \in 1..n |-> CHOOSE i \in 1..m : x.attrs[i].name = y.attrs[j].name]
<1>1. /\ m \in Nat /\ n \in Nat
      /\ \A i, j \in 1..m : x.attrs[i].name = x.attrs[j].name => i = j
      /\ \A i, j \in 1..n : y.attrs[i].name = y.attrs[j].name => i = j
  BY ValueFacts
<1>2. /\ \A i \in 1..m : \E j \in 1..n : x.attrs[i].name = y.attrs[j].name
      /\ \A j \in 1..n : \E i \in 1..m : x.attrs[i].name = y.attrs[j].name
  BY DEF SameRecords
<1> HIDE DEF m, n
<1>3. \A i \in 1..m : f[i] \in 1..n /\ x.attrs[i].name = y.attrs[f[i]].name
  BY <1>2
<1>4. \A j \in 1..n : h[j] \in 1..m /\ x.attrs[h[j]].name = y.attrs[j].name
  BY <1>2
<1>5. f = [i \in 1..m |-> f[i]] /\ h = [j \in 1..n |-> h[j]]
  OBVIOUS
<1> HIDE DEF f, h
<1>6. f \in [1..m -> 1..n] /\ \A i, j \in 1..m : f[i] = f[j] => i = j
  BY <1>1, <1>3, <1>5
<1>7. h \in [1..n -> 1..m] /\ \A i, j \in 1..n : h[i] = h[j] => i = j
  <2>1. ASSUME NEW i \in 1..n, NEW j \in 1..n, h[i] = h[j] PROVE i = j
    <3>1. y.attrs[i].name = y.attrs[j].name
      BY <1>4, <2>1
    <3> QED BY <1>1, <3>1
  <2>2. h \in [1..n -> 1..m]
    BY <1>4, <1>5
  <2> QED BY <2>1, <2>2
<1>8. m <= n /\ n <= m
  BY <1>1, <1>6, <1>7, NoMore
<1> QED BY <1>1, <1>8 DEF m, n

(* Without an error among the outcomes there is none of the loop.          *)
LEMMA NoErrorArises ==
  ASSUME NEW m \in Nat, NEW outcomes \in Seq(Row(m)),
         \A i \in 1..Len(outcomes), j \in 1..m : outcomes[i][j] # "error"
  PROVE  Paired(outcomes) # "error"
<1> DEFINE acc == Pairing(outcomes)
           n == Len(outcomes)
           P == {k \in Nat : k <= n => acc[k].result # "error"}
<1>1. /\ n \in Nat
      /\ \A k \in 0..n : acc[k] \in Progress(m)
      /\ acc[0] = Started
      /\ \A k \in 1..n : acc[k] = NextItem(outcomes[k], acc[k - 1])
      /\ \A k \in 1..n : outcomes[k] \in Row(m)
  BY PairingSteps, SeqFacts
<1>2. Paired(outcomes) = acc[n].result
  BY DEF Paired
<1>3. \A i \in 1..n, j \in 1..m : outcomes[i][j] # "error"
  OBVIOUS
<1> HIDE DEF acc, n
<1>4. 0 \in P
  BY <1>1 DEF Started
<1>5. ASSUME NEW k \in Nat, k \in P PROVE k + 1 \in P
  <2> SUFFICES ASSUME k + 1 <= n PROVE acc[k + 1].result # "error"
    OBVIOUS
  <2>1. k \in 0..n /\ k + 1 \in 1..n /\ (k + 1) - 1 = k /\ acc[k].result # "error"
    BY <1>1, <1>5
  <2>2. /\ acc[k] \in Progress(m) /\ outcomes[k + 1] \in Row(m)
        /\ acc[k + 1] = NextItem(outcomes[k + 1], acc[k])
        /\ \A j \in 1..m : outcomes[k + 1][j] # "error"
    <3>1. \A l \in 1..n : acc[l] = NextItem(outcomes[l], acc[l - 1])
      BY <1>1
    <3> QED BY <1>1, <1>3, <2>1, <3>1
  <2> QED BY <2>1, <2>2, NextItemFacts
<1>6. Nat \subseteq P
  <2> HIDE DEF P
  <2> QED BY <1>4, <1>5, Induction
<1> QED BY <1>1, <1>2, <1>6

\* What the calls with so many levels left answer is right.
RightAt(answers, x, y) ==
  \A i \in 1..Size(x), j \in 1..Size(y) :
    answers[i][j] \in {"error", Answer(Whole[<<At(x, i), At(y, j)>>])}

LEMMA SetsRight ==
  ASSUME NEW x \in Value, NEW y \in Value, x.type = "SET", y.type = "SET",
         Size(x) = Size(y), NEW answers, Answered(answers, x, y), RightAt(answers, x, y)
  PROVE  Paired(Outcomes(answers, x, y)) \in {"error", Answer(SameSets(Whole, x, y))}
<1> DEFINE n == Size(x)
           same == Below(Whole, x, y)
           O == Outcomes(answers, x, y)
<1>1. n \in Nat /\ \A i \in 1..n : At(x, i) \in Value /\ At(y, i) \in Value
  BY ValueFacts
<1>2. \A i, j \in 1..n : same[i][j] = Whole[<<At(x, i), At(y, j)>>]
  BY BelowFacts
<1>3. Blocks(same, n)
  BY WholeBlocks
<1>4. /\ O \in Seq(Row(n)) /\ Len(O) = n
      /\ \A i, j \in 1..n : O[i][j] = Outcome(x, y, i, j, answers[i][j])
  BY OutcomesFacts
<1>5. ASSUME NEW i \in 1..n, NEW j \in 1..n
      PROVE  O[i][j] \in {"error", IF same[i][j] THEN "yes" ELSE "pass"}
  <2>1. answers[i][j] \in {"error", Answer(Whole[<<At(x, i), At(y, j)>>])}
    BY DEF RightAt
  <2>2. O[i][j] = IF answers[i][j] = "no" THEN "pass" ELSE answers[i][j]
    BY <1>4 DEF Outcome
  <2> HIDE DEF n, same, O
  <2> QED BY <1>2, <2>1, <2>2 DEF Answer
<1> HIDE DEF same, O
<1>6. /\ Paired(O) \in Results
      /\ Paired(O) = "yes" => AllPaired(same, n)
      /\ Paired(O) = "no" => ~AllPaired(same, n)
  BY <1>1, <1>3, <1>4, <1>5, SetLoop
<1>7. AllPaired(same, n) <=> SameSets(Whole, x, y)
  <2> DEFINE F(f) == Partners(f, n) /\ \A i \in 1..n : same[i][f[i]]
             G(f) == Partners(f, n) /\ \A i \in 1..n : Whole[<<At(x, i), At(y, f[i])>>]
  <2>1. AllPaired(same, n) <=> \E f : F(f)
    BY DEF AllPaired, Pairs, Partners
  <2>2. SameSets(Whole, x, y) <=> \E f : G(f)
    BY DEF SameSets
  <2>3. ASSUME NEW f PROVE F(f) <=> G(f)
    <3> SUFFICES ASSUME Partners(f, n), NEW i \in 1..n
                 PROVE  same[i][f[i]] = Whole[<<At(x, i), At(y, f[i])>>]
      OBVIOUS
    <3>1. f[i] \in 1..n
      BY DEF Partners
    <3> QED BY <1>2, <3>1
  <2> HIDE DEF F, G
  <2> QED BY <2>1, <2>2, <2>3
<1> QED BY <1>6, <1>7 DEF Results, Answer, O

LEMMA RecordsRight ==
  ASSUME NEW x \in Value, NEW y \in Value, x.type = "RECORD", y.type = "RECORD",
         Size(x) = Size(y), NEW answers, Answered(answers, x, y), RightAt(answers, x, y)
  PROVE  Paired(Outcomes(answers, x, y)) \in {"error", Answer(SameRecords(Whole, x, y))}
<1> DEFINE n == Size(x)
           same == Below(Whole, x, y)
           O == Outcomes(answers, x, y)
           A == [i \in 1..n |-> x.attrs[i].name]
           B == [j \in 1..n |-> y.attrs[j].name]
<1>1. /\ n \in Nat
      /\ \A i, j \in 1..n : x.attrs[i].name = x.attrs[j].name => i = j
      /\ \A i, j \in 1..n : y.attrs[i].name = y.attrs[j].name => i = j
  BY ValueFacts
<1>2. \A i, j \in 1..n : same[i][j] = Whole[<<At(x, i), At(y, j)>>]
  BY BelowFacts
<1>3. \A i \in 1..n : A[i] = x.attrs[i].name /\ B[i] = y.attrs[i].name
  OBVIOUS
<1>4. /\ O \in Seq(Row(n)) /\ Len(O) = n
      /\ \A i, j \in 1..n : O[i][j] = Outcome(x, y, i, j, answers[i][j])
  BY OutcomesFacts
<1> HIDE DEF A, B
<1>5. ByName(O, A, B, same, n)
  <2> SUFFICES ASSUME NEW i \in 1..n, NEW j \in 1..n
               PROVE  O[i][j] \in IF A[i] = B[j]
                                  THEN {"error", IF same[i][j] THEN "yes" ELSE "no"}
                                  ELSE {"pass"}
    BY DEF ByName
  <2>1. answers[i][j] \in {"error", Answer(Whole[<<At(x, i), At(y, j)>>])}
    BY DEF RightAt
  <2>2. O[i][j] = IF A[i] = B[j] THEN answers[i][j] ELSE "pass"
    BY <1>3, <1>4 DEF Outcome
  <2> HIDE DEF n, same, O
  <2> QED BY <1>2, <2>1, <2>2 DEF Answer
<1> HIDE DEF same, O
<1>6. /\ \A i, j \in 1..n : A[i] = A[j] => i = j
      /\ \A i, j \in 1..n : B[i] = B[j] => i = j
  BY <1>1, <1>3
<1>7. /\ Paired(O) \in Results
      /\ Paired(O) = "yes" => Matching(A, B, same, n)
      /\ Paired(O) = "no" => ~Matching(A, B, same, n)
  BY <1>1, <1>4, <1>5, <1>6, RecordLoop
<1>8. Matching(A, B, same, n) <=> SameRecords(Whole, x, y)
  <2>1. n = Size(y)
    OBVIOUS
  <2> HIDE DEF n
  <2> DEFINE named(i, j) == x.attrs[i].name = y.attrs[j].name
             whole(i, j) == Whole[<<At(x, i), At(y, j)>>]
  <2>2. SameRecords(Whole, x, y) <=>
          /\ \A i \in 1..n : \E j \in 1..n : named(i, j)
          /\ \A j \in 1..n : \E i \in 1..n : named(i, j)
          /\ \A i, j \in 1..n : named(i, j) => whole(i, j)
    BY <2>1 DEF SameRecords, n
  <2>3. \A i, j \in 1..n : (A[i] = B[j] <=> named(i, j)) /\ (same[i][j] <=> whole(i, j))
    BY <1>2, <1>3
  <2> HIDE DEF named, whole
  <2>4. /\ (\A i \in 1..n : \E j \in 1..n : A[i] = B[j])
             <=> (\A i \in 1..n : \E j \in 1..n : named(i, j))
        /\ (\A j \in 1..n : \E i \in 1..n : A[i] = B[j])
             <=> (\A j \in 1..n : \E i \in 1..n : named(i, j))
    BY <2>3
  <2>5. (\A i, j \in 1..n : A[i] = B[j] => same[i][j])
           <=> (\A i, j \in 1..n : named(i, j) => whole(i, j))
    BY <2>3
  <2> QED BY <2>2, <2>4, <2>5 DEF Matching
<1> QED BY <1>7, <1>8 DEF Results, Answer, O

(* Whatever a call answers is right, if what it is answered is.            *)
LEMMA ComparedRight ==
  ASSUME NEW x \in Value, NEW y \in Value,
         NEW answers, Answered(answers, x, y), RightAt(answers, x, y)
  PROVE  Compared(answers, x, y) \in {"error", Answer(Whole[<<x, y>>])}
<1> DEFINE C == Compared(answers, x, y)
<1>1. Whole[<<x, y>>] <=> SameBy(Whole, x, y)
  BY WholeUnfolds
<1>6. x.type = y.type /\ x.type \in {"SET", "RECORD"} /\ Size(x) = Size(y) =>
        C = "error" \/ C = Paired(Outcomes(answers, x, y))
  BY ComparedFacts
<1>2. CASE x.type # y.type
  BY <1>1, <1>2, ComparedFacts DEF SameBy, Answer
<1>3. CASE x.type = y.type /\ x.type \notin {"SET", "RECORD"}
  <2>1. C = Answer(Identity(x) = Identity(y))
    BY <1>3, ComparedFacts
  <2>2. Whole[<<x, y>>] <=> Identity(x) = Identity(y)
    BY <1>1, <1>3 DEF SameBy
  <2> QED BY <2>1, <2>2 DEF Answer
<1>4. CASE x.type = y.type /\ x.type = "SET"
  <2>1. Whole[<<x, y>>] <=> SameSets(Whole, x, y)
    BY <1>1, <1>4 DEF SameBy
  <2>2. CASE Size(x) # Size(y)
    BY <1>4, <2>1, <2>2, ComparedFacts DEF SameSets, Answer
  <2>3. CASE Size(x) = Size(y)
    <3>1. C = "error" \/ C = Paired(Outcomes(answers, x, y))
      BY <1>4, <1>6, <2>3
    <3>2. Paired(Outcomes(answers, x, y)) \in {"error", Answer(SameSets(Whole, x, y))}
      BY <1>4, <2>3, SetsRight
    <3> QED BY <2>1, <3>1, <3>2 DEF Answer
  <2> QED BY <2>2, <2>3
<1>5. CASE x.type = y.type /\ x.type = "RECORD"
  <2>1. Whole[<<x, y>>] <=> SameRecords(Whole, x, y)
    BY <1>1, <1>5 DEF SameBy
  <2>2. CASE Size(x) # Size(y)
    <3>1. ~SameRecords(Whole, x, y)
      BY <1>5, <2>2, RecordsAsLong
    <3> QED BY <1>5, <2>1, <2>2, <3>1, ComparedFacts DEF Answer
  <2>3. CASE Size(x) = Size(y)
    <3>1. C = "error" \/ C = Paired(Outcomes(answers, x, y))
      BY <1>5, <1>6, <2>3
    <3>2. Paired(Outcomes(answers, x, y)) \in {"error", Answer(SameRecords(Whole, x, y))}
      BY <1>5, <2>3, RecordsRight
    <3> QED BY <2>1, <3>1, <3>2 DEF Answer
  <2> QED BY <2>2, <2>3
<1> QED BY <1>2, <1>3, <1>4, <1>5

LEMMA EqualsRight ==
  \A left \in Nat : \A x, y \in Value :
    EqualsWithin[left][<<x, y>>] \in {"error", Answer(Whole[<<x, y>>])}
<1> DEFINE P == {left \in Nat : \A x, y \in Value :
                   EqualsWithin[left][<<x, y>>] \in {"error", Answer(Whole[<<x, y>>])}}
<1>1. 0 \in P
  BY EqualsSteps
<1>2. ASSUME NEW left \in Nat, left \in P PROVE left + 1 \in P
  <2> SUFFICES ASSUME NEW x \in Value, NEW y \in Value
               PROVE  EqualsWithin[left + 1][<<x, y>>] \in {"error", Answer(Whole[<<x, y>>])}
    OBVIOUS
  <2> DEFINE answers == Below(EqualsWithin[left], x, y)
  <2>1. Answered(answers, x, y)
    BY EqualsSteps, BelowAnswers
  <2>2. RightAt(answers, x, y)
    <3>1. \A i \in 1..Size(x), j \in 1..Size(y) :
            answers[i][j] = EqualsWithin[left][<<At(x, i), At(y, j)>>]
      <4> HIDE DEF P
      <4> QED BY BelowFacts
    <3>2. \A u, v \in Value :
            EqualsWithin[left][<<u, v>>] \in {"error", Answer(Whole[<<u, v>>])}
      BY <1>2
    <3>3. /\ \A i \in 1..Size(x) : At(x, i) \in Value
          /\ \A j \in 1..Size(y) : At(y, j) \in Value
      BY ValueFacts
    <3> HIDE DEF answers, P
    <3> QED BY <3>1, <3>2, <3>3 DEF RightAt
  <2>3. EqualsWithin[left + 1][<<x, y>>] = Compared(answers, x, y)
    BY EqualsSteps
  <2> HIDE DEF answers, P
  <2> QED BY <2>1, <2>2, <2>3, ComparedRight
<1>3. Nat \subseteq P
  <2> HIDE DEF P
  <2> QED BY <1>1, <1>2, Induction
<1> QED BY <1>3

(* A comparison within the limits on one of its sides does not err.        *)
LEMMA ComparedTotal ==
  ASSUME NEW x \in Value, NEW y \in Value, NEW answers, Answered(answers, x, y),
         Size(x) <= MaxElts \/ Size(y) <= MaxElts,
         \A i \in 1..Size(x), j \in 1..Size(y) : answers[i][j] # "error"
  PROVE  Compared(answers, x, y) # "error"
<1>1. CASE x.type = y.type /\ x.type \in {"SET", "RECORD"} /\ Size(x) = Size(y)
  <2> DEFINE O == Outcomes(answers, x, y)
             n == Size(x)
  <2>1. n \in Nat /\ ~(n > MaxElts)
    BY <1>1, ValueFacts, LimitsAssumption
  <2>2. /\ O \in Seq(Row(n)) /\ Len(O) = n
        /\ \A i, j \in 1..n : O[i][j] = Outcome(x, y, i, j, answers[i][j])
    BY <1>1, OutcomesFacts
  <2>3. ASSUME NEW i \in 1..n, NEW j \in 1..n PROVE O[i][j] # "error"
    <3>1. answers[i][j] # "error"
      BY <1>1
    <3>2. O[i][j] = Outcome(x, y, i, j, answers[i][j])
      BY <2>2
    <3> HIDE DEF O
    <3> QED BY <3>1, <3>2 DEF Outcome
  <2>4. Compared(answers, x, y) = Paired(O)
    <3> HIDE DEF O
    <3> QED BY <1>1, <2>1, ComparedFacts DEF O
  <2> HIDE DEF O, n
  <2> QED BY <2>1, <2>2, <2>3, <2>4, NoErrorArises
<1>2. CASE x.type # y.type
  BY <1>2, ComparedFacts
<1>3. CASE x.type = y.type /\ x.type \notin {"SET", "RECORD"}
  BY <1>3, ComparedFacts DEF Answer
<1>4. CASE x.type = y.type /\ x.type \in {"SET", "RECORD"} /\ Size(x) # Size(y)
  BY <1>4, ComparedFacts
<1> QED BY <1>1, <1>2, <1>3, <1>4

LEMMA EqualsTotal ==
  \A n \in Nat : \A x, y \in Value :
    Limited[n][x] \/ Limited[n][y] => EqualsWithin[n + 1][<<x, y>>] # "error"
<1> DEFINE Total(n) == \A x, y \in Value :
             Limited[n][x] \/ Limited[n][y] => EqualsWithin[n + 1][<<x, y>>] # "error"
           P == {n \in Nat : Total(n)}
<1>1. ASSUME NEW n \in Nat, n = 0 \/ (n - 1 \in Nat /\ Total(n - 1)) PROVE Total(n)
  <2> SUFFICES ASSUME NEW x \in Value, NEW y \in Value, Limited[n][x] \/ Limited[n][y]
               PROVE  EqualsWithin[n + 1][<<x, y>>] # "error"
    OBVIOUS
  <2> DEFINE answers == Below(EqualsWithin[n], x, y)
  <2>1. Answered(answers, x, y)
    BY EqualsSteps, BelowAnswers
  <2>2. EqualsWithin[n + 1][<<x, y>>] = Compared(answers, x, y)
    BY EqualsSteps
  <2>3. /\ Size(x) \in Nat /\ Size(y) \in Nat
        /\ \A i \in 1..Size(x) : At(x, i) \in Value
        /\ \A j \in 1..Size(y) : At(y, j) \in Value
    BY ValueFacts
  <2>4. \A i \in 1..Size(x), j \in 1..Size(y) :
          answers[i][j] = EqualsWithin[n][<<At(x, i), At(y, j)>>]
    <3> HIDE DEF P, Total
    <3> QED BY BelowFacts
  <2> HIDE DEF answers
  <2>5. CASE n = 0
    <3>1. Size(x) = 0 \/ Size(y) = 0
      BY <2>5, LimitedSteps
    <3>2. Size(x) <= MaxElts \/ Size(y) <= MaxElts
      BY <3>1, LimitsAssumption
    <3>3. \A i \in 1..Size(x), j \in 1..Size(y) : answers[i][j] # "error"
      BY <3>1
    <3> QED BY <2>1, <2>2, <3>2, <3>3, ComparedTotal
  <2>6. CASE n # 0
    <3>1. n - 1 \in Nat /\ (n - 1) + 1 = n /\ Total(n - 1)
      BY <1>1, <2>6
    <3>2. \A u, v \in Value :
            Limited[n - 1][u] \/ Limited[n - 1][v] => EqualsWithin[n][<<u, v>>] # "error"
      BY <3>1
    <3>3. \A v \in Value : Limited[n][v] =>
            Size(v) <= MaxElts /\ \A k \in 1..Size(v) : Limited[n - 1][At(v, k)]
      <4>1. \A v \in Value : Limited[(n - 1) + 1][v] =>
              Size(v) <= MaxElts /\ \A k \in 1..Size(v) : Limited[n - 1][At(v, k)]
        BY <3>1, LimitedSteps
      <4> QED BY <3>1, <4>1
    <3> HIDE DEF P, Total
    <3>4. Size(x) <= MaxElts \/ Size(y) <= MaxElts
      BY <3>3
    <3>5. ASSUME NEW i \in 1..Size(x), NEW j \in 1..Size(y) PROVE answers[i][j] # "error"
      <4>1. Limited[n - 1][At(x, i)] \/ Limited[n - 1][At(y, j)]
        BY <3>3
      <4>2. At(x, i) \in Value /\ At(y, j) \in Value
        BY <2>3
      <4>3. EqualsWithin[n][<<At(x, i), At(y, j)>>] # "error"
        BY <3>2, <4>1, <4>2
      <4> QED BY <2>4, <4>3
    <3> QED BY <2>1, <2>2, <3>4, <3>5, ComparedTotal
  <2> QED BY <2>5, <2>6
<1> HIDE DEF Total
<1>2. 0 \in P
  BY <1>1
<1>3. ASSUME NEW n \in Nat, n \in P PROVE n + 1 \in P
  <2>1. (n + 1) - 1 \in Nat /\ Total((n + 1) - 1) /\ n + 1 \in Nat
    BY <1>3
  <2> QED BY <1>1, <2>1
<1>4. Nat \subseteq P
  <2> HIDE DEF P
  <2> QED BY <1>2, <1>3, Induction
<1> QED BY <1>4 DEF Total

-------------------------------------------------------------------------------
(* The theorems                                                            *)

LEMMA FromTheTop ==
  ASSUME NEW x \in Value, NEW y \in Value
  PROVE  /\ ValueEquals(x, y, 0) = EqualsWithin[MaxValueEqualsDepth + 1][<<x, y>>]
         /\ SameValue(x, y) = Whole[<<x, y>>]
<1>1. ~TooDeep(0) /\ MaxValueEqualsDepth + 1 - 0 = MaxValueEqualsDepth + 1
  BY LimitsAssumption DEF TooDeep
<1> QED BY <1>1 DEF ValueEquals, SameValue, Whole

(* For any two values, scalars and limits: the first-fit pairing of        *)
(* nxe_cedar_value_equals (expr.c:937-1092), when it answers, answers yes  *)
(* exactly when the values are the same, a set for a set in any order.     *)
THEOREM EqualityIsExact ==
  ASSUME NEW x \in Value, NEW y \in Value
  PROVE  ValueEquals(x, y, 0) \in {"error", Answer(SameValue(x, y))}
<1>1. MaxValueEqualsDepth + 1 \in Nat
  BY LimitsAssumption
<1> QED BY <1>1, FromTheTop, EqualsRight

(* It answers whenever one of the two is within the limits of types.h:     *)
(* 387-401, however deep or large the other is.                            *)
THEOREM EqualityIsTotal ==
  ASSUME NEW x \in Value, NEW y \in Value, WithinLimits(x) \/ WithinLimits(y)
  PROVE  ValueEquals(x, y, 0) # "error"
<1>1. MaxValueEqualsDepth \in Nat
  BY LimitsAssumption
<1>2. \A n \in Nat :
        Limited[n][x] \/ Limited[n][y] => EqualsWithin[n + 1][<<x, y>>] # "error"
  BY EqualsTotal
<1>3. EqualsWithin[MaxValueEqualsDepth + 1][<<x, y>>] # "error"
  BY <1>1, <1>2 DEF WithinLimits
<1> QED BY <1>3, FromTheTop

(* With the sides exchanged it does not answer otherwise: what it answers  *)
(* is right both ways (expr.c:937-1092), and sameness is symmetric.        *)
THEOREM SidesAgree ==
  ASSUME NEW x \in Value, NEW y \in Value
  PROVE  \/ ValueEquals(x, y, 0) = ValueEquals(y, x, 0)
         \/ "error" \in {ValueEquals(x, y, 0), ValueEquals(y, x, 0)}
<1>1. Whole[<<x, y>>] <=> Whole[<<y, x>>]
  BY WholeAgrees
<1>2. /\ ValueEquals(x, y, 0) \in {"error", Answer(Whole[<<x, y>>])}
      /\ ValueEquals(y, x, 0) \in {"error", Answer(Whole[<<y, x>>])}
  <2>1. MaxValueEqualsDepth + 1 \in Nat
    BY LimitsAssumption
  <2> QED BY <2>1, FromTheTop, EqualsRight
<1> QED BY <1>1, <1>2 DEF Answer

(* Both sides stay values as they grow.                                    *)
LEMMA ValuesGrow == Spec => [](a \in Value /\ b \in Value)
<1>1. Init => a \in Value /\ b \in Value
  <2>1. Scalar \subseteq Value
    BY LevelSteps, LevelsGrow, LimitsAssumption DEF Value
  <2> QED BY <2>1 DEF Init
<1>2. (a \in Value /\ b \in Value) /\ [Next]_vars => (a \in Value /\ b \in Value)'
  BY DEF Next, GrowA, GrowB, vars
<1> QED BY <1>1, <1>2, PTL DEF Spec

(* Whatever the comparison answers is right, at every step of the growth   *)
(* (expr.c:937-1092).                                                      *)
THEOREM AnswersAreRight == Spec => []AnswersRight
<1>1. a \in Value /\ b \in Value => AnswersRight
  BY EqualityIsExact DEF AnswersRight
<1> QED BY <1>1, ValuesGrow, PTL

(* It errs only when both sides are beyond the limits (types.h:387-401).   *)
THEOREM EqualityStaysTotal == Spec => []TotalWithinLimits
<1>1. a \in Value /\ b \in Value => TotalWithinLimits
  BY EqualityIsTotal DEF TotalWithinLimits
<1> QED BY <1>1, ValuesGrow, PTL

(* Exchanging the sides only ever turns an answer into an error            *)
(* (expr.c:937-1092).                                                      *)
THEOREM SidesStayExchangeable == Spec => []SidesExchange
<1>1. a \in Value /\ b \in Value => SidesExchange
  BY SidesAgree DEF SidesExchange
<1> QED BY <1>1, ValuesGrow, PTL

==============================================================================
